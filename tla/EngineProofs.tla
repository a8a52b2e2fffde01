---------------------------- MODULE EngineProofs ----------------------------
(***************************************************************************)
(* Theorems about the client engine, for every set of clients, keys,       *)
(* endpoints, listings and Conns.                                          *)
(***************************************************************************)
EXTENDS Engine, TLAPS

\* A row on its way from the directory to the interface was listed once, wherever
\* it is.
CarriedInv ==
  /\ dir \subseteq listed
  /\ rows \subseteq listed
  /\ poll = "writing" => adding \in listed
  /\ \A i \in Conns : pc[i] # "free" => conn[i] \in listed

Inv == TypeOK /\ CarriedInv /\ RouteIsARegistration

-----------------------------------------------------------------------------
\* The engine starts with an interface without peers.
LEMMA InitInv == Init => Inv
<1> SUFFICES ASSUME Init PROVE Inv
  OBVIOUS
<1>1. dir \subseteq Entry /\ listed = dir
  BY ListingsAssumption DEF Init
<1>2. TypeOK
  BY <1>1, MovesAssumption DEF Init, TypeOK
<1> QED BY <1>1, <1>2 DEF Init, Inv, CarriedInv, RouteIsARegistration

\* Configuring a peer from a row that was listed leaves only routes that were.
LEMMA UpdateRoutes ==
  ASSUME TypeOK, RouteIsARegistration, NEW e \in listed, UpdatePeer(e), UNCHANGED listed
  PROVE  /\ wg' \in [Keys -> Endpoints \cup {None}]
         /\ owner' \in [Clients -> Keys \cup {None}]
         /\ RouteIsARegistration'
<1>1. e \in Entry /\ e.client \in Clients /\ e.key \in Keys /\ e.ep \in Endpoints
  BY DEF TypeOK, Entry
<1>2. /\ wg' \in [Keys -> Endpoints \cup {None}]
      /\ owner' \in [Clients -> Keys \cup {None}]
  BY <1>1 DEF UpdatePeer, TypeOK
<1>3. ASSUME NEW c \in Clients, owner'[c] # None
      PROVE  [client |-> c, key |-> owner'[c], ep |-> wg'[owner'[c]]] \in listed
  <2>1. CASE c = e.client
    <3>1. owner'[c] = e.key /\ wg'[e.key] = e.ep
      BY <1>1, <2>1 DEF UpdatePeer, TypeOK
    <3>2. [client |-> e.client, key |-> e.key, ep |-> e.ep] = e
      BY <1>1 DEF Entry
    <3> QED BY <2>1, <3>1, <3>2
  <2>2. CASE c # e.client
    <3>1. owner'[c] = owner[c] /\ owner[c] # e.key /\ owner[c] \in Keys
      BY <1>1, <1>3, <2>2 DEF UpdatePeer, TypeOK
    <3>2. wg'[owner[c]] = wg[owner[c]]
      BY <1>1, <3>1 DEF UpdatePeer, TypeOK
    <3> QED BY <1>3, <3>1, <3>2 DEF RouteIsARegistration
  <2> QED BY <2>1, <2>2
<1> QED BY <1>2, <1>3 DEF RouteIsARegistration

\* Each step of the server, the poller and the workers keeps the invariant.
LEMMA NextInv == Inv /\ [Next]_vars => Inv'
<1> SUFFICES ASSUME Inv, [Next]_vars PROVE Inv'
  OBVIOUS
<1> USE DEF Inv
<1>1. ASSUME NEW e \in Listings, Register(e) PROVE Inv'
  <2>1. e \in Entry
    BY ListingsAssumption
  <2> QED
    BY <1>1, <2>1, MovesAssumption
    DEF Register, TypeOK, CarriedInv, RouteIsARegistration, device
<1>2. ASSUME Forget PROVE Inv'
  BY <1>2, MovesAssumption DEF Forget, TypeOK, CarriedInv, RouteIsARegistration, device
<1>3. ASSUME Answer PROVE Inv'
  BY <1>3 DEF Answer, TypeOK, CarriedInv, RouteIsARegistration, server, device
<1>4. ASSUME Deliver PROVE Inv'
  BY <1>4 DEF Deliver, TypeOK, CarriedInv, RouteIsARegistration, server, device
<1>5. ASSUME Ask PROVE Inv'
  BY <1>5 DEF Ask, TypeOK, CarriedInv, RouteIsARegistration, server, device
<1>6. ASSUME Timeout PROVE Inv'
  BY <1>6 DEF Timeout, TypeOK, CarriedInv, RouteIsARegistration, server, device
<1>7. ASSUME BeginWrite PROVE Inv'
  BY <1>7 DEF BeginWrite, TypeOK, CarriedInv, RouteIsARegistration, server, device
<1>8. ASSUME EndWrite PROVE Inv'
  <2>1. PICK i \in Conns :
          /\ peerConns' = [peerConns EXCEPT ![adding.key] = i]
          /\ pc' = [pc EXCEPT ![i] = "delay"]
          /\ conn' = [conn EXCEPT ![i] = adding]
    BY <1>8 DEF EndWrite
  <2>2. adding \in listed /\ adding \in Entry /\ adding.key \in Keys
    BY <1>8 DEF EndWrite, TypeOK, CarriedInv, Entry
  <2>3. TypeOK'
    BY <1>8, <2>1, <2>2 DEF EndWrite, TypeOK, server, device
  <2>4. CarriedInv'
    BY <1>8, <2>1, <2>2 DEF EndWrite, TypeOK, CarriedInv, server
  <2>5. RouteIsARegistration'
    BY <1>8 DEF EndWrite, RouteIsARegistration, server, device
  <2> QED BY <2>3, <2>4, <2>5
<1>9. ASSUME Added PROVE Inv'
  BY <1>9 DEF Added, TypeOK, CarriedInv, RouteIsARegistration, server, device
<1>10. ASSUME NEW i \in Conns, PeerExists(i) PROVE Inv'
  BY <1>10 DEF PeerExists, TypeOK, CarriedInv, RouteIsARegistration, server, device
<1>11. ASSUME NEW i \in Conns, ConcurrentMapAccess(i) PROVE Inv'
  BY <1>11 DEF ConcurrentMapAccess, TypeOK, CarriedInv, RouteIsARegistration, server, device
<1>12. ASSUME NEW i \in Conns, Configured(i) PROVE Inv'
  <2>1. conn[i] \in listed /\ UpdatePeer(conn[i]) /\ UNCHANGED listed
    BY <1>12 DEF Configured, CarriedInv, TypeOK, server
  <2>2. /\ wg' \in [Keys -> Endpoints \cup {None}]
        /\ owner' \in [Clients -> Keys \cup {None}]
        /\ RouteIsARegistration'
    BY <2>1, UpdateRoutes
  <2>3. TypeOK' /\ CarriedInv'
    BY <1>12, <2>2 DEF Configured, TypeOK, CarriedInv, server
  <2> QED BY <2>2, <2>3
<1>13. ASSUME NEW i \in Conns, ConfigureFails(i) PROVE Inv'
  BY <1>13 DEF ConfigureFails, TypeOK, CarriedInv, RouteIsARegistration, server, device
<1>14. CASE UNCHANGED vars
  BY <1>14 DEF vars, TypeOK, CarriedInv, RouteIsARegistration
<1> QED BY <1>1, <1>2, <1>3, <1>4, <1>5, <1>6, <1>7, <1>8, <1>9, <1>10, <1>11, <1>12, <1>13, <1>14
        DEF Next, Poll

\* The engine's variables, and what it leaves in the interface, keep their types.
THEOREM EngineTypeCorrect == Spec => []TypeOK
  <1>1. Inv => TypeOK
    BY DEF Inv
  <1> QED BY <1>1, InitInv, NextInv, PTL DEF Spec

\* However the workers of old and new Conns race on the interface, traffic for a
\* client goes to a key at an endpoint that this client registered together.
THEOREM RoutesRegistered == Spec => []RouteIsARegistration
  <1>1. Inv => RouteIsARegistration
    BY DEF Inv
  <1> QED BY <1>1, InitInv, NextInv, PTL DEF Spec

-----------------------------------------------------------------------------
(* The interface stays up to date *)

\* The directory has one row per client.
OneRow == \A e, f \in dir : e.client = f.client => e = f

\* A registration replaces the row of its client.
LEMMA OneRowStays == OneRow /\ [Next]_vars => OneRow'
<1> SUFFICES ASSUME OneRow, [Next]_vars PROVE OneRow'
  OBVIOUS
<1>1. ASSUME NEW e \in Listings, Register(e) PROVE OneRow'
  BY <1>1 DEF Register, OneRow
<1>2. CASE Forget
  BY <1>2 DEF Forget, OneRow
<1>3. ASSUME NEW i \in Conns, PeerExists(i) \/ ConcurrentMapAccess(i) \/ Configured(i) \/ ConfigureFails(i)
      PROVE  UNCHANGED dir
  BY <1>3 DEF PeerExists, ConcurrentMapAccess, Configured, ConfigureFails, server
<1>4. Answer \/ Deliver \/ Poll \/ UNCHANGED vars => UNCHANGED dir
  BY DEF Answer, Deliver, Poll, Ask, Timeout, BeginWrite, EndWrite, Added, server, vars
<1> QED BY <1>1, <1>2, <1>3, <1>4 DEF Next, OneRow

\* A row of the directory, when it is configured again, takes nothing from the others.
LEMMA UpdateKeepsUpToDate ==
  ASSUME TypeOK, OneRow, UpToDate, NEW d \in dir, UpdatePeer(d), UNCHANGED dir
  PROVE  UpToDate'
<1> SUFFICES ASSUME NEW e \in dir, \A f \in dir : f.key = e.key => f = e
             PROVE  wg'[e.key] = e.ep /\ owner'[e.client] = e.key
  BY DEF UpToDate
<1>1. e \in Entry /\ d \in Entry
  BY DEF TypeOK
<1>2. /\ e.key \in Keys /\ e.client \in Clients /\ e.ep \in Endpoints
      /\ d.key \in Keys /\ d.client \in Clients /\ d.ep \in Endpoints
  BY <1>1 DEF Entry
<1>3. wg[e.key] = e.ep /\ owner[e.client] = e.key
  BY DEF UpToDate
<1>4. CASE d.key = e.key
  <2>1. d = e
    BY <1>4
  <2> QED BY <1>2, <2>1 DEF UpdatePeer, TypeOK
<1>5. CASE d.key # e.key
  <2>1. d.client # e.client
    BY <1>5 DEF OneRow
  <2> QED BY <1>2, <1>3, <1>5, <2>1 DEF UpdatePeer, TypeOK
<1> QED BY <1>4, <1>5

\* Where the rows under way come from.
LEMMA UnderWayStays ==
  ASSUME TypeOK, [Next]_vars, UnderWay \subseteq dir, UNCHANGED dir
  PROVE  UnderWay' \subseteq dir
<1>0. /\ rows \subseteq dir /\ (poll = "writing" => adding \in dir)
      /\ \A i \in Conns : pc[i] \in {"delay", "open"} => conn[i] \in dir
  BY DEF UnderWay
<1> SUFFICES /\ rows' \subseteq dir /\ (poll' = "writing" => adding' \in dir)
             /\ \A i \in Conns : pc'[i] \in {"delay", "open"} => conn'[i] \in dir
  BY DEF UnderWay
<1>1. ASSUME NEW e \in Listings, Register(e) PROVE FALSE
  BY <1>1 DEF Register
<1>2. ~Forget
  BY DEF Forget
<1>3. CASE Answer \/ Deliver \/ Ask \/ Timeout \/ Added
  BY <1>0, <1>3 DEF Answer, Deliver, Ask, Timeout, Added
<1>4. CASE BeginWrite
  BY <1>0, <1>4 DEF BeginWrite
<1>5. CASE EndWrite
  <2>1. PICK i \in Conns : /\ pc' = [pc EXCEPT ![i] = "delay"]
                           /\ conn' = [conn EXCEPT ![i] = adding]
    BY <1>5 DEF EndWrite
  <2>2. adding \in dir /\ rows' = rows /\ poll' = "adding"
    BY <1>0, <1>5 DEF EndWrite
  <2> QED BY <1>0, <2>1, <2>2 DEF TypeOK
<1>6. ASSUME NEW i \in Conns, PeerExists(i) \/ ConcurrentMapAccess(i) \/ Configured(i) \/ ConfigureFails(i)
      PROVE  /\ UNCHANGED <<rows, poll, adding, conn>>
             /\ \A j \in Conns : pc'[j] \in {"delay", "open"} => pc[j] \in {"delay", "open"}
  BY <1>6 DEF PeerExists, ConcurrentMapAccess, Configured, ConfigureFails, TypeOK
<1>7. CASE UNCHANGED vars
  BY <1>0, <1>7 DEF vars
<1> QED BY <1>0, <1>1, <1>2, <1>3, <1>4, <1>5, <1>6, <1>7 DEF Next, Poll

\* Every step leaves the device alone or is one UpdatePeer of a row under way.
LEMMA DeviceSteps ==
  ASSUME [Next]_vars
  PROVE  \/ UNCHANGED device
         \/ \E i \in Conns : pc[i] = "open" /\ UpdatePeer(conn[i])
<1>1. ASSUME NEW i \in Conns, Configured(i)
      PROVE  pc[i] = "open" /\ UpdatePeer(conn[i])
  BY <1>1 DEF Configured
<1>2. ASSUME NEW i \in Conns, PeerExists(i) \/ ConcurrentMapAccess(i) \/ ConfigureFails(i)
      PROVE  UNCHANGED device
  BY <1>2 DEF PeerExists, ConcurrentMapAccess, ConfigureFails
<1>3. ASSUME NEW e \in Listings, Register(e) PROVE UNCHANGED device
  BY <1>3 DEF Register
<1>4. Forget \/ Answer \/ Deliver \/ Poll \/ UNCHANGED vars => UNCHANGED device
  BY DEF Forget, Answer, Deliver, Poll, Ask, Timeout, BeginWrite, EndWrite, Added, vars, device
<1> QED BY <1>1, <1>2, <1>3, <1>4 DEF Next

\* Once the interface has caught up with the directory, no worker, however late or
\* often it fails and however it races with the others, undoes it: the safety half of
\* Converges, for any number of clients and Conns.
THEOREM StaysSettled == Spec => SettledStays
<1>1. Init => OneRow
  BY DEF Init, OneRow
<1>2. Inv /\ OneRow /\ [Next]_vars => (Settled /\ UNCHANGED dir => Settled')
  <2> SUFFICES ASSUME Inv, OneRow, [Next]_vars, Settled, UNCHANGED dir PROVE Settled'
    OBVIOUS
  <2>1. UnderWay' \subseteq dir'
    BY UnderWayStays DEF Inv, Settled
  <2>2. UpToDate'
    <3>1. CASE UNCHANGED device
      BY <3>1 DEF Settled, UpToDate, device
    <3>2. ASSUME NEW i \in Conns, pc[i] = "open", UpdatePeer(conn[i]) PROVE UpToDate'
      <4>1. conn[i] \in dir
        BY <3>2 DEF Settled, UnderWay
      <4> QED BY <3>2, <4>1, UpdateKeepsUpToDate DEF Inv, Settled
    <3> QED BY <3>1, <3>2, DeviceSteps
  <2> QED BY <2>1, <2>2 DEF Settled
<1>3. (Settled /\ UNCHANGED dir => Settled') => [Settled /\ UNCHANGED dir => Settled']_vars
  OBVIOUS
<1> QED BY <1>1, <1>2, <1>3, InitInv, NextInv, OneRowStays, PTL DEF Spec, SettledStays
=============================================================================
