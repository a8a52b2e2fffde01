---------------------------- MODULE UDPMuxProofs ----------------------------
(***************************************************************************)
(* Theorems about the ICE multiplexer, for every set of ufrags, addresses, *)
(* connections, writers and handlers.                                      *)
(***************************************************************************)
EXTENDS UDPMux, TLAPS

\* A writer on its way has a connection and an address, and the connection remembers
\* the address before it is registered for it; a handler has a source, and a ufrag
\* while it looks for one.
BusyInv ==
  /\ \A w \in Writers : writer[w].pc # "idle" =>
       /\ writer[w].conn \in Conns /\ writer[w].addr \in Addrs
       /\ writer[w].pc # "add" => writer[w].addr \in addresses[writer[w].conn]
  /\ \A h \in Handlers : stun[h].pc = "ufrag" => stun[h].addr \in Addrs /\ stun[h].ufrag \in Ufrags

\* A connection that can be found is found under its key, and its goroutine waits.
FoundInv ==
  /\ \A c \in Conns : watcher[c] # "none" => key[c] \in Ufrags
  /\ \A f \in Families, u \in Ufrags : conns[f][u] # None =>
       key[conns[f][u]] = u /\ watcher[conns[f][u]] = "waiting"

Inv == TypeOK /\ BusyInv /\ FoundInv /\ RoutesAreRemembered /\ ClosedMuxIsEmpty

-----------------------------------------------------------------------------
\* A new mux knows nothing.
LEMMA InitInv == Init => Inv
<1> SUFFICES ASSUME Init PROVE Inv
  OBVIOUS
<1>1. TypeOK
  <2>1. /\ IdleWriter \in [pc : {"idle", "add", "register", "append"},
                           conn : Conns \cup {None}, addr : Addrs \cup {None}]
        /\ IdleStun \in [pc : {"idle", "ufrag", "forward"}, addr : Addrs \cup {None},
                         ufrag : Ufrags \cup {None}, list : Seq(Conns)]
    BY DEF IdleWriter, IdleStun
  <2>2. /\ writer \in [Writers -> [pc : {"idle", "add", "register", "append"},
                                  conn : Conns \cup {None}, addr : Addrs \cup {None}]]
        /\ stun \in [Handlers -> [pc : {"idle", "ufrag", "forward"}, addr : Addrs \cup {None},
                                  ufrag : Ufrags \cup {None}, list : Seq(Conns)]]
    BY <2>1 DEF Init
  <2>3. addressMap \in [Addrs -> Seq(Conns)]
    BY DEF Init
  <2> QED BY <2>2, <2>3 DEF Init, TypeOK
<1>2. BusyInv /\ FoundInv /\ ClosedMuxIsEmpty
  BY DEF Init, BusyInv, FoundInv, ClosedMuxIsEmpty, IdleWriter, IdleStun
<1>3. RoutesAreRemembered
  BY DEF Init, RoutesAreRemembered
<1> QED BY <1>1, <1>2, <1>3 DEF Inv

\* What is registered for an address stays remembered when no registration is added
\* and no address forgotten.
LEMMA Remembered ==
  ASSUME TypeOK, RoutesAreRemembered,
         \A a \in Addrs : addressMap'[a] = addressMap[a] \/ addressMap'[a] = <<>>,
         \A c \in Conns : addresses[c] \subseteq addresses'[c]
  PROVE  RoutesAreRemembered'
<1> SUFFICES ASSUME NEW a \in Addrs, NEW i \in DOMAIN addressMap'[a]
             PROVE  a \in addresses'[addressMap'[a][i]]
  BY DEF RoutesAreRemembered
<1>1. addressMap'[a] = addressMap[a]
  OBVIOUS
<1>2. addressMap[a] \in Seq(Conns)
  BY DEF TypeOK
<1>3. addressMap[a][i] \in Conns /\ a \in addresses[addressMap[a][i]]
  BY <1>1, <1>2 DEF RoutesAreRemembered
<1> QED BY <1>1, <1>3

\* GetConn: a connection that did not exist is found under its ufrag.
LEMMA GetConnInv ==
  ASSUME Inv, NEW u \in Ufrags, NEW f \in Families, NEW c \in Conns, GetConn(u, f, c)
  PROVE  Inv'
<1> USE DEF Inv
<1>1. TypeOK'
  BY DEF GetConn, TypeOK
<1>2. BusyInv'
  BY DEF GetConn, BusyInv
<1>3. \A g \in Families, v \in Ufrags : conns'[g][v] = IF g = f /\ v = u THEN c ELSE conns[g][v]
  BY DEF GetConn, TypeOK
<1>4. \A g \in Families, v \in Ufrags : conns[g][v] # None => conns[g][v] \in Conns /\ conns[g][v] # c
  BY UDPMuxAssumption DEF GetConn, TypeOK, FoundInv
<1>5. FoundInv'
  <2>1. \A d \in Conns : watcher'[d] # "none" => key'[d] \in Ufrags
    BY DEF GetConn, TypeOK, FoundInv
  <2>2. ASSUME NEW g \in Families, NEW v \in Ufrags, conns'[g][v] # None
        PROVE  key'[conns'[g][v]] = v /\ watcher'[conns'[g][v]] = "waiting"
    <3>1. CASE g = f /\ v = u
      BY <1>3, <3>1 DEF GetConn, TypeOK
    <3>2. CASE ~(g = f /\ v = u)
      BY <1>3, <1>4, <2>2, <3>2 DEF GetConn, TypeOK, FoundInv
    <3> QED BY <3>1, <3>2
  <2> QED BY <2>1, <2>2 DEF FoundInv
<1>6. RoutesAreRemembered' /\ ClosedMuxIsEmpty'
  BY DEF GetConn, RoutesAreRemembered, ClosedMuxIsEmpty
<1> QED BY <1>1, <1>2, <1>5, <1>6

\* RemoveConnByUfrag: nothing is found under the ufrag any more, so the goroutine
\* that has run is not missed by any connection.
LEMMA RemoveInv ==
  ASSUME Inv, NEW c \in Conns, RemoveConnByUfrag(c)
  PROVE  Inv'
<1> USE DEF Inv
<1>1. key[c] \in Ufrags
  BY DEF RemoveConnByUfrag, FoundInv
<1>2. OfUfrag(key[c]) \subseteq Conns
  BY <1>1 DEF OfUfrag, TypeOK
<1>3. TypeOK'
  BY <1>1, <1>2 DEF RemoveConnByUfrag, TypeOK
<1>4. BusyInv' /\ RoutesAreRemembered'
  BY DEF RemoveConnByUfrag, BusyInv, RoutesAreRemembered
<1>5. \A f \in Families, u \in Ufrags : conns'[f][u] = IF u = key[c] THEN None ELSE conns[f][u]
  BY <1>1 DEF RemoveConnByUfrag, TypeOK
<1>6. ClosedMuxIsEmpty'
  BY <1>5 DEF RemoveConnByUfrag, ClosedMuxIsEmpty
<1>7. FoundInv'
  <2>1. \A d \in Conns : watcher'[d] # "none" => key'[d] \in Ufrags
    BY <1>1 DEF RemoveConnByUfrag, TypeOK, FoundInv
  <2>2. ASSUME NEW f \in Families, NEW u \in Ufrags, conns'[f][u] # None
        PROVE  key'[conns'[f][u]] = u /\ watcher'[conns'[f][u]] = "waiting"
    <3>1. conns'[f][u] = conns[f][u] /\ u # key[c]
      BY <1>5, <2>2
    <3>2. conns[f][u] \in Conns /\ key[conns[f][u]] = u /\ watcher[conns[f][u]] = "waiting"
      BY <2>2, <3>1 DEF TypeOK, FoundInv
    <3> QED BY <3>1, <3>2 DEF RemoveConnByUfrag, TypeOK
  <2> QED BY <2>1, <2>2 DEF FoundInv
<1> QED BY <1>3, <1>4, <1>6, <1>7

\* UnmapAddresses: entries are emptied, none is added to.
LEMMA UnmapInv ==
  ASSUME Inv, NEW c \in Conns, UnmapAddresses(c)
  PROVE  Inv'
<1> USE DEF Inv
<1>1. TypeOK'
  BY DEF UnmapAddresses, TypeOK
<1>2. BusyInv' /\ ClosedMuxIsEmpty'
  BY DEF UnmapAddresses, BusyInv, ClosedMuxIsEmpty
<1>3. FoundInv'
  <2>1. \A d \in Conns : watcher'[d] # "none" => key'[d] \in Ufrags
    BY DEF UnmapAddresses, TypeOK, FoundInv
  <2>2. \A f \in Families, u \in Ufrags : conns[f][u] # None => conns[f][u] \in Conns
    BY DEF TypeOK
  <2>3. \A f \in Families, u \in Ufrags : conns[f][u] # None => conns[f][u] # c
    BY DEF UnmapAddresses, FoundInv
  <2> QED BY <2>1, <2>2, <2>3 DEF UnmapAddresses, TypeOK, FoundInv
<1>4. RoutesAreRemembered'
  BY Remembered DEF UnmapAddresses
<1> QED BY <1>1, <1>2, <1>3, <1>4

\* CloseMux: nothing is left to be found.
LEMMA CloseMuxInv == ASSUME Inv, CloseMux PROVE Inv'
<1> USE DEF Inv
<1>1. UNION {OfUfrag(u) : u \in Ufrags} \subseteq Conns
  BY DEF OfUfrag, TypeOK
<1>2. TypeOK'
  BY <1>1 DEF CloseMux, TypeOK
<1>3. BusyInv' /\ FoundInv' /\ ClosedMuxIsEmpty'
  BY DEF CloseMux, BusyInv, FoundInv, ClosedMuxIsEmpty
<1>4. RoutesAreRemembered'
  BY DEF CloseMux, RoutesAreRemembered
<1> QED BY <1>2, <1>3, <1>4

\* A step of a writer: it registers only what was remembered the step before.
LEMMA WriteInv ==
  ASSUME Inv, NEW w \in Writers,
         Write(w) \/ \E c \in Conns, a \in Addrs : WriteTo(w, c, a)
  PROVE  Inv'
<1> USE DEF Inv
<1>1. CASE \E c \in Conns, a \in Addrs : WriteTo(w, c, a)
  BY <1>1 DEF WriteTo, TypeOK, BusyInv, FoundInv, RoutesAreRemembered, ClosedMuxIsEmpty
<1>2. CASE AddAddress(w)
  <2>1. writer[w].conn \in Conns /\ writer[w].addr \in Addrs
    BY <1>2 DEF AddAddress, BusyInv
  <2>2. /\ \A c \in Conns : addresses[c] \subseteq addresses'[c]
        /\ writer[w].addr \in addresses'[writer[w].conn]
    BY <1>2, <2>1 DEF AddAddress, TypeOK
  <2>3. TypeOK'
    BY <1>2, <2>1 DEF AddAddress, TypeOK
  <2>4. BusyInv'
    BY <1>2, <2>1, <2>2 DEF AddAddress, TypeOK, BusyInv
  <2>5. RoutesAreRemembered'
    BY <1>2, <2>2, Remembered DEF AddAddress
  <2> QED BY <1>2, <2>3, <2>4, <2>5 DEF AddAddress, FoundInv, ClosedMuxIsEmpty
<1>3. CASE RegisterCheck(w)
  <2>0. UNCHANGED <<conns, addressMap, muxClosed, key, addresses, closed, watcher, removed, stun>>
    BY <1>3 DEF RegisterCheck
  <2>1. TypeOK' /\ BusyInv'
    <3>1. CASE muxClosed
      <4>1. writer' = [writer EXCEPT ![w] = IdleWriter]
        BY <1>3, <3>1 DEF RegisterCheck
      <4>2. IdleWriter \in [pc : {"idle", "add", "register", "append"},
                           conn : Conns \cup {None}, addr : Addrs \cup {None}]
        BY DEF IdleWriter
      <4>3. TypeOK'
        BY <2>0, <4>1, <4>2 DEF TypeOK
      <4>4. BusyInv'
        BY <1>3, <4>1 DEF RegisterCheck, IdleWriter, TypeOK, BusyInv
      <4> QED BY <4>3, <4>4
    <3>2. CASE ~muxClosed
      <4>1. writer' = [writer EXCEPT ![w] = [writer[w] EXCEPT !.pc = "append"]]
        BY <1>3, <3>2 DEF RegisterCheck, TypeOK
      <4>2. TypeOK'
        <5>1. [writer[w] EXCEPT !.pc = "append"]
                \in [pc : {"idle", "add", "register", "append"},
                     conn : Conns \cup {None}, addr : Addrs \cup {None}]
          BY DEF TypeOK
        <5> QED BY <2>0, <4>1, <5>1 DEF TypeOK
      <4>3. /\ writer[w].pc = "register" /\ writer'[w].conn = writer[w].conn
            /\ writer'[w].addr = writer[w].addr
            /\ \A v \in Writers : v # w => writer'[v] = writer[v]
        BY <1>3, <4>1 DEF RegisterCheck, TypeOK
      <4>4. ASSUME NEW v \in Writers, writer'[v].pc # "idle"
            PROVE  /\ writer'[v].conn \in Conns /\ writer'[v].addr \in Addrs
                   /\ writer'[v].pc # "add" => writer'[v].addr \in addresses[writer'[v].conn]
        <5>1. CASE v = w
          BY <4>3, <5>1 DEF BusyInv
        <5>2. CASE v # w
          BY <4>3, <4>4, <5>2 DEF BusyInv
        <5> QED BY <5>1, <5>2
      <4>5. BusyInv'
        BY <2>0, <4>4 DEF BusyInv
      <4> QED BY <4>2, <4>5
    <3> QED BY <3>1, <3>2
  <2> QED BY <1>3, <2>1 DEF RegisterCheck, FoundInv, RoutesAreRemembered, ClosedMuxIsEmpty
<1>4. CASE RegisterConnForAddress(w)
  <2>1. /\ writer[w].conn \in Conns /\ writer[w].addr \in Addrs
        /\ writer[w].addr \in addresses[writer[w].conn]
    BY <1>4 DEF RegisterConnForAddress, BusyInv
  <2>2. TypeOK'
    <3>1. addressMap' \in [Addrs -> Seq(Conns)]
      BY <1>4, <2>1 DEF RegisterConnForAddress, TypeOK
    <3> QED BY <1>4, <3>1 DEF RegisterConnForAddress, TypeOK, IdleWriter
  <2>3. BusyInv'
    BY <1>4 DEF RegisterConnForAddress, TypeOK, BusyInv, IdleWriter
  <2>4. ASSUME NEW a \in Addrs, NEW i \in DOMAIN addressMap'[a]
        PROVE  a \in addresses'[addressMap'[a][i]]
    <3>1. addressMap[a] \in Seq(Conns)
      BY DEF TypeOK
    <3>2. CASE a = writer[w].addr
      <4>1. addressMap'[a] = Append(addressMap[a], writer[w].conn)
        BY <1>4, <3>2 DEF RegisterConnForAddress, TypeOK
      <4>2. CASE i \in DOMAIN addressMap[a]
        BY <1>4, <2>1, <3>1, <4>1, <4>2 DEF RegisterConnForAddress, RoutesAreRemembered
      <4>3. CASE i \notin DOMAIN addressMap[a]
        BY <1>4, <2>1, <3>1, <3>2, <4>1, <4>3 DEF RegisterConnForAddress
      <4> QED BY <4>2, <4>3
    <3>3. CASE a # writer[w].addr
      BY <1>4, <2>1, <2>4, <3>1, <3>3 DEF RegisterConnForAddress, TypeOK, RoutesAreRemembered
    <3> QED BY <3>2, <3>3
  <2> QED BY <1>4, <2>2, <2>3, <2>4 DEF RegisterConnForAddress, FoundInv, RoutesAreRemembered, ClosedMuxIsEmpty
<1> QED BY <1>1, <1>2, <1>3, <1>4 DEF Write

\* A step of a handler: it changes only its own list.
LEMMA DispatchInv ==
  ASSUME Inv, NEW h \in Handlers,
         \/ \E a \in Addrs, u \in Ufrags \cup {None} : HandleSTUNMessage(h, a, u)
         \/ AddByUfrag(h) \/ Forward(h)
  PROVE  Inv'
<1> USE DEF Inv
<1>0. UNCHANGED <<conns, addressMap, muxClosed, key, addresses, closed, watcher, removed, writer>>
  BY DEF HandleSTUNMessage, AddByUfrag, Forward
<1>1. /\ stun' \in [Handlers -> [pc : {"idle", "ufrag", "forward"}, addr : Addrs \cup {None},
                                 ufrag : Ufrags \cup {None}, list : Seq(Conns)]]
      /\ \A g \in Handlers : stun'[g].pc = "ufrag" => stun'[g].addr \in Addrs /\ stun'[g].ufrag \in Ufrags
  <2>1. CASE \E a \in Addrs, u \in Ufrags \cup {None} : HandleSTUNMessage(h, a, u)
    <3>1. PICK a \in Addrs, u \in Ufrags \cup {None} : HandleSTUNMessage(h, a, u)
      BY <2>1
    <3>2. addressMap[a] \in Seq(Conns)
      BY DEF TypeOK
    <3> QED BY <3>1, <3>2 DEF HandleSTUNMessage, TypeOK, BusyInv
  <2>2. CASE AddByUfrag(h)
    <3> DEFINE f == FamilyOf(stun[h].addr)
               d == IF f \in Families THEN conns[f][stun[h].ufrag] ELSE None
               exists == \E i \in DOMAIN stun[h].list : key[stun[h].list[i]] = key[d]
    <3>1. stun[h].ufrag \in Ufrags /\ stun[h].list \in Seq(Conns)
      BY <2>2 DEF AddByUfrag, TypeOK, BusyInv
    <3>2. d \in Conns \cup {None}
      <4> HIDE DEF f
      <4> QED BY <3>1 DEF TypeOK
    <3> DEFINE list == IF d = None \/ exists THEN stun[h].list ELSE Append(stun[h].list, d)
    <3>3. stun' = [stun EXCEPT ![h] = [stun[h] EXCEPT !.pc = "forward", !.list = list]]
      BY <2>2, Zenon DEF AddByUfrag
    <3> HIDE DEF d, exists
    <3>4. list \in Seq(Conns)
      BY <3>1, <3>2
    <3> HIDE DEF list
    <3>5. [stun[h] EXCEPT !.pc = "forward", !.list = list]
            \in [pc : {"idle", "ufrag", "forward"}, addr : Addrs \cup {None},
                 ufrag : Ufrags \cup {None}, list : Seq(Conns)]
      BY <3>4 DEF TypeOK
    <3> QED BY <3>3, <3>5 DEF TypeOK, BusyInv
  <2>3. CASE Forward(h)
    BY <2>3 DEF Forward, IdleStun, TypeOK, BusyInv
  <2> QED BY <2>1, <2>2, <2>3
<1> QED BY <1>0, <1>1 DEF TypeOK, BusyInv, FoundInv, RoutesAreRemembered, ClosedMuxIsEmpty

\* Every step keeps the invariant.
LEMMA NextInv == Inv /\ [Next]_vars => Inv'
<1> SUFFICES ASSUME Inv, [Next]_vars PROVE Inv'
  OBVIOUS
<1>1. ASSUME NEW c \in Conns, CloseConn(c) PROVE Inv'
  BY <1>1 DEF CloseConn, Inv, TypeOK, BusyInv, FoundInv, RoutesAreRemembered, ClosedMuxIsEmpty
<1>2. CASE UNCHANGED vars
  BY <1>2 DEF vars, Inv, TypeOK, BusyInv, FoundInv, RoutesAreRemembered, ClosedMuxIsEmpty
<1> QED BY <1>1, <1>2, GetConnInv, RemoveInv, UnmapInv, CloseMuxInv, WriteInv, DispatchInv DEF Next, Watch

-----------------------------------------------------------------------------
\* The mux's maps, its goroutines and its handlers keep their types.
THEOREM MuxTypeCorrect == Spec => []TypeOK
  <1>1. Inv => TypeOK
    BY DEF Inv
  <1> QED BY <1>1, InitInv, NextInv, PTL DEF Spec

\* The index by address names a connection only where the connection remembers the
\* address, so removing it deletes every registration it had.
THEOREM RoutesRemembered == Spec => []RoutesAreRemembered
  <1>1. Inv => RoutesAreRemembered
    BY DEF Inv
  <1> QED BY <1>1, InitInv, NextInv, PTL DEF Spec

\* No GetConn puts a connection into a mux that is closed.
THEOREM NothingAfterClose == Spec => []ClosedMuxIsEmpty
  <1>1. Inv => ClosedMuxIsEmpty
    BY DEF Inv
  <1> QED BY <1>1, InitInv, NextInv, PTL DEF Spec

\* A closed connection that can still be found has a goroutine that will remove it.
THEOREM ClosedConnsLeave == Spec => []ClosedConnIsOnItsWayOut
  <1>1. Inv => ClosedConnIsOnItsWayOut
    BY UDPMuxAssumption DEF Inv, TypeOK, FoundInv, ClosedConnIsOnItsWayOut
  <1> QED BY <1>1, InitInv, NextInv, PTL DEF Spec
=============================================================================
