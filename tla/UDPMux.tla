------------------------------- MODULE UDPMux -------------------------------
(***************************************************************************)
(* The multiplexer of ICE connections over one UDP socket:                 *)
(* iface/bind/udp_mux.go and udp_muxed_conn.go.  Connections are found by  *)
(* ufrag (connsIPv4, connsIPv6, under mu) and by the remote addresses they *)
(* have written to (addressMap, under addressMapMu).  Every connection has *)
(* a goroutine that removes it once it is closed, and writers register     *)
(* addresses outside mu, so the two indexes are updated in separate steps. *)
(* A critical section is one step; what happens between two of them is not.*)
(***************************************************************************)
EXTENDS Naturals, Sequences, FiniteSets, SequencesExt

CONSTANTS
  Ufrags,       \* keys of connections
  Addrs,        \* remote addresses
  V6Addrs,      \* those that are IPv6
  Families,     \* families of the local addresses connections are made for
  Conns,        \* udpMuxedConn objects (bounds how many are created)
  Writers,      \* goroutines in WriteTo
  Handlers,     \* goroutines in HandleSTUNMessage
  None          \* nil, and a message without a username

ASSUME UDPMuxAssumption == /\ V6Addrs \subseteq Addrs
                           /\ Families \subseteq {"v4", "v6"}
                           /\ None \notin Conns \cup Ufrags \cup Addrs

VARIABLES
  conns,        \* connsIPv4 and connsIPv6
  addressMap,   \* remote address -> the connections registered for it
  muxClosed,    \* closedChan of the mux is closed
  key,          \* params.Key of each connection, None before it is created
  addresses,    \* the remote addresses each connection has sent to
  closed,       \* connections whose closedChan is closed
  watcher,      \* the goroutine GetConn starts per connection
  removed,      \* its removedConns
  writer,       \* each writer: where it is, its connection and its address
  stun          \* each handler: where it is, source, ufrag, destinations

vars == <<conns, addressMap, muxClosed, key, addresses, closed, watcher, removed, writer, stun>>

IdleWriter == [pc |-> "idle", conn |-> None, addr |-> None]
IdleStun   == [pc |-> "idle", addr |-> None, ufrag |-> None, list |-> <<>>]

TypeOK ==
  /\ conns \in [Families -> [Ufrags -> Conns \cup {None}]]
  /\ addressMap \in [Addrs -> Seq(Conns)]
  /\ muxClosed \in BOOLEAN
  /\ key \in [Conns -> Ufrags \cup {None}]
  /\ addresses \in [Conns -> SUBSET Addrs]
  /\ closed \subseteq Conns
  /\ watcher \in [Conns -> {"none", "waiting", "removing", "done"}]
  /\ removed \in [Conns -> SUBSET Conns]
  /\ writer \in [Writers -> [pc : {"idle", "add", "register", "append"},
                             conn : Conns \cup {None}, addr : Addrs \cup {None}]]
  /\ stun \in [Handlers -> [pc : {"idle", "ufrag", "forward"}, addr : Addrs \cup {None},
                            ufrag : Ufrags \cup {None}, list : Seq(Conns)]]

Init ==
  /\ conns = [f \in Families |-> [u \in Ufrags |-> None]]
  /\ addressMap = [a \in Addrs |-> <<>>]
  /\ muxClosed = FALSE
  /\ key = [c \in Conns |-> None]
  /\ addresses = [c \in Conns |-> {}]
  /\ closed = {}
  /\ watcher = [c \in Conns |-> "none"]
  /\ removed = [c \in Conns |-> {}]
  /\ writer = [w \in Writers |-> IdleWriter]
  /\ stun = [h \in Handlers |-> IdleStun]

-----------------------------------------------------------------------------
(* Connections *)

\* Mutant of GetConn: the mux is not asked whether it is closed.
GetConnUnchecked(u, f, c) ==
  /\ conns[f][u] = None
  /\ key[c] = None
  /\ key' = [key EXCEPT ![c] = u]
  /\ conns' = [conns EXCEPT ![f][u] = c]
  /\ watcher' = [watcher EXCEPT ![c] = "waiting"]
  /\ UNCHANGED <<addressMap, muxClosed, addresses, closed, removed, writer, stun>>

\* Mutant of GetConn: no goroutine waits for the connection to close.
GetConnUnwatched(u, f, c) ==
  /\ ~muxClosed
  /\ conns[f][u] = None
  /\ key[c] = None
  /\ key' = [key EXCEPT ![c] = u]
  /\ conns' = [conns EXCEPT ![f][u] = c]
  /\ UNCHANGED <<addressMap, muxClosed, addresses, closed, watcher, removed, writer, stun>>

\* GetConn when there is no connection for the ufrag and family: one is created,
\* with the goroutine that waits for it to close.  (It changes nothing otherwise.)
GetConn(u, f, c) ==
  /\ ~muxClosed
  /\ conns[f][u] = None
  /\ key[c] = None
  /\ key' = [key EXCEPT ![c] = u]
  /\ conns' = [conns EXCEPT ![f][u] = c]
  /\ watcher' = [watcher EXCEPT ![c] = "waiting"]
  /\ UNCHANGED <<addressMap, muxClosed, addresses, closed, removed, writer, stun>>

\* udpMuxedConn.Close.
CloseConn(c) ==
  /\ key[c] # None
  /\ c \notin closed
  /\ closed' = closed \cup {c}
  /\ UNCHANGED <<conns, addressMap, muxClosed, key, addresses, watcher, removed, writer, stun>>

\* Mutant of OfUfrag: families without a connection yield nil.
OfUfragUnchecked(u) == {conns[f][u] : f \in Families}

OfUfrag(u) == {conns[f][u] : f \in Families} \ {None}

\* Mutant of RemoveConnByUfrag: the connections of one family are left where they are.
RemoveConnByUfragV4(c) ==
  LET found == {conns["v4"][key[c]]} \ {None} IN
  /\ watcher[c] = "waiting"
  /\ c \in closed
  /\ conns' = [conns EXCEPT !["v4"][key[c]] = None]
  /\ removed' = [removed EXCEPT ![c] = found]
  /\ watcher' = [watcher EXCEPT ![c] = IF found = {} THEN "done" ELSE "removing"]
  /\ UNCHANGED <<addressMap, muxClosed, key, addresses, closed, writer, stun>>

\* RemoveConnByUfrag, first critical section: whatever connections the ufrag has
\* now, of either family, are taken out of the maps.
RemoveConnByUfrag(c) ==
  LET found == OfUfrag(key[c]) IN
  /\ watcher[c] = "waiting"
  /\ c \in closed
  /\ conns' = [f \in Families |-> [conns[f] EXCEPT ![key[c]] = None]]
  /\ removed' = [removed EXCEPT ![c] = found]
  /\ watcher' = [watcher EXCEPT ![c] = IF found = {} THEN "done" ELSE "removing"]
  /\ UNCHANGED <<addressMap, muxClosed, key, addresses, closed, writer, stun>>

\* RemoveConnByUfrag, second critical section: the whole entry of every address
\* of a removed connection is deleted.
UnmapAddresses(c) ==
  /\ watcher[c] = "removing"
  /\ addressMap' = [a \in Addrs |-> IF \E r \in removed[c] : a \in addresses[r] THEN <<>>
                                    ELSE addressMap[a]]
  /\ removed' = [removed EXCEPT ![c] = {}]
  /\ watcher' = [watcher EXCEPT ![c] = "done"]
  /\ UNCHANGED <<conns, muxClosed, key, addresses, closed, writer, stun>>

\* UDPMuxDefault.Close; the addresses stay mapped.
CloseMux ==
  /\ ~muxClosed
  /\ closed' = closed \cup UNION {OfUfrag(u) : u \in Ufrags}
  /\ conns' = [f \in Families |-> [u \in Ufrags |-> None]]
  /\ muxClosed' = TRUE
  /\ UNCHANGED <<addressMap, key, addresses, watcher, removed, writer, stun>>

-----------------------------------------------------------------------------
(* Writing *)

\* WriteTo on an open connection, to an address it has not written to before.  (To
\* a known one it goes straight to the socket, and a closed connection refuses.)
WriteTo(w, c, a) ==
  /\ writer[w].pc = "idle"
  /\ key[c] # None
  /\ c \notin closed
  /\ a \notin addresses[c]
  /\ writer' = [writer EXCEPT ![w] = [pc |-> "add", conn |-> c, addr |-> a]]
  /\ UNCHANGED <<conns, addressMap, muxClosed, key, addresses, closed, watcher, removed, stun>>

\* Mutant of AddAddress: a connection that was closed meanwhile remembers nothing.
AddAddressIfOpen(w) ==
  /\ writer[w].pc = "add"
  /\ addresses' = IF writer[w].conn \in closed THEN addresses
                  ELSE [addresses EXCEPT ![writer[w].conn] = @ \cup {writer[w].addr}]
  /\ writer' = [writer EXCEPT ![w].pc = "register"]
  /\ UNCHANGED <<conns, addressMap, muxClosed, key, closed, watcher, removed, stun>>

\* addAddress: the connection remembers the address.
AddAddress(w) ==
  /\ writer[w].pc = "add"
  /\ addresses' = [addresses EXCEPT ![writer[w].conn] = @ \cup {writer[w].addr}]
  /\ writer' = [writer EXCEPT ![w].pc = "register"]
  /\ UNCHANGED <<conns, addressMap, muxClosed, key, closed, watcher, removed, stun>>

\* registerConnForAddress: a closed mux registers nothing.
RegisterCheck(w) ==
  /\ writer[w].pc = "register"
  /\ writer' = [writer EXCEPT ![w] = IF muxClosed THEN IdleWriter ELSE [@ EXCEPT !.pc = "append"]]
  /\ UNCHANGED <<conns, addressMap, muxClosed, key, addresses, closed, watcher, removed, stun>>

\* registerConnForAddress: the connection joins those of the address.
RegisterConnForAddress(w) ==
  /\ writer[w].pc = "append"
  /\ addressMap' = [addressMap EXCEPT ![writer[w].addr] = Append(@, writer[w].conn)]
  /\ writer' = [writer EXCEPT ![w] = IdleWriter]
  /\ UNCHANGED <<conns, muxClosed, key, addresses, closed, watcher, removed, stun>>

-----------------------------------------------------------------------------
(* Dispatching *)

\* HandleSTUNMessage: the connections registered for the source are copied.
HandleSTUNMessage(h, a, u) ==
  /\ stun[h].pc = "idle"
  /\ stun' = [stun EXCEPT ![h] = [pc |-> IF u = None THEN "forward" ELSE "ufrag", addr |-> a,
                                  ufrag |-> u, list |-> addressMap[a]]]
  /\ UNCHANGED <<conns, addressMap, muxClosed, key, addresses, closed, watcher, removed, writer>>

FamilyOf(a) == IF a \in V6Addrs THEN "v6" ELSE "v4"

\* HandleSTUNMessage: the connection of the username joins the list unless one
\* with its key is there.
AddByUfrag(h) ==
  LET f == FamilyOf(stun[h].addr)
      d == IF f \in Families THEN conns[f][stun[h].ufrag] ELSE None
      exists == \E i \in DOMAIN stun[h].list : key[stun[h].list[i]] = key[d]
      list == IF d = None \/ exists THEN stun[h].list ELSE Append(stun[h].list, d)
  IN
  /\ stun[h].pc = "ufrag"
  /\ stun' = [stun EXCEPT ![h] = [stun[h] EXCEPT !.pc = "forward", !.list = list]]
  /\ UNCHANGED <<conns, addressMap, muxClosed, key, addresses, closed, watcher, removed, writer>>

\* HandleSTUNMessage: the packet is written to the buffer of every connection of
\* the list; a closed buffer refuses it, which is only logged.
Forward(h) ==
  /\ stun[h].pc = "forward"
  /\ stun' = [stun EXCEPT ![h] = IdleStun]
  /\ UNCHANGED <<conns, addressMap, muxClosed, key, addresses, closed, watcher, removed, writer>>

-----------------------------------------------------------------------------
Watch(c) == RemoveConnByUfrag(c) \/ UnmapAddresses(c)

Write(w) == AddAddress(w) \/ RegisterCheck(w) \/ RegisterConnForAddress(w)

Next ==
  \/ \E u \in Ufrags, f \in Families, c \in Conns : GetConn(u, f, c)
  \/ \E c \in Conns : CloseConn(c) \/ Watch(c)
  \/ CloseMux
  \/ \E w \in Writers : Write(w) \/ \E c \in Conns, a \in Addrs : WriteTo(w, c, a)
  \/ \E h \in Handlers : \/ \E a \in Addrs, u \in Ufrags \cup {None} : HandleSTUNMessage(h, a, u)
                         \/ AddByUfrag(h) \/ Forward(h)

Spec == Init /\ [][Next]_vars

\* A goroutine that can run is scheduled.
Fairness == \A c \in Conns : WF_vars(Watch(c))

FairSpec == Spec /\ Fairness

-----------------------------------------------------------------------------
(* Properties *)

\* A connection is registered only for addresses it remembers, so removing it
\* deletes every registration that was there: the two indexes agree although they
\* are updated in separate critical sections.
RoutesAreRemembered ==
  \A a \in Addrs : \A i \in DOMAIN addressMap[a] : a \in addresses[addressMap[a][i]]

\* "Close the mux, no further connections could be created": whatever GetConn runs
\* concurrently, a closed mux has no connection.
ClosedMuxIsEmpty == muxClosed => \A f \in Families, u \in Ufrags : conns[f][u] = None

\* A closed connection can be found by its ufrag only while the goroutine that
\* removes it has yet to run: GetConn does not hand it out for good.
ClosedConnIsOnItsWayOut ==
  \A f \in Families, u \in Ufrags : LET c == conns[f][u] IN
    c \in closed => key[c] = u /\ watcher[c] = "waiting"

\* A connection that is closed leaves the maps.
ClosedConnLeaves ==
  \A c \in Conns : c \in closed ~> \A f \in Families, u \in Ufrags : conns[f][u] # c

\* STUN packets from an address are forwarded to each connection that has written
\* to it: an open connection stays registered for the addresses it has sent to.
SharedAddressKept ==
  \A c \in Conns, a \in Addrs :
    /\ c \notin closed /\ ~muxClosed /\ a \in addresses[c]
    /\ \A w \in Writers : writer[w].conn # c
    => Contains(addressMap[a], c)
=============================================================================
