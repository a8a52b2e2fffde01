------------------------------- MODULE Engine -------------------------------
(***************************************************************************)
(* The client engine of client/internal/engine.go: the polling goroutine   *)
(* (receiveManagementEvents, GetRemotePeers, addNewPeers), one connWorker  *)
(* goroutine per Conn it creates (peer/conn.go: Open), and what they leave *)
(* in the WireGuard interface (iface: UpdatePeer).                         *)
(*                                                                         *)
(* The signal server is the directory the poller reads: clients register,  *)
(* a restart empties it, and a query or its answer may be lost.            *)
(*                                                                         *)
(* No code of the client cancels the engine's context or calls Conn.Close, *)
(* so a Conn whose Open has configured its peer waits forever, and a Conn  *)
(* that also left peerConns can have no further effect.                    *)
(***************************************************************************)
EXTENDS Naturals

CONSTANTS
  Clients,      \* the other clients, each with its allowed IP
  Keys,         \* WireGuard public keys
  Endpoints,    \* public endpoints
  Listings,     \* what may be registered: client, key, endpoint
  Conns,        \* Conn objects (bounds how many have an effect at once)
  Short,        \* the answers, as sets of rows, that are shorter than the read buffer
  MaxMoves,     \* bound on the changes of the directory
  None

Entry == [client : Clients, key : Keys, ep : Endpoints]

ASSUME ListingsAssumption == Listings \subseteq Entry
ASSUME MovesAssumption == MaxMoves \in Nat
ASSUME NothingAssumption == None \notin Keys \cup Endpoints \cup Conns \cup Entry

VARIABLES
  dir,          \* the rows the server lists
  moves,        \* how often the directory has changed
  listed,       \* history: every row ever listed
  alive,        \* the client process runs
  poll,         \* where the polling goroutine is
  rows,         \* the rows of the answer under way, then those not yet added
  adding,       \* the row addNewPeers is at
  peerConns,    \* Engine.peerConns
  pc,           \* where the worker of each Conn is
  conn,         \* the row a Conn was made from
  wg,           \* the interface: the endpoint of each peer
  owner         \* the interface: the peer each client's allowed IP routes to

server == <<dir, moves, listed>>
device == <<wg, owner>>
vars == <<dir, moves, listed, alive, poll, rows, adding, peerConns, pc, conn, wg, owner>>

TypeOK ==
  /\ dir \subseteq Entry
  /\ moves \in 0..MaxMoves
  /\ listed \subseteq Entry
  /\ alive \in BOOLEAN
  /\ poll \in {"sleep", "asked", "answered", "adding", "writing"}
  /\ rows \subseteq Entry
  /\ adding \in Entry \cup {None}
  /\ peerConns \in [Keys -> Conns \cup {None}]
  /\ pc \in [Conns -> {"free", "delay", "open", "connected"}]
  /\ conn \in [Conns -> Entry \cup {None}]
  /\ wg \in [Keys -> Endpoints \cup {None}]
  /\ owner \in [Clients -> Keys \cup {None}]

\* Engine.Start has brought the interface up, without peers; other clients may have
\* registered before.
Init ==
  /\ dir \in {d \in SUBSET Listings : \A e, f \in d : e.client = f.client => e = f}
  /\ moves = 0
  /\ listed = dir
  /\ alive = TRUE
  /\ poll = "sleep"
  /\ rows = {}
  /\ adding = None
  /\ peerConns = [k \in Keys |-> None]
  /\ pc = [i \in Conns |-> "free"]
  /\ conn = [i \in Conns |-> None]
  /\ wg = [k \in Keys |-> None]
  /\ owner = [c \in Clients |-> None]

-----------------------------------------------------------------------------
(* The signal server, as the engine sees it *)

\* A client registers, or registers again with another key or endpoint.
Register(e) ==
  /\ moves < MaxMoves
  /\ e \notin dir
  /\ dir' = {r \in dir : r.client # e.client} \cup {e}
  /\ listed' = listed \cup {e}
  /\ moves' = moves + 1
  /\ UNCHANGED <<alive, poll, rows, adding, peerConns, pc, conn, device>>

\* The server restarts, with an empty table.
Forget ==
  /\ moves < MaxMoves
  /\ dir # {}
  /\ dir' = {}
  /\ moves' = moves + 1
  /\ UNCHANGED <<listed, alive, poll, rows, adding, peerConns, pc, conn, device>>

\* The server answers the query with what it lists at that moment.
Answer ==
  /\ alive
  /\ poll = "asked"
  /\ poll' = "answered"
  /\ rows' = dir
  /\ UNCHANGED <<server, alive, adding, peerConns, pc, conn, device>>

-----------------------------------------------------------------------------
(* The polling goroutine *)

\* receiveManagementEvents: after its pause, GetRemotePeers sends a query.
Ask ==
  /\ alive
  /\ poll = "sleep"
  /\ poll' = "asked"
  /\ UNCHANGED <<server, alive, rows, adding, peerConns, pc, conn, device>>

\* GetRemotePeers reads an answer that does not fill its buffer.  One that does
\* is cut off, and the loop reads on until the deadline passes.
Deliver ==
  /\ alive
  /\ poll = "answered"
  /\ rows \in Short
  /\ poll' = "adding"
  /\ UNCHANGED <<server, alive, rows, adding, peerConns, pc, conn, device>>

\* GetRemotePeers: the read deadline passes; addNewPeers has nothing to add.
Timeout ==
  /\ alive
  /\ poll \in {"asked", "answered"}
  /\ poll' = "sleep"
  /\ rows' = {}
  /\ UNCHANGED <<server, alive, adding, peerConns, pc, conn, device>>

\* addNewPeers: createPeerConn and OnRemoteAnswer for the next row, and the
\* write to peerConns begins.
BeginWrite ==
  /\ alive
  /\ poll = "adding"
  /\ \E e \in rows :
       /\ adding' = e
       /\ rows' = rows \ {e}
  /\ poll' = "writing"
  /\ UNCHANGED <<server, alive, peerConns, pc, conn, device>>

\* A Conn that was never made, or one that can have no further effect.
Spare(i) ==
  \/ pc[i] = "free"
  \/ pc[i] = "connected" /\ \A k \in Keys : peerConns[k] # i

\* Mutant of EndWrite: a peer that has a Conn gets no new one.
EndWriteOnlyNew ==
  /\ alive
  /\ poll = "writing"
  /\ IF peerConns[adding.key] # None
     THEN UNCHANGED <<peerConns, pc, conn>>
     ELSE \E i \in Conns :
            /\ Spare(i)
            /\ peerConns' = [peerConns EXCEPT ![adding.key] = i]
            /\ pc' = [pc EXCEPT ![i] = "delay"]
            /\ conn' = [conn EXCEPT ![i] = adding]
  /\ adding' = None
  /\ poll' = "adding"
  /\ UNCHANGED <<server, alive, rows, device>>

\* Mutant of EndWrite: a Conn that is used again keeps the row it was made from.
EndWriteOldRow ==
  /\ alive
  /\ poll = "writing"
  /\ \E i \in Conns : Spare(i)
  /\ LET i == CHOOSE j \in Conns : Spare(j) IN
       /\ peerConns' = [peerConns EXCEPT ![adding.key] = i]
       /\ pc' = [pc EXCEPT ![i] = "delay"]
       /\ conn' = [conn EXCEPT ![i] = IF @ = None THEN adding ELSE @]
  /\ adding' = None
  /\ poll' = "adding"
  /\ UNCHANGED <<server, alive, rows, device>>

\* addNewPeers: the Conn is in peerConns and its worker started.
EndWrite ==
  /\ alive
  /\ poll = "writing"
  /\ \E i \in Conns : Spare(i)
  /\ LET i == CHOOSE j \in Conns : Spare(j) IN
       /\ peerConns' = [peerConns EXCEPT ![adding.key] = i]
       /\ pc' = [pc EXCEPT ![i] = "delay"]
       /\ conn' = [conn EXCEPT ![i] = adding]
  /\ adding' = None
  /\ poll' = "adding"
  /\ UNCHANGED <<server, alive, rows, device>>

\* addNewPeers returns and the poller sleeps.
Added ==
  /\ alive
  /\ poll = "adding"
  /\ rows = {}
  /\ poll' = "sleep"
  /\ UNCHANGED <<server, alive, rows, adding, peerConns, pc, conn, device>>

-----------------------------------------------------------------------------
(* The workers *)

\* connWorker: after its random delay the worker goes on if peerExists.
PeerExists(i) ==
  /\ alive
  /\ pc[i] = "delay"
  /\ pc' = [pc EXCEPT ![i] = IF peerConns[conn[i].key] # None THEN "open" ELSE "free"]
  /\ UNCHANGED <<server, alive, poll, rows, adding, peerConns, conn, device>>

\* addNewPeers writes the map without the lock peerExists takes: the Go runtime
\* ends a process it catches reading a map that is being written.
ConcurrentMapAccess(i) ==
  /\ alive
  /\ pc[i] = "delay"
  /\ poll = "writing"
  /\ alive' = FALSE
  /\ UNCHANGED <<server, poll, rows, adding, peerConns, pc, conn, device>>

\* Mutant of UpdatePeer: the allowed IP is added to those the peer has.
UpdatePeerAddsIP(e) ==
  /\ wg' = [wg EXCEPT ![e.key] = e.ep]
  /\ owner' = [owner EXCEPT ![e.client] = e.key]

\* The configurers' updatePeer: the peer is created or updated, with this one
\* allowed IP, which WireGuard takes from any other peer that had it.
UpdatePeer(e) ==
  /\ wg' = [wg EXCEPT ![e.key] = e.ep]
  /\ owner' = [c \in Clients |-> IF c = e.client THEN e.key
                                 ELSE IF owner[c] = e.key THEN None ELSE owner[c]]

\* Conn.Open: configureConnection succeeds, and Open waits for closeCh or ctx.
Configured(i) ==
  /\ alive
  /\ pc[i] = "open"
  /\ UpdatePeer(conn[i])
  /\ pc' = [pc EXCEPT ![i] = "connected"]
  /\ UNCHANGED <<server, alive, poll, rows, adding, peerConns, conn>>

\* Conn.Open: UpdatePeer fails, Open returns its error and connWorker tries again.
ConfigureFails(i) ==
  /\ alive
  /\ pc[i] = "open"
  /\ pc' = [pc EXCEPT ![i] = "delay"]
  /\ UNCHANGED <<server, alive, poll, rows, adding, peerConns, conn, device>>

-----------------------------------------------------------------------------
Poll == Ask \/ Timeout \/ BeginWrite \/ EndWrite \/ Added

Next ==
  \/ \E e \in Listings : Register(e)
  \/ Forget
  \/ Answer
  \/ Deliver
  \/ Poll
  \/ \E i \in Conns : PeerExists(i) \/ ConcurrentMapAccess(i) \/ Configured(i) \/ ConfigureFails(i)

Spec == Init /\ [][Next]_vars

\* Goroutines run and timers fire.  Of the network and of WireGuard it is assumed
\* only that what is tried again and again succeeds again and again.
Fairness ==
  /\ WF_vars(Poll)
  /\ SF_vars(Answer)
  /\ SF_vars(Deliver)
  /\ \A i \in Conns : WF_vars(PeerExists(i)) /\ SF_vars(Configured(i))

FairSpec == Spec /\ Fairness

-----------------------------------------------------------------------------
(* Properties *)

\* Where traffic for a client's allowed IP goes, a key at an endpoint, is one
\* registration of that client: the Conns that race on the interface with old and
\* new keys and endpoints never combine the parts of two.
RouteIsARegistration ==
  \A c \in Clients : owner[c] # None =>
    [client |-> c, key |-> owner[c], ep |-> wg[owner[c]]] \in listed

\* The key and the endpoint of every listed client whose key is its own are those the
\* interface uses for it.
UpToDate ==
  \A e \in dir : (\A d \in dir : d.key = e.key => d = e)
                => wg[e.key] = e.ep /\ owner[e.client] = e.key

\* The rows of an answer, of addNewPeers and of workers that have not configured them.
UnderWay ==
  rows \cup {e \in {adding} : poll = "writing"} \cup {conn[i] : i \in {j \in Conns : pc[j] \in {"delay", "open"}}}

Settled == UpToDate /\ UnderWay \subseteq dir

\* An interface that is up to date, when no older row is under way, stays so until
\* the directory changes: every poll makes new Conns for all peers, whose workers
\* update the interface again and in any order, fail, retry and take IPs from peers.
SettledStays == [][Settled /\ UNCHANGED dir => Settled']_vars

\* Workers that failed keep retrying with the endpoint they were made for, and may
\* overwrite a newer one, but the interface ends up with what the directory lists,
\* and stays so, once the directory changes no more (it changes at most MaxMoves
\* times) and fits into one answer, also when earlier answers did not.
Converges == <>[](dir \in Short) => <>[](alive => UpToDate)
=============================================================================
