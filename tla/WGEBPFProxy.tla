---------------------------- MODULE WGEBPFProxy ----------------------------
(***************************************************************************)
(* The WireGuard proxy of client/internal/wgproxy/proxy_ebpf.go: every     *)
(* relayed connection gets a port of 127.0.0.1 that WireGuard uses as the  *)
(* endpoint of its peer.  Goroutines: one proxyToLocal per connection,     *)
(* which gives the port back when it ends, and one proxyToRemote, which    *)
(* finds the connection of a packet by its port.  turnConnMutex makes each *)
(* access of the store one step.                                           *)
(***************************************************************************)
EXTENDS Naturals, FiniteSets, FiniteSetsExt

CONSTANTS
  MaxPort,      \* 65535 in the code: the largest port
  Turns,        \* relayed connections that may be there at once
  None

Ports == 1..MaxPort

ASSUME MaxPortAssumption == MaxPort \in Nat \ {0}
ASSUME NoTurnAssumption == None \notin Turns

VARIABLES
  lastUsedPort,   \* the port given out last, 0 at first
  turnConnStore,  \* the connection of each port
  pc,             \* the proxyToLocal of each connection
  port,           \* its endpointPort, 0 when it does not run
  remote,         \* proxyToRemote: where it is, its packet's port and connection
  busySince       \* history: the ports in use at some time since a port was given out

proxyVars == <<lastUsedPort, turnConnStore, pc, port, remote, busySince>>

Reading == [pc |-> "read", port |-> 0, conn |-> None]

ProxyTypeOK ==
  /\ lastUsedPort \in 0..MaxPort
  /\ turnConnStore \in [Ports -> Turns \cup {None}]
  /\ pc \in [Turns -> {"none", "running", "leaving"}]
  /\ port \in [Turns -> 0..MaxPort]
  /\ remote \in [pc : {"read", "write", "ended"}, port : 0..MaxPort, conn : Turns \cup {None}]
  /\ busySince \in [Ports -> SUBSET Ports]

\* listen has succeeded.
ProxyInit ==
  /\ lastUsedPort = 0
  /\ turnConnStore = [p \in Ports |-> None]
  /\ pc = [t \in Turns |-> "none"]
  /\ port = [t \in Turns |-> 0]
  /\ remote = Reading
  /\ busySince = [p \in Ports |-> Ports]

-----------------------------------------------------------------------------
(* Ports *)

InUse == {p \in Ports : turnConnStore[p] # None}

\* Mutant of Candidate: the counter does not wrap.
CandidateBeyond(i) == lastUsedPort + i

\* The port the loop of nextFreePort is at after i turns.
Candidate(i) == IF lastUsedPort + i > MaxPort THEN lastUsedPort + i - MaxPort ELSE lastUsedPort + i

\* Mutant of NextFreePort: the next port is taken whether or not it is in use.
NextPort == Candidate(1)

\* Mutant of NextFreePort: the lowest free port.
LowestFreePort == Min(Ports \ InUse)

\* nextFreePort: the first candidate that is not in use.
NextFreePort == Candidate(Min({i \in Ports : Candidate(i) \notin InUse}))

\* AddTurnConn: storeTurnConn, and proxyToLocal is started.  (It fails, and changes
\* nothing, when every port is in use.)
AddTurnConn(t) ==
  /\ pc[t] = "none"
  /\ Cardinality(InUse) # MaxPort
  /\ lastUsedPort' = NextFreePort
  /\ turnConnStore' = [turnConnStore EXCEPT ![NextFreePort] = t]
  /\ pc' = [pc EXCEPT ![t] = "running"]
  /\ port' = [port EXCEPT ![t] = NextFreePort]
  /\ busySince' = [p \in Ports |-> IF p = NextFreePort THEN InUse \cup {p}
                                   ELSE busySince[p] \cup {NextFreePort}]
  /\ UNCHANGED remote

\* proxyToLocal: the connection fails or ends.
ReadFails(t) ==
  /\ pc[t] = "running"
  /\ pc' = [pc EXCEPT ![t] = "leaving"]
  /\ UNCHANGED <<lastUsedPort, turnConnStore, port, remote, busySince>>

\* proxyToLocal, deferred: removeTurnConn.
RemoveTurnConn(t) ==
  /\ pc[t] = "leaving"
  /\ turnConnStore' = [turnConnStore EXCEPT ![port[t]] = None]
  /\ pc' = [pc EXCEPT ![t] = "none"]
  /\ port' = [port EXCEPT ![t] = 0]
  /\ UNCHANGED <<lastUsedPort, remote, busySince>>

-----------------------------------------------------------------------------
(* Packets of WireGuard *)

\* proxyToRemote reads a packet for the peer at p and looks its connection up;
\* without one the packet is dropped.
ReadFromUDP(p) ==
  /\ remote.pc = "read"
  /\ turnConnStore[p] # None
  /\ remote' = [pc |-> "write", port |-> p, conn |-> turnConnStore[p]]
  /\ UNCHANGED <<lastUsedPort, turnConnStore, pc, port, busySince>>

\* proxyToRemote writes it, outside the lock; a failure is logged.
WriteRemote ==
  /\ remote.pc = "write"
  /\ remote' = Reading
  /\ UNCHANGED <<lastUsedPort, turnConnStore, pc, port, busySince>>

\* proxyToRemote ends with the first error of the socket, which Free closes.
SocketFails ==
  /\ remote.pc = "read"
  /\ remote' = [Reading EXCEPT !.pc = "ended"]
  /\ UNCHANGED <<lastUsedPort, turnConnStore, pc, port, busySince>>

-----------------------------------------------------------------------------
ProxyNext ==
  \/ \E t \in Turns : AddTurnConn(t) \/ ReadFails(t) \/ RemoveTurnConn(t)
  \/ \E p \in Ports : ReadFromUDP(p)
  \/ WriteRemote
  \/ SocketFails

ProxySpec == ProxyInit /\ [][ProxyNext]_proxyVars

-----------------------------------------------------------------------------
(* Properties *)

\* A port belongs to the connection whose proxyToLocal holds it, and to no other:
\* connections that come and go, and a counter that wraps, never make two share a
\* port, lose one that is in use, or keep one that is not.
PortsAreOwned ==
  /\ \A t \in Turns : pc[t] # "none" => port[t] \in Ports /\ turnConnStore[port[t]] = t
  /\ \A p \in InUse : pc[turnConnStore[p]] # "none" /\ port[turnConnStore[p]] = p

\* A port rests before it is used again, so that late packets for its old
\* connection are not relayed to the new one: each other port has been in use since
\* the port was given out the last time.
PortRests ==
  [][\A t \in Turns : pc[t] = "none" /\ pc'[t] = "running" => busySince[port'[t]] = Ports]_proxyVars
=============================================================================
