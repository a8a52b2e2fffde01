---------------------------- MODULE ClientStart ----------------------------
(***************************************************************************)
(* The start of the client on Linux with the WireGuard kernel module:      *)
(* client/internal/connect.go (run and its retried operation), exchange.go *)
(* (ClientRegister), engine.go (Start and close), and below them the proxy *)
(* factory and listen (wgproxy), WGIface with tunKernelDevice and wgLink   *)
(* (iface).  Every attempt picks a port, registers it with the server and  *)
(* builds proxy and interface; any step may fail, and then the next        *)
(* attempt starts over, perhaps with another port.                         *)
(*                                                                         *)
(* What outlives an attempt, and a crash, is in the kernel: the interface  *)
(* and the ports.  The eBPF manager, a singleton, outlives an attempt: it  *)
(* is the component EbpfManager, whose steps this module takes, with the   *)
(* proxy's feature alone.                                                  *)
(***************************************************************************)
EXTENDS Naturals, FiniteSets

CONSTANTS
  StartPort, LastPort,   \* config.WgPort, and 65535
  ProxyPorts,            \* portRangeStart to portRangeEnd
  MaxTroubles            \* bound on crashes of the client and ports taken by others

Ports == StartPort..LastPort

ASSUME PortsAssumption == /\ StartPort \in Nat \ {0} /\ LastPort \in Nat /\ StartPort <= LastPort
                          /\ ProxyPorts \subseteq Nat \ {0} /\ ProxyPorts # {}
                          /\ MaxTroubles \in Nat

VARIABLES
  pc,           \* where the operation is
  port,         \* engineConfig.WgPort of this attempt
  ebpfProxy,    \* the factory of this attempt has an eBPF proxy
  tunLink,      \* tunKernelDevice.link is set
  wgLink,       \* kernel: the interface: absent, there without a port of Ports, or its port
  taken,        \* ports other processes have bound
  logins,       \* source ports of the logins under way
  replies,      \* ports to which answers are under way
  answered,     \* history: ports the server has answered a login from
  troubles,     \* how many of these there were
  link, featureFlags, op, held, nbFeatures, settings, cache, refused   \* EbpfManager

M == INSTANCE EbpfManager WITH Features <- {"wg"}, Values <- Ports \cup ProxyPorts

manager == <<link, featureFlags, op, held, nbFeatures, settings, cache, refused>>
network == <<logins, replies, answered>>
vars == <<pc, port, ebpfProxy, tunLink, wgLink, taken, network, troubles, manager>>

Absent == LastPort + 1
Silent == 0

PCs == {"attempt", "dial", "wait", "engine", "load", "listen", "create", "configure", "up",
        "close", "delete", "backoff", "running", "exited"}

TypeOK ==
  /\ pc \in PCs
  /\ port \in Ports
  /\ ebpfProxy \in BOOLEAN
  /\ tunLink \in BOOLEAN
  /\ wgLink \in Ports \cup {Absent, Silent}
  /\ taken \subseteq Ports
  /\ logins \subseteq Ports
  /\ replies \subseteq Ports
  /\ answered \subseteq Ports
  /\ troubles \in 0..MaxTroubles
  /\ M!TypeOK

Init ==
  /\ pc = "attempt"
  /\ port = StartPort
  /\ ebpfProxy = FALSE
  /\ tunLink = FALSE
  /\ wgLink = Absent
  /\ taken = {}
  /\ logins = {}
  /\ replies = {}
  /\ answered = {}
  /\ troubles = 0
  /\ M!Init

Goto(l) == pc' = l

-----------------------------------------------------------------------------
(* run: a port, and the registration from it *)

\* Ports that cannot be bound now: of other processes, of the interface, and of
\* ClientRegister's socket.
InUse == taken \cup ({wgLink} \cap Ports) \cup (IF pc = "wait" THEN {port} ELSE {})

\* freePort: the first port from the configured one that can be bound.  It is not
\* kept: any process may take it before it is used.
FreePort ==
  /\ pc = "attempt"
  /\ \E p \in Ports \ InUse :
       /\ \A q \in Ports \ InUse : p <= q
       /\ port' = p
  /\ Goto("dial")
  /\ UNCHANGED <<ebpfProxy, tunLink, wgLink, taken, network, troubles, manager>>

\* Mutant of NoFreePort: the search ends one port too late.
NoFreePortBeyond ==
  /\ pc = "attempt"
  /\ Ports \subseteq InUse
  /\ port' = LastPort + 1
  /\ Goto("dial")
  /\ UNCHANGED <<ebpfProxy, tunLink, wgLink, taken, network, troubles, manager>>

\* freePort: "no free ports".
NoFreePort ==
  /\ pc = "attempt"
  /\ Ports \subseteq InUse
  /\ Goto("backoff")
  /\ UNCHANGED <<port, ebpfProxy, tunLink, wgLink, taken, network, troubles, manager>>

\* ClientRegister sends the login from the port WireGuard will listen on.
Dial ==
  /\ pc = "dial"
  /\ port \notin InUse
  /\ logins' = logins \cup {port}
  /\ Goto("wait")
  /\ UNCHANGED <<port, ebpfProxy, tunLink, wgLink, taken, replies, answered, troubles, manager>>

\* An answer that comes from the server to the port is taken for this attempt's,
\* also when an earlier attempt had asked for it.
ReadReply ==
  /\ pc = "wait"
  /\ port \in replies
  /\ replies' = replies \ {port}
  /\ Goto("engine")
  /\ UNCHANGED <<port, ebpfProxy, tunLink, wgLink, taken, logins, answered, troubles, manager>>

\* The port cannot be bound, the login not be sent, no answer comes in time, or
\* newWgIface fails: the operation returns, and nothing has to be closed.
AttemptFails ==
  /\ pc \in {"dial", "wait", "engine"}
  /\ Goto("backoff")
  /\ UNCHANGED <<port, ebpfProxy, tunLink, wgLink, taken, network, troubles, manager>>

-----------------------------------------------------------------------------
(* Engine.Start: NewFactory and WGEBPFProxy.listen *)

\* The new factory's proxy finds a port to listen on and calls LoadWgProxy.
LoadWgProxy(p) ==
  /\ pc = "engine"
  /\ M!LoadXdp("wg", <<p, port>>)
  /\ Goto("load")
  /\ UNCHANGED <<port, ebpfProxy, tunLink, wgLink, taken, network, troubles>>

LoadGoesOn ==
  /\ pc = "load"
  /\ M!PutFirst \/ M!PutSecond
  /\ UNCHANGED <<pc, port, ebpfProxy, tunLink, wgLink, taken, network, troubles>>

Loaded ==
  /\ pc = "load"
  /\ M!PutFeatures
  /\ Goto("listen")
  /\ UNCHANGED <<port, ebpfProxy, tunLink, wgLink, taken, network, troubles>>

\* listen fails before LoadWgProxy: the factory falls back to the user-space proxy.
NoProxy ==
  /\ pc = "engine"
  /\ Goto("create")
  /\ UNCHANGED <<port, ebpfProxy, tunLink, wgLink, taken, network, troubles, manager>>

\* LoadWgProxy fails: the factory falls back, and nothing is freed.
LoadFails ==
  /\ pc = "load"
  /\ M!PutFails \/ M!PutFeaturesFails
  /\ Goto("create")
  /\ UNCHANGED <<port, ebpfProxy, tunLink, wgLink, taken, network, troubles>>

Listen ==
  /\ pc = "listen"
  /\ ebpfProxy' = TRUE
  /\ Goto("create")
  /\ UNCHANGED <<port, tunLink, wgLink, taken, network, troubles, manager>>

\* Mutant of ListenFails: listen returns the error of ListenUDP without Free.
ListenFailsLoaded ==
  /\ pc = "listen"
  /\ Goto("create")
  /\ UNCHANGED <<port, ebpfProxy, tunLink, wgLink, taken, network, troubles, manager>>

\* The proxy's port is taken meanwhile: listen calls Free, the factory falls back.
ListenFails ==
  /\ pc = "listen"
  /\ M!UnsetFeatureFlag("wg")
  /\ Goto("create")
  /\ UNCHANGED <<port, ebpfProxy, tunLink, wgLink, taken, network, troubles>>

-----------------------------------------------------------------------------
(* Engine.Start: the interface *)

\* Mutant of Recreate: an interface that exists is an error.
RecreateOnce ==
  /\ pc = "create"
  /\ wgLink = Absent
  /\ wgLink' = Silent
  /\ tunLink' = TRUE
  /\ Goto("configure")
  /\ UNCHANGED <<port, ebpfProxy, taken, network, troubles, manager>>

\* tunKernelDevice.Create, recreate: an interface left over is deleted and a new one
\* added.
Recreate ==
  /\ pc = "create"
  /\ wgLink' = Silent
  /\ tunLink' = TRUE
  /\ Goto("configure")
  /\ UNCHANGED <<port, ebpfProxy, taken, network, troubles, manager>>

\* recreate fails, before or after the deletion; the device has no link then.
RecreateFails ==
  /\ pc = "create"
  /\ wgLink' \in {wgLink, Absent}
  /\ Goto("close")
  /\ UNCHANGED <<port, ebpfProxy, tunLink, taken, network, troubles, manager>>

\* Mutant of Configure: the port of the configuration, not of the attempt.
ConfigureDefaultPort ==
  /\ pc = "configure"
  /\ StartPort \notin InUse
  /\ wgLink' = StartPort
  /\ Goto("up")
  /\ UNCHANGED <<port, ebpfProxy, tunLink, taken, network, troubles, manager>>

\* Create, continued: address, MTU, and configureInterface with key and port.
Configure ==
  /\ pc = "configure"
  /\ port \notin InUse
  /\ wgLink' = port
  /\ Goto("up")
  /\ UNCHANGED <<port, ebpfProxy, tunLink, taken, network, troubles, manager>>

\* tunKernelDevice.Up and the shared socket; then the poller starts.
Up ==
  /\ pc = "up"
  /\ Goto("running")
  /\ UNCHANGED <<port, ebpfProxy, tunLink, wgLink, taken, network, troubles, manager>>

\* One of the two fails, for instance because the port was taken meanwhile.
StartFails ==
  /\ pc \in {"configure", "up"}
  /\ Goto("close")
  /\ UNCHANGED <<port, ebpfProxy, tunLink, wgLink, taken, network, troubles, manager>>

\* Engine.close: Factory.Free.
FreeFactory ==
  /\ pc = "close"
  /\ IF ebpfProxy THEN M!UnsetFeatureFlag("wg") ELSE UNCHANGED manager
  /\ ebpfProxy' = FALSE
  /\ Goto("delete")
  /\ UNCHANGED <<port, tunLink, wgLink, taken, network, troubles>>

\* Engine.close: WGIface.Close deletes the interface if the device has its link; an
\* error is only logged.
CloseIface ==
  /\ pc = "delete"
  /\ wgLink' \in (IF tunLink THEN {wgLink, Absent} ELSE {wgLink})
  /\ tunLink' = FALSE
  /\ Goto("backoff")
  /\ UNCHANGED <<port, ebpfProxy, taken, network, troubles, manager>>

\* backoff.Retry calls the operation again, or has done so for three months.
Retry == /\ pc = "backoff"
         /\ Goto("attempt")
         /\ UNCHANGED <<port, ebpfProxy, tunLink, wgLink, taken, network, troubles, manager>>
GiveUp == /\ pc = "backoff"
          /\ Goto("exited")
          /\ UNCHANGED <<port, ebpfProxy, tunLink, wgLink, taken, network, troubles, manager>>

-----------------------------------------------------------------------------
(* The environment *)

\* The process ends and is started again: the interface stays, the program's link
\* and maps go with their file descriptors.
Crash ==
  /\ troubles < MaxTroubles
  /\ pc # "exited"
  /\ troubles' = troubles + 1
  /\ Goto("attempt")
  /\ port' = StartPort
  /\ ebpfProxy' = FALSE
  /\ tunLink' = FALSE
  /\ link' = FALSE /\ featureFlags' = {} /\ op' = M!NoOp /\ held' = {}
  /\ nbFeatures' = {} /\ settings' = M!Unset /\ cache' = M!Unset /\ refused' = FALSE
  /\ UNCHANGED <<wgLink, taken, network>>

\* The server registers the client at the port and answers there.
Answer(p) ==
  /\ p \in logins
  /\ logins' = logins \ {p}
  /\ replies' = replies \cup {p}
  /\ answered' = answered \cup {p}
  /\ UNCHANGED <<pc, port, ebpfProxy, tunLink, wgLink, taken, troubles, manager>>

\* Another process binds a port, or gives it back.
Take(p) ==
  /\ troubles < MaxTroubles
  /\ p \notin InUse
  /\ troubles' = troubles + 1
  /\ taken' = taken \cup {p}
  /\ UNCHANGED <<pc, port, ebpfProxy, tunLink, wgLink, network, manager>>
Release(p) ==
  /\ p \in taken
  /\ taken' = taken \ {p}
  /\ UNCHANGED <<pc, port, ebpfProxy, tunLink, wgLink, network, troubles, manager>>

\* The program handles a packet.
Packet == M!Packet("wg") /\ UNCHANGED <<pc, port, ebpfProxy, tunLink, wgLink, taken, network, troubles>>

-----------------------------------------------------------------------------
StartProxy == NoProxy \/ \E p \in ProxyPorts : LoadWgProxy(p)

Client == \/ FreePort \/ NoFreePort \/ Dial \/ ReadReply \/ AttemptFails
          \/ StartProxy \/ LoadGoesOn \/ Loaded \/ LoadFails \/ Listen \/ ListenFails
          \/ Recreate \/ RecreateFails \/ Configure \/ Up \/ StartFails
          \/ FreeFactory \/ CloseIface \/ Retry

Next == \/ Client
        \/ GiveUp
        \/ Crash
        \/ \E p \in Ports : Answer(p) \/ Take(p) \/ Release(p)
        \/ Packet

Spec == Init /\ [][Next]_vars

\* The operation goes on.  Of the network and the kernel it is assumed only that what
\* is tried again and again succeeds again and again; other processes give ports back.
Fairness ==
  /\ WF_vars(Client)
  /\ SF_vars(Dial) /\ SF_vars(ReadReply) /\ SF_vars(StartProxy)
  /\ SF_vars(Recreate) /\ SF_vars(Configure) /\ SF_vars(Up)
  /\ \A p \in Ports : WF_vars(Release(p)) /\ SF_vars(Answer(p))

FairSpec == Spec /\ Fairness

-----------------------------------------------------------------------------
(* Properties *)

\* Peers reach the client where it told the server: WireGuard listens, and nobody
\* else, on the port the answered login came from, although freePort keeps nothing
\* and an attempt may take another port than the one before.
ListensWhereRegistered ==
  pc = "running" => wgLink = port /\ port \notin taken /\ port \in answered

\* The program redirects packets only for a proxy that is there, since no failure in
\* Start leaves the feature enabled for a later attempt; and while the proxy is in use
\* it works with the ports of this attempt, not with what it copied in an earlier one.
ProgramIsCurrent ==
  /\ "wg" \in nbFeatures => ebpfProxy \/ pc = "listen"
  /\ ebpfProxy => /\ link /\ nbFeatures = {"wg"}
                  /\ settings["wg"][2] = port
                  /\ cache["wg"] \in {<<0, 0>>, settings["wg"]}

\* Whatever fails, and whatever a crash leaves behind, no attempt spoils the later
\* ones: the client runs in the end, unless it has tried for three months.
Connects == <>[](pc \in {"running", "exited"})
=============================================================================
