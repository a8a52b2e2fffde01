------------------------- MODULE ClientStartProofs -------------------------
(***************************************************************************)
(* Theorems about the start of the client, for every range of ports.  The  *)
(* manager is seen through its one feature, the WireGuard proxy.           *)
(***************************************************************************)
EXTENDS ClientStart, TLAPS

\* The feature is loaded for this attempt's proxy.
Enabled == pc = "listen" \/ ebpfProxy

\* The kernel keeps a port apart from the others, and the server has answered what
\* it sent answers to.
PortInv ==
  /\ wgLink \notin taken
  /\ replies \subseteq answered
  /\ pc \in {"engine", "load", "listen", "create", "configure", "up", "running"} => port \in answered
  /\ pc \in {"up", "running"} => wgLink = port

\* Where the attempt is decides what the manager and the program are doing.
ProxyInv ==
  /\ ebpfProxy => pc \in {"create", "configure", "up", "close", "running"}
  /\ pc = "load" => /\ op # M!NoOp
                    /\ op.values[2] = port
                    /\ link
                    /\ op.pc = "second" => settings["wg"][2] = port
  /\ pc # "load" => op = M!NoOp

ProgramInv ==
  /\ Enabled => /\ link /\ nbFeatures = {"wg"} /\ featureFlags = {"wg"}
                /\ settings["wg"][2] = port
                /\ cache["wg"] \in {<<0, 0>>, settings["wg"]}
  /\ ~Enabled => nbFeatures = {} /\ cache["wg"] = <<0, 0>>

Inv == TypeOK /\ PortInv /\ ProxyInv /\ ProgramInv

-----------------------------------------------------------------------------
\* The values a Load may write are ports, and the interface's other states are not.
LEMMA ConstantsTyped == /\ Ports \subseteq Nat \ {0}
                        /\ StartPort \in Ports
                        /\ Ports \cup ProxyPorts \subseteq Nat \ {0}
                        /\ Absent \notin Ports /\ Silent \notin Ports
  BY PortsAssumption DEF Ports, Absent, Silent

\* A Load under way is told from none by its fields.
LEMMA OpTyped == /\ M!NoOp.pc = "none"
                 /\ \A o \in M!Op : /\ o # M!NoOp
                                    /\ o.pc \in {"attached", "first", "second"}
                                    /\ o.feature = "wg"
                                    /\ o.values \in (Ports \cup ProxyPorts) \X (Ports \cup ProxyPorts)
  BY DEF M!NoOp, M!Op

\* The settings of a new program are typed, and unset.
LEMMA UnsetTyped == M!Unset \in [{"wg"} -> M!Pair] /\ M!Unset["wg"] = <<0, 0>>
  BY DEF M!Unset, M!Pair

\* The client starts with nothing.
LEMMA InitInv == Init => Inv
<1> USE ConstantsTyped, UnsetTyped, PortsAssumption
<1> SUFFICES ASSUME Init PROVE Inv
  OBVIOUS
<1>1. TypeOK
  <2>1. M!TypeOK
    BY DEF Init, M!Init, M!TypeOK
  <2>2. troubles \in 0..MaxTroubles
    BY DEF Init
  <2> QED BY <2>1, <2>2 DEF Init, TypeOK, PCs
<1>2. PortInv /\ ProxyInv /\ ProgramInv
  BY DEF Init, PortInv, ProxyInv, ProgramInv, Enabled, M!Init
<1> QED BY <1>1, <1>2 DEF Inv

\* Freeing the feature, the only one, detaches the program.
LEMMA Freed ==
  ASSUME M!TypeOK, link, M!UnsetFeatureFlag("wg")
  PROVE  M!TypeOK' /\ op' = op /\ nbFeatures' = {} /\ cache'["wg"] = <<0, 0>>
  BY UnsetTyped DEF M!UnsetFeatureFlag, M!TypeOK

\* A step that leaves the manager alone leaves its types alone.
LEMMA ManagerKept == M!TypeOK /\ UNCHANGED manager => M!TypeOK'
  BY DEF M!TypeOK, manager

\* The steps from one attempt to the next, which leave manager and interface alone.
LEMMA AttemptInv ==
  Inv /\ (FreePort \/ NoFreePort \/ Dial \/ ReadReply \/ AttemptFails \/ Retry \/ GiveUp) => Inv'
<1> SUFFICES ASSUME Inv, FreePort \/ NoFreePort \/ Dial \/ ReadReply \/ AttemptFails \/ Retry \/ GiveUp
             PROVE  Inv'
  OBVIOUS
<1> USE DEF Inv
<1>1. /\ UNCHANGED <<ebpfProxy, tunLink, wgLink, taken, answered, troubles, manager>>
      /\ replies' \subseteq replies /\ logins' \subseteq Ports /\ port' \in Ports
  BY DEF FreePort, NoFreePort, Dial, ReadReply, AttemptFails, Retry, GiveUp, network, TypeOK
<1>2. /\ pc \in {"attempt", "dial", "wait", "engine", "backoff"}
      /\ pc' \in {"attempt", "dial", "wait", "engine", "backoff", "exited"}
      /\ pc' = "engine" => port' \in replies
  BY DEF FreePort, NoFreePort, Dial, ReadReply, AttemptFails, Retry, GiveUp, Goto
<1>3. TypeOK'
  BY <1>1, <1>2, ManagerKept DEF TypeOK, PCs
<1>4. PortInv'
  BY <1>1, <1>2 DEF PortInv
<1>5. ProxyInv' /\ ProgramInv'
  BY <1>1, <1>2 DEF ProxyInv, ProgramInv, Enabled, manager
<1> QED BY <1>3, <1>4, <1>5

\* The steps of the proxy.
LEMMA ListenInv ==
  Inv /\ (StartProxy \/ LoadGoesOn \/ Loaded \/ LoadFails \/ Listen \/ ListenFails) => Inv'
<1> SUFFICES ASSUME Inv, StartProxy \/ LoadGoesOn \/ Loaded \/ LoadFails \/ Listen \/ ListenFails
             PROVE  Inv'
  OBVIOUS
<1> USE DEF Inv
<1>1. /\ UNCHANGED <<port, tunLink, wgLink, taken, network, troubles>>
      /\ pc \in {"engine", "load", "listen"} /\ pc' \in {"load", "listen", "create"}
  BY DEF StartProxy, NoProxy, LoadWgProxy, LoadGoesOn, Loaded, LoadFails, Listen, ListenFails, Goto
<1>2. PortInv'
  BY <1>1 DEF PortInv, network
<1>3. SUFFICES M!TypeOK' /\ ebpfProxy' \in BOOLEAN /\ ProxyInv' /\ ProgramInv'
  BY <1>1, <1>2 DEF TypeOK, PCs, network
<1>4. M!TypeOK /\ ebpfProxy \in BOOLEAN /\ port \in Ports
  BY DEF TypeOK
<1>5. CASE NoProxy
  BY <1>5, <1>4, ManagerKept DEF NoProxy, Goto, ProxyInv, ProgramInv, Enabled, manager
<1>6. ASSUME NEW p \in ProxyPorts, LoadWgProxy(p) PROVE M!TypeOK' /\ ebpfProxy' \in BOOLEAN /\ ProxyInv' /\ ProgramInv'
  <2>1. /\ op' = [pc |-> "attached", feature |-> "wg", values |-> <<p, port>>]
        /\ op' \in M!Op /\ op'.pc = "attached" /\ op'.values[2] = port
    BY <1>6, <1>4 DEF LoadWgProxy, M!LoadXdp, M!Op
  <2>2. /\ link' /\ pc' = "load" /\ pc = "engine"
        /\ UNCHANGED <<port, ebpfProxy, featureFlags, held>>
        /\ \/ UNCHANGED <<nbFeatures, settings, cache, refused>>
           \/ nbFeatures' = {} /\ settings' = M!Unset /\ cache' = M!Unset /\ refused' = FALSE
    <3>1. CASE link
      BY <1>6, <3>1 DEF LoadWgProxy, M!LoadXdp, M!kernel, Goto
    <3>2. CASE ~link
      BY <1>6, <3>2 DEF LoadWgProxy, M!LoadXdp, M!kernel, Goto
    <3> QED BY <3>1, <3>2
  <2>3. M!TypeOK'
    BY <1>4, <2>1, <2>2, UnsetTyped, <1>6 DEF M!TypeOK, LoadWgProxy, M!LoadXdp
  <2>4. ProxyInv'
    BY <2>1, <2>2, OpTyped DEF ProxyInv
  <2>5. ProgramInv'
    BY <2>2, UnsetTyped DEF ProgramInv, Enabled, ProxyInv
  <2> QED BY <1>4, <2>2, <2>3, <2>4, <2>5
<1>7. CASE LoadGoesOn
  <2>1. op \in M!Op /\ UNCHANGED <<pc, port, ebpfProxy, link, featureFlags, held, nbFeatures, cache, refused>>
    BY <1>4, <1>7, OpTyped DEF LoadGoesOn, M!PutFirst, M!PutSecond, M!TypeOK
  <2>2. /\ op' \in M!Op /\ op'.values = op.values
        /\ op'.pc = "second" => op.pc = "first" /\ M!PutSecond
    BY <1>7, <2>1, OpTyped DEF LoadGoesOn, M!PutFirst, M!PutSecond, M!Op
  <2>3. /\ settings' \in [{"wg"} -> M!Pair]
        /\ M!PutSecond => settings'["wg"][2] = op.values[2]
    <3>1. /\ settings["wg"] \in M!Pair /\ op.feature = "wg"
          /\ op.values[1] \in Ports \cup ProxyPorts /\ op.values[2] \in Ports \cup ProxyPorts
      BY <1>4, <2>1, OpTyped DEF M!TypeOK
    <3>2. ASSUME NEW i \in {1, 2} PROVE
            LET q == [settings["wg"] EXCEPT ![i] = op.values[i]] IN q \in M!Pair /\ q[i] = op.values[i]
      BY <3>1 DEF M!Pair
    <3>3. \E i \in {1, 2} :
            /\ settings' = [settings EXCEPT !["wg"] = [settings["wg"] EXCEPT ![i] = op.values[i]]]
            /\ M!PutSecond => i = 2
      <4>1. CASE M!PutFirst
        <5>1. ~M!PutSecond
          BY <4>1 DEF M!PutFirst, M!PutSecond
        <5> QED BY <4>1, <5>1, <3>1 DEF M!PutFirst
      <4>2. CASE M!PutSecond
        BY <4>2, <3>1 DEF M!PutSecond
      <4> QED BY <1>7, <4>1, <4>2 DEF LoadGoesOn
    <3> QED BY <1>4, <3>2, <3>3 DEF M!TypeOK
  <2>4. M!TypeOK'
    BY <1>4, <2>1, <2>2, <2>3 DEF M!TypeOK
  <2>5. ProxyInv'
    BY <1>7, <2>1, <2>2, <2>3, OpTyped DEF ProxyInv, LoadGoesOn
  <2>6. ProgramInv'
    BY <1>7, <2>1 DEF ProgramInv, Enabled, ProxyInv, LoadGoesOn
  <2> QED BY <1>4, <2>1, <2>4, <2>5, <2>6
<1>8. CASE Loaded
  <2>1. /\ op \in M!Op /\ op.feature = "wg" /\ op.pc = "second" /\ pc = "load" /\ pc' = "listen"
        /\ op' = M!NoOp /\ featureFlags' = {"wg"} /\ nbFeatures' = {"wg"} /\ held' = {"wg"} /\ refused' = FALSE
        /\ UNCHANGED <<port, ebpfProxy, link, settings, cache>>
    BY <1>4, <1>8, OpTyped DEF Loaded, M!PutFeatures, M!TypeOK, Goto
  <2> QED BY <1>4, <2>1 DEF M!TypeOK, ProxyInv, ProgramInv, Enabled
<1>9. CASE LoadFails
  <2>1. /\ op' = M!NoOp /\ pc = "load" /\ pc' = "create"
        /\ featureFlags' \subseteq {"wg"} /\ refused' \in BOOLEAN
        /\ UNCHANGED <<port, ebpfProxy, link, held, nbFeatures, settings, cache>>
    BY <1>4, <1>9, OpTyped DEF LoadFails, M!PutFails, M!PutFeaturesFails, M!TypeOK, M!kernel, Goto
  <2> QED BY <1>4, <2>1 DEF M!TypeOK, ProxyInv, ProgramInv, Enabled
<1>10. CASE Listen
  BY <1>10, <1>4, ManagerKept DEF Listen, Goto, ProxyInv, ProgramInv, Enabled, manager
<1>11. CASE ListenFails
  BY <1>11, <1>4, Freed DEF ListenFails, Goto, ProxyInv, ProgramInv, Enabled
<1> QED BY <1>5, <1>6, <1>7, <1>8, <1>9, <1>10, <1>11 DEF StartProxy

\* The steps of the interface and of close.
LEMMA IfaceInv ==
  Inv /\ (Recreate \/ RecreateFails \/ Configure \/ Up \/ StartFails \/ FreeFactory \/ CloseIface) => Inv'
<1> SUFFICES ASSUME Inv,
                    Recreate \/ RecreateFails \/ Configure \/ Up \/ StartFails \/ FreeFactory \/ CloseIface
             PROVE  Inv'
  OBVIOUS
<1> USE DEF Inv
<1>1. CASE FreeFactory
  <2>1. /\ UNCHANGED <<port, tunLink, wgLink, taken, network, troubles>>
        /\ pc = "close" /\ pc' = "delete" /\ ebpfProxy' = FALSE
    BY <1>1 DEF FreeFactory, Goto
  <2>2. M!TypeOK' /\ op' = op /\ nbFeatures' = {} /\ cache'["wg"] = <<0, 0>>
    <3>1. CASE ebpfProxy
      BY <1>1, <3>1, Freed DEF FreeFactory, ProgramInv, Enabled, TypeOK
    <3>2. CASE ~ebpfProxy
      BY <1>1, <3>2, ManagerKept DEF FreeFactory, ProgramInv, Enabled, TypeOK, manager
    <3> QED BY <3>1, <3>2
  <2>3. TypeOK'
    BY <2>1, <2>2 DEF TypeOK, PCs, network
  <2> QED BY <2>1, <2>2, <2>3 DEF PortInv, ProxyInv, ProgramInv, Enabled, network
<1>2. CASE ~FreeFactory
  <2>1. /\ UNCHANGED <<port, ebpfProxy, taken, network, troubles, manager>>
        /\ tunLink' \in BOOLEAN
        /\ wgLink' \in {wgLink, port, Absent, Silent}
        /\ wgLink' = port => wgLink = port \/ port \notin taken
        /\ pc \in {"create", "configure", "up", "delete"}
        /\ pc' \in {"configure", "up", "running", "close", "backoff"}
        /\ pc' = "backoff" <=> pc = "delete"
        /\ pc' \in {"up", "running"} => wgLink' = port
    BY <1>2, ConstantsTyped
       DEF Recreate, RecreateFails, Configure, Up, StartFails, CloseIface, Goto, InUse, PortInv, TypeOK
  <2>2. TypeOK'
    BY <2>1, ManagerKept DEF TypeOK, PCs, network
  <2>3. PortInv'
    BY <2>1, ConstantsTyped DEF PortInv, TypeOK, network
  <2>4. ProxyInv' /\ ProgramInv'
    BY <2>1 DEF ProxyInv, ProgramInv, Enabled, manager
  <2> QED BY <2>2, <2>3, <2>4
<1> QED BY <1>1, <1>2

\* The environment: a crash, the server, other processes, and packets.
LEMMA EnvInv ==
  ASSUME Inv, Crash \/ Packet \/ \E p \in Ports : Answer(p) \/ Take(p) \/ Release(p)
  PROVE  Inv'
<1> USE DEF Inv
<1>1. CASE Crash
  <2>1. TypeOK'
    <3>1. M!TypeOK'
      BY <1>1, UnsetTyped DEF Crash, M!TypeOK
    <3>2. troubles' \in 0..MaxTroubles
      BY <1>1, PortsAssumption DEF Crash, TypeOK
    <3> QED BY <1>1, <3>1, <3>2, ConstantsTyped DEF Crash, TypeOK, PCs, Goto, network
  <2> QED BY <1>1, <2>1, UnsetTyped DEF Crash, PortInv, ProxyInv, ProgramInv, Enabled, Goto, network
<1>2. CASE Packet
  <2>1. /\ cache' = [cache EXCEPT !["wg"] = settings["wg"]] /\ "wg" \in nbFeatures
        /\ UNCHANGED <<pc, port, ebpfProxy, tunLink, wgLink, taken, network, troubles,
                       link, featureFlags, op, held, nbFeatures, settings, refused>>
    BY <1>2 DEF Packet, M!Packet
  <2>2. TypeOK'
    BY <2>1 DEF TypeOK, M!TypeOK, network
  <2>3. ProgramInv'
    BY <2>1 DEF ProgramInv, Enabled, TypeOK, M!TypeOK
  <2> QED BY <2>1, <2>2, <2>3 DEF PortInv, ProxyInv, network
<1>3. ASSUME NEW p \in Ports, Answer(p) \/ Take(p) \/ Release(p) PROVE Inv'
  <2>1. /\ UNCHANGED <<pc, port, ebpfProxy, tunLink, wgLink, manager>>
        /\ replies' \subseteq answered' /\ answered \subseteq answered'
        /\ wgLink \notin taken'
        /\ logins' \subseteq Ports /\ answered' \subseteq Ports /\ taken' \subseteq Ports
        /\ troubles' \in 0..MaxTroubles
    BY <1>3, PortsAssumption DEF Answer, Take, Release, InUse, PortInv, TypeOK, network
  <2>2. TypeOK'
    BY <2>1, ManagerKept DEF TypeOK
  <2> QED BY <2>1, <2>2 DEF PortInv, ProxyInv, ProgramInv, Enabled, manager
<1> QED BY <1>1, <1>2, <1>3

\* Each step keeps the invariant.
LEMMA NextInv == Inv /\ [Next]_vars => Inv'
<1> SUFFICES ASSUME Inv, [Next]_vars PROVE Inv'
  OBVIOUS
<1>1. CASE Client
  BY <1>1, AttemptInv, ListenInv, IfaceInv DEF Client
<1>2. CASE GiveUp
  BY <1>2, AttemptInv
<1>3. CASE Crash \/ Packet \/ \E p \in Ports : Answer(p) \/ Take(p) \/ Release(p)
  BY <1>3, EnvInv
<1>4. CASE UNCHANGED vars
  <2>1. TypeOK'
    BY <1>4, ManagerKept DEF vars, Inv, TypeOK, network
  <2> QED BY <1>4, <2>1 DEF vars, Inv, PortInv, ProxyInv, ProgramInv, Enabled, network, manager
<1> QED BY <1>1, <1>2, <1>3, <1>4 DEF Next

\* The variables of the start, and of the manager under it, keep their types.
THEOREM StartTypeCorrect == Spec => []TypeOK
<1>1. Inv => TypeOK
  BY DEF Inv
<1> QED BY <1>1, InitInv, NextInv, PTL DEF Spec

\* A client that runs listens, alone, on the port the server has answered it at,
\* whatever attempts failed before.
THEOREM ListensRegistered == Spec => []ListensWhereRegistered
<1>1. Inv => ListensWhereRegistered
  BY DEF Inv, PortInv, ListensWhereRegistered
<1> QED BY <1>1, InitInv, NextInv, PTL DEF Spec

\* The XDP program redirects packets only while a proxy of this attempt is there, and
\* with the ports of this attempt.
THEOREM ProgramFollowsProxy == Spec => []ProgramIsCurrent
<1>1. Inv => ProgramIsCurrent
  BY DEF Inv, ProgramInv, Enabled, ProgramIsCurrent
<1> QED BY <1>1, InitInv, NextInv, PTL DEF Spec
=============================================================================
