----------------------------- MODULE EbpfProofs -----------------------------
(***************************************************************************)
(* Theorems about the two parts of the eBPF proxy: the manager with its    *)
(* XDP program, for every set of features and settings, and the ports the  *)
(* proxy gives to connections, for every number of ports and every set of  *)
(* connections.                                                            *)
(***************************************************************************)
EXTENDS EbpfManager, WGEBPFProxy, FiniteSetTheorems, WellFoundedInduction, TLAPS

-----------------------------------------------------------------------------
(* The manager *)

Configured(f) == settings[f][1] # 0 /\ settings[f][2] # 0

\* Every flag the manager holds, and not only those in the kernel, is of a
\* configured feature: writing the flags enables all of them.
ConfiguredInv ==
  /\ \A f \in featureFlags \cup nbFeatures : Configured(f)
  /\ op # NoOp => /\ op.pc \in {"first", "second"} => settings[op.feature][1] # 0
                  /\ op.pc = "second" => settings[op.feature][2] # 0

\* What the program has copied was complete when it was copied.
CacheInv == \A f \in Features : cache[f] # <<0, 0>> => cache[f][1] # 0 /\ cache[f][2] # 0

\* Who needs the program finds it attached.
LinkInv ==
  /\ op # NoOp => link
  /\ featureFlags # {} => link
  /\ held \subseteq featureFlags

\* The kernel has the manager's flags, or a write of them failed; a program that is
\* not there has none.
FlagsInv ==
  /\ ~refused /\ link => nbFeatures = featureFlags
  /\ ~link => nbFeatures = {}

ManagerInv == TypeOK /\ ConfiguredInv /\ CacheInv /\ LinkInv /\ FlagsInv

\* A Load under way is told from none by its fields.
LEMMA OpTyped == /\ NoOp.pc = "none"
                 /\ \A o \in Op : /\ o # NoOp
                                  /\ o.pc \in {"attached", "first", "second"}
                                  /\ o.feature \in Features
                                  /\ o.values \in Values \X Values
  BY DEF NoOp, Op

\* The settings of a new program are typed, and unset.
LEMMA UnsetTyped == Unset \in [Features -> Pair]
  BY ValuesAssumption DEF Unset, Pair

\* The manager starts without a program.
LEMMA ManagerInitInv == Init => ManagerInv
  BY UnsetTyped DEF Init, ManagerInv, TypeOK, ConfiguredInv, CacheInv, LinkInv, FlagsInv, Configured, Unset

\* Each step of the manager and of the program keeps the invariant.
LEMMA ManagerNextInv == ManagerInv /\ [Next]_vars => ManagerInv'
<1> SUFFICES ASSUME ManagerInv, [Next]_vars PROVE ManagerInv'
  OBVIOUS
<1> USE DEF ManagerInv
<1> USE OpTyped, UnsetTyped, ValuesAssumption
<1>1. ASSUME NEW f \in Features, NEW v \in Values \X Values, LoadXdp(f, v) PROVE ManagerInv'
  <2>1. /\ op' = [pc |-> "attached", feature |-> f, values |-> v]
        /\ op' \in Op
    BY <1>1 DEF LoadXdp, Op
  <2>2. TypeOK'
    BY <1>1, <2>1 DEF LoadXdp, TypeOK, kernel
  <2>3. ConfiguredInv'
    BY <1>1, <2>1 DEF LoadXdp, ConfiguredInv, Configured, LinkInv, kernel
  <2>4. CacheInv' /\ LinkInv' /\ FlagsInv'
    BY <1>1 DEF LoadXdp, CacheInv, Unset, LinkInv, FlagsInv, kernel
  <2> QED BY <2>2, <2>3, <2>4
<1>2. ASSUME PutFirst PROVE ManagerInv'
  <2>1. op \in Op /\ op.pc = "attached"
    BY <1>2 DEF PutFirst, TypeOK
  <2>2. op' \in Op /\ op'.pc = "first" /\ op'.feature = op.feature
    BY <1>2, <2>1 DEF PutFirst, Op
  <2>3. /\ settings' \in [Features -> Pair]
        /\ settings'[op.feature][1] # 0
        /\ \A f \in Features : settings[f][1] # 0 => settings'[f][1] # 0
        /\ \A f \in Features : settings'[f][2] = settings[f][2]
    <3>1. op.values[1] \in Values /\ op.feature \in Features
      BY <2>1
    <3>2. ASSUME NEW p \in Pair
          PROVE  LET q == [p EXCEPT ![1] = op.values[1]] IN
                   q \in Pair /\ q[1] = op.values[1] /\ q[2] = p[2]
      BY <3>1 DEF Pair
    <3>3. /\ settings' = [settings EXCEPT ![op.feature] = [settings[op.feature] EXCEPT ![1] = op.values[1]]]
          /\ settings \in [Features -> Pair]
      BY <1>2 DEF PutFirst, TypeOK
    <3> QED BY <3>1, <3>2, <3>3
  <2>4. TypeOK'
    BY <1>2, <2>2, <2>3 DEF PutFirst, TypeOK
  <2>5. ConfiguredInv'
    BY <1>2, <2>1, <2>2, <2>3 DEF PutFirst, ConfiguredInv, Configured, TypeOK
  <2>6. CacheInv' /\ LinkInv' /\ FlagsInv'
    BY <1>2, <2>1 DEF PutFirst, CacheInv, LinkInv, FlagsInv
  <2> QED BY <2>4, <2>5, <2>6
<1>3. ASSUME PutSecond PROVE ManagerInv'
  <2>1. op \in Op /\ op.pc = "first"
    BY <1>3 DEF PutSecond, TypeOK
  <2>2. op' \in Op /\ op'.pc = "second" /\ op'.feature = op.feature
    BY <1>3, <2>1 DEF PutSecond, Op
  <2>3. /\ settings' \in [Features -> Pair]
        /\ settings'[op.feature][2] # 0
        /\ \A f \in Features : settings[f][2] # 0 => settings'[f][2] # 0
        /\ \A f \in Features : settings'[f][1] = settings[f][1]
    <3>1. op.values[2] \in Values /\ op.feature \in Features
      BY <2>1
    <3>2. ASSUME NEW p \in Pair
          PROVE  LET q == [p EXCEPT ![2] = op.values[2]] IN
                   q \in Pair /\ q[2] = op.values[2] /\ q[1] = p[1]
      BY <3>1 DEF Pair
    <3>3. /\ settings' = [settings EXCEPT ![op.feature] = [settings[op.feature] EXCEPT ![2] = op.values[2]]]
          /\ settings \in [Features -> Pair]
      BY <1>3 DEF PutSecond, TypeOK
    <3> QED BY <3>1, <3>2, <3>3
  <2>4. TypeOK'
    BY <1>3, <2>2, <2>3 DEF PutSecond, TypeOK
  <2>5. ConfiguredInv'
    BY <1>3, <2>1, <2>2, <2>3 DEF PutSecond, ConfiguredInv, Configured, TypeOK
  <2>6. CacheInv' /\ LinkInv' /\ FlagsInv'
    BY <1>3, <2>1 DEF PutSecond, CacheInv, LinkInv, FlagsInv
  <2> QED BY <2>4, <2>5, <2>6
<1>4. ASSUME PutFails PROVE ManagerInv'
  BY <1>4 DEF PutFails, TypeOK, ConfiguredInv, Configured, CacheInv, LinkInv, FlagsInv, kernel
<1>5. ASSUME PutFeatures PROVE ManagerInv'
  <2>1. op \in Op /\ op.pc = "second" /\ op.feature \in Features
    BY <1>5 DEF PutFeatures, TypeOK
  <2> QED
    BY <1>5, <2>1 DEF PutFeatures, TypeOK, ConfiguredInv, Configured, CacheInv, LinkInv, FlagsInv
<1>6. ASSUME PutFeaturesFails PROVE ManagerInv'
  <2>1. op \in Op /\ op.pc = "second" /\ op.feature \in Features
    BY <1>6 DEF PutFeaturesFails, TypeOK
  <2> QED
    BY <1>6, <2>1 DEF PutFeaturesFails, TypeOK, ConfiguredInv, Configured, CacheInv, LinkInv, FlagsInv, kernel
<1>7. ASSUME NEW f \in Features, UnsetFeatureFlag(f) PROVE ManagerInv'
  <2>1. CacheInv'
    BY <1>7 DEF UnsetFeatureFlag, CacheInv, Unset, kernel
  <2> QED
    BY <1>7, <2>1 DEF UnsetFeatureFlag, TypeOK, ConfiguredInv, Configured, LinkInv, FlagsInv, kernel
<1>8. ASSUME NEW f \in Features, Packet(f) PROVE ManagerInv'
  <2>1. CacheInv'
    BY <1>8 DEF Packet, CacheInv, ConfiguredInv, Configured, TypeOK
  <2> QED
    BY <1>8, <2>1 DEF Packet, TypeOK, ConfiguredInv, Configured, LinkInv, FlagsInv
<1>9. CASE UNCHANGED vars
  BY <1>9 DEF vars, TypeOK, ConfiguredInv, Configured, CacheInv, LinkInv, FlagsInv
<1> QED BY <1>1, <1>2, <1>3, <1>4, <1>5, <1>6, <1>7, <1>8, <1>9 DEF Next

\* The manager's variables and the kernel's maps keep their types.
THEOREM EbpfTypeCorrect == Spec => []TypeOK
  <1>1. ManagerInv => TypeOK
    BY DEF ManagerInv
  <1> QED BY <1>1, ManagerInitInv, ManagerNextInv, PTL DEF Spec

\* Whatever Put fails, and whenever packets come, the program never has a feature
\* enabled, or a copy of its settings, that lacks one of them.
THEOREM FeaturesSafe == Spec => []EnabledIsConfigured
  <1>1. ManagerInv => EnabledIsConfigured
    BY DEF ManagerInv, ConfiguredInv, Configured, CacheInv, EnabledIsConfigured
  <1> QED BY <1>1, ManagerInitInv, ManagerNextInv, PTL DEF Spec

\* The kernel's flags are the manager's unless their last Put failed, and a feature in
\* use has the program attached.
THEOREM FlagsFollowManager == Spec => []FlagsReachKernel
  <1>1. ManagerInv => FlagsReachKernel
    BY DEF ManagerInv, LinkInv, FlagsInv, FlagsReachKernel
  <1> QED BY <1>1, ManagerInitInv, ManagerNextInv, PTL DEF Spec

-----------------------------------------------------------------------------
(* The ports *)

\* The ports after p up to the one given out last, around the wrap.
Passed(p, q) == IF p <= lastUsedPort THEN p < q /\ q <= lastUsedPort ELSE p < q \/ q <= lastUsedPort

\* Every port the counter has passed since it was at p was in use meanwhile: it was
\* given out, or the search skipped it because it was in use.
RestInv == \A p \in Ports : InUse \cup {p} \cup {q \in Ports : Passed(p, q)} \subseteq busySince[p]

ProxyInv == ProxyTypeOK /\ PortsAreOwned /\ RestInv

\* A set of numbers that is not empty has a least one.
LEMMA Least ==
  ASSUME NEW S \in SUBSET Nat, S # {}
  PROVE  Min(S) \in S /\ \A y \in S : Min(S) <= y
<1> DEFINE R == OpToRel(<, Nat)
<1>1. IsWellFoundedOn(R, Nat)
  BY NatLessThanWellFounded
<1>2. \A x, y \in Nat : x < y => <<x, y>> \in R
  BY DEF OpToRel
<1> HIDE DEF R
<1>3. \E x \in S : \A y \in S : ~(<<y, x>> \in R)
  BY <1>1, WFMin, Zenon
<1>4. PICK x \in S : \A y \in S : ~(<<y, x>> \in R)
  BY <1>3
<1>5. ASSUME NEW y \in S PROVE x <= y
  <2>1. x \in Nat /\ y \in Nat
    OBVIOUS
  <2>2. ~(y < x)
    BY <1>2, <1>4, <2>1, Zenon
  <2> QED BY <2>1, <2>2
<1> QED BY <1>5 DEF Min

\* The loop of nextFreePort comes to every port, wherever the counter stands, and
\* stays within the range.
LEMMA CandidatesAreAll ==
  ASSUME ProxyTypeOK
  PROVE  /\ \A i \in Ports : Candidate(i) \in Ports
         /\ \A p \in Ports : LET i == IF p > lastUsedPort THEN p - lastUsedPort ELSE p - lastUsedPort + MaxPort
                             IN  i \in Ports /\ Candidate(i) = p
  BY MaxPortAssumption DEF ProxyTypeOK, Candidate, Ports

\* Between the port given out last and n, around the wrap.
Skipped(n, q) == IF lastUsedPort < n THEN lastUsedPort < q /\ q < n ELSE lastUsedPort < q \/ q < n

\* While not every port is in use, the loop of nextFreePort ends at a free port, and
\* has passed over ports in use only.
LEMMA FreePortFound ==
  ASSUME ProxyTypeOK, Cardinality(InUse) # MaxPort
  PROVE  /\ NextFreePort \in Ports \ InUse
         /\ \A q \in Ports : Skipped(NextFreePort, q) => q \in InUse
<1>1. Cardinality(Ports) = MaxPort
  BY FS_Interval, MaxPortAssumption DEF Ports
<1>2. PICK p \in Ports : p \notin InUse
  <2>1. InUse \subseteq Ports /\ InUse # Ports
    BY <1>1 DEF InUse
  <2> QED BY <2>1
<1> DEFINE Turn(q) == IF q > lastUsedPort THEN q - lastUsedPort ELSE q - lastUsedPort + MaxPort
           Free == {i \in Ports : Candidate(i) \notin InUse}
           k == Min(Free)
<1>3. Turn(p) \in Free
  BY <1>2, CandidatesAreAll
<1>4. Free \in SUBSET Nat
  BY DEF Ports
<1>5. k \in Free /\ \A i \in Free : k <= i
  BY <1>3, <1>4, Least
<1>6. NextFreePort = Candidate(k)
  BY DEF NextFreePort
<1> HIDE DEF k
<1>7. ASSUME NEW q \in Ports, Skipped(Candidate(k), q) PROVE q \in InUse
  <2>1. Turn(q) \in Ports /\ Candidate(Turn(q)) = q
    BY CandidatesAreAll
  <2>2. k \in Ports
    BY <1>5
  <2>3. Turn(q) < k
    BY <1>7, <2>2, MaxPortAssumption DEF ProxyTypeOK, Skipped, Candidate, Ports
  <2>4. Turn(q) \notin Free
    BY <1>5, <2>1, <2>2, <2>3 DEF Ports
  <2> QED BY <2>1, <2>4
<1> QED BY <1>5, <1>6, <1>7, CandidatesAreAll

\* The proxy starts without connections.
LEMMA ProxyInitInv == ProxyInit => ProxyInv
  BY MaxPortAssumption, NoTurnAssumption
  DEF ProxyInit, ProxyInv, ProxyTypeOK, PortsAreOwned, RestInv, InUse, Reading, Ports

\* Each step of the proxy keeps the ports owned, and remembers which were in use.
LEMMA ProxyNextInv == ProxyInv /\ [ProxyNext]_proxyVars => ProxyInv'
<1> SUFFICES ASSUME ProxyInv, [ProxyNext]_proxyVars PROVE ProxyInv'
  OBVIOUS
<1> USE NoTurnAssumption, MaxPortAssumption DEF ProxyInv
<1>1. ASSUME NEW t \in Turns, AddTurnConn(t) PROVE ProxyInv'
  <2>1. /\ NextFreePort \in Ports /\ turnConnStore[NextFreePort] = None
        /\ \A q \in Ports : Skipped(NextFreePort, q) => q \in InUse
    BY <1>1, FreePortFound DEF AddTurnConn, InUse
  <2> DEFINE n == NextFreePort
  <2>2. /\ lastUsedPort' = n
        /\ turnConnStore' = [turnConnStore EXCEPT ![n] = t]
        /\ pc' = [pc EXCEPT ![t] = "running"]
        /\ port' = [port EXCEPT ![t] = n]
        /\ busySince' = [p \in Ports |-> IF p = n THEN InUse \cup {p} ELSE busySince[p] \cup {n}]
        /\ remote' = remote
        /\ pc[t] = "none"
    BY <1>1 DEF AddTurnConn
  <2>3. /\ n \in Ports /\ turnConnStore[n] = None
        /\ \A q \in Ports : Skipped(n, q) => q \in InUse
    BY <2>1
  <2> HIDE DEF n
  <2>4. ProxyTypeOK'
    BY <2>2, <2>3 DEF ProxyTypeOK, Ports, InUse
  <2>5. PortsAreOwned'
    BY <2>2, <2>3 DEF ProxyTypeOK, PortsAreOwned, InUse
  <2>6. RestInv'
    <3> SUFFICES ASSUME NEW p \in Ports, NEW q \in Ports, q \in InUse' \/ q = p \/ Passed(p, q)'
                 PROVE  q \in busySince'[p]
      BY DEF RestInv, InUse
    <3>1. q \in InUse' => q \in InUse \/ q = n
      BY <2>2, <2>3 DEF ProxyTypeOK, InUse
    <3>2. CASE p = n
      <4>1. ~Passed(p, q)'
        BY <2>2, <3>2, MaxPortAssumption DEF Passed, Ports
      <4>2. busySince'[p] = InUse \cup {p}
        BY <2>2, <3>2
      <4> QED BY <3>1, <3>2, <4>1, <4>2
    <3>3. CASE p # n
      <4>1. busySince'[p] = busySince[p] \cup {n}
        BY <2>2, <3>3
      <4>2. Passed(p, q)' => Passed(p, q) \/ Skipped(n, q) \/ q = n
        BY <2>2, <2>3, <3>3, MaxPortAssumption DEF Passed, Skipped, ProxyTypeOK, Ports
      <4>3. InUse \cup {p} \subseteq busySince[p] /\ (Passed(p, q) => q \in busySince[p])
        BY DEF RestInv
      <4> QED BY <2>3, <3>1, <4>1, <4>2, <4>3
    <3> QED BY <3>2, <3>3
  <2> QED BY <2>4, <2>5, <2>6
<1>2. ASSUME NEW t \in Turns, ReadFails(t) PROVE ProxyInv'
  BY <1>2 DEF ReadFails, ProxyTypeOK, PortsAreOwned, RestInv, Passed, InUse
<1>3. ASSUME NEW t \in Turns, RemoveTurnConn(t) PROVE ProxyInv'
  <2>1. port[t] \in Ports /\ turnConnStore[port[t]] = t
    BY <1>3 DEF RemoveTurnConn, PortsAreOwned
  <2>2. ProxyTypeOK'
    BY <1>3, <2>1 DEF RemoveTurnConn, ProxyTypeOK
  <2>3. PortsAreOwned'
    BY <1>3, <2>1 DEF RemoveTurnConn, ProxyTypeOK, PortsAreOwned, InUse
  <2>4. RestInv'
    BY <1>3, <2>1 DEF RemoveTurnConn, ProxyTypeOK, RestInv, Passed, InUse
  <2> QED BY <2>2, <2>3, <2>4
<1>4. ASSUME NEW p \in Ports, ReadFromUDP(p) PROVE ProxyInv'
  BY <1>4 DEF ReadFromUDP, ProxyTypeOK, PortsAreOwned, RestInv, Passed, InUse, Ports
<1>5. ASSUME WriteRemote PROVE ProxyInv'
  BY <1>5 DEF WriteRemote, Reading, ProxyTypeOK, PortsAreOwned, RestInv, Passed, InUse
<1>6. ASSUME SocketFails PROVE ProxyInv'
  BY <1>6 DEF SocketFails, Reading, ProxyTypeOK, PortsAreOwned, RestInv, Passed, InUse
<1>7. CASE UNCHANGED proxyVars
  BY <1>7 DEF proxyVars, ProxyTypeOK, PortsAreOwned, RestInv, Passed, InUse
<1> QED BY <1>1, <1>2, <1>3, <1>4, <1>5, <1>6, <1>7 DEF ProxyNext

\* The port counter and the store keep their types: the counter never leaves the
\* range of a port, also where it wraps.
THEOREM ProxyTypeCorrect == ProxySpec => []ProxyTypeOK
  <1>1. ProxyInv => ProxyTypeOK
    BY DEF ProxyInv
  <1> QED BY <1>1, ProxyInitInv, ProxyNextInv, PTL DEF ProxySpec

\* A port in use belongs to exactly the connection whose goroutine holds it.
THEOREM PortsOwned == ProxySpec => []PortsAreOwned
  <1>1. ProxyInv => PortsAreOwned
    BY DEF ProxyInv
  <1> QED BY <1>1, ProxyInitInv, ProxyNextInv, PTL DEF ProxySpec

\* A port that is given out again has rested: since it was given out the last time
\* every other port has been in use.
THEOREM PortsRest == ProxySpec => PortRests
  <1>1. ASSUME ProxyInv, [ProxyNext]_proxyVars, NEW t \in Turns, pc[t] = "none", pc'[t] = "running"
        PROVE  busySince[port'[t]] = Ports
    <2>1. AddTurnConn(t)
      BY <1>1 DEF ProxyInv, ProxyTypeOK, ProxyNext, proxyVars, AddTurnConn, ReadFails, RemoveTurnConn,
         ReadFromUDP, WriteRemote, SocketFails
    <2> DEFINE n == NextFreePort
    <2>2. /\ n \in Ports
          /\ \A q \in Ports : Skipped(n, q) => q \in InUse
          /\ port'[t] = n
      BY <1>1, <2>1, FreePortFound DEF AddTurnConn, ProxyInv, ProxyTypeOK
    <2> HIDE DEF n
    <2>3. busySince[n] \subseteq Ports /\ InUse \cup {n} \cup {q \in Ports : Passed(n, q)} \subseteq busySince[n]
      BY <1>1, <2>2 DEF ProxyInv, ProxyTypeOK, RestInv
    <2>4. ASSUME NEW q \in Ports PROVE Skipped(n, q) \/ q = n \/ Passed(n, q)
      BY <1>1, <2>2, MaxPortAssumption DEF ProxyInv, ProxyTypeOK, Skipped, Passed, Ports
    <2> QED BY <2>2, <2>3, <2>4
  <1>2. ProxyInv /\ [ProxyNext]_proxyVars =>
          [\A t \in Turns : pc[t] = "none" /\ pc'[t] = "running" => busySince[port'[t]] = Ports]_proxyVars
    BY <1>1
  <1> QED BY <1>2, ProxyInitInv, ProxyNextInv, PTL DEF ProxySpec, PortRests
=============================================================================
