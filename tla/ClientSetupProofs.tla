------------------------- MODULE ClientSetupProofs -------------------------
(***************************************************************************)
(* Theorems about how a client comes to its interface and what it leaves   *)
(* there, for every set of keys, prefixes, endpoints, threads, machines    *)
(* and first configuration files, and any number of failures and crashes.  *)
(*                                                                         *)
(* Each of the three components has an inductive invariant of its own; the *)
(* steps of ClientSetup are steps of the components (lemma Components).    *)
(***************************************************************************)
EXTENDS ClientSetup, SequenceTheorems, FiniteSetTheorems, TLAPS

-----------------------------------------------------------------------------
(* The peers of the interface *)

\* While a RemoveAllowedIP is between its two device calls, what it will write back
\* is what the peer has by then, but for the one prefix.
InFlight ==
  mu # None =>
    /\ request \in [key : Keys, net : Nets, keep : SUBSET Nets]
    /\ link # "none" => /\ request.key \in peers
                        /\ request.keep = Routed({request.key}) \ {request.net}

WGInv == WGTypeOK /\ InFlight

\* The steps the interface takes in a client.
WGStep ==
  \/ \E p \in DeviceKeys \cup {None} : CreateKernel(p) \/ CreateUser(p)
  \/ CreateKernelFails \/ CloseLink \/ LinkDeleted \/ ProcessEnds
  \/ Configures
  \/ \E k \in Keys, e \in Endpoints : Roams(k, e)

\* The text has two lines for each peer.
LEMMA TextLines ==
  ASSUME NEW S, IsFiniteSet(S), NEW s \in Orders(S)
  PROVE  /\ Cardinality(S) \in Nat
         /\ DOMAIN s = 1..Cardinality(S)
         /\ Cardinality(DOMAIN s) = Cardinality(S)
         /\ DOMAIN Text(s) = 1..2 * Cardinality(S)
         /\ \A i \in DOMAIN s :
              /\ 2 * i - 1 \in DOMAIN Text(s) /\ 2 * i \in DOMAIN Text(s)
              /\ Text(s)[2 * i - 1] = PublicKey(s[i])
              /\ Text(s)[2 * i] = [line |-> "details", of |-> s[i]]
         /\ \A j \in DOMAIN Text(s) : \E i \in DOMAIN s : j = 2 * i - 1 \/ j = 2 * i
<1> DEFINE n == Cardinality(S)
<1>1. n \in Nat /\ DOMAIN s = 1..n
  BY FS_CardinalityType DEF Orders
<1>2. Cardinality(1..n) = n
  BY <1>1, FS_Interval
<1>3. Cardinality(DOMAIN s) = n
  BY <1>1, <1>2
<1>4. Text(s) = [i \in 1..2 * n |->
        IF i % 2 = 1 THEN PublicKey(s[(i + 1) \div 2]) ELSE [line |-> "details", of |-> s[i \div 2]]]
  BY <1>3 DEF Text
<1> HIDE DEF n
<1>5. ASSUME NEW i \in 1..n
      PROVE  /\ 2 * i - 1 \in 1..2 * n /\ 2 * i \in 1..2 * n
             /\ (2 * i - 1) % 2 = 1 /\ ((2 * i - 1) + 1) \div 2 = i
             /\ (2 * i) % 2 # 1 /\ (2 * i) \div 2 = i
  BY <1>1
<1>6. ASSUME NEW j \in 1..2 * n PROVE \E i \in 1..n : j = 2 * i - 1 \/ j = 2 * i
  <2>1. (j + 1) \div 2 \in 1..n /\ (j = 2 * ((j + 1) \div 2) - 1 \/ j = 2 * ((j + 1) \div 2))
    BY <1>1
  <2> QED BY <2>1
<1>7. DOMAIN Text(s) = 1..2 * n
  BY <1>4
<1>8. ASSUME NEW i \in 1..n
      PROVE  /\ Text(s)[2 * i - 1] = PublicKey(s[i])
             /\ Text(s)[2 * i] = [line |-> "details", of |-> s[i]]
  BY <1>4, <1>5
<1>9. \A j \in DOMAIN Text(s) : \E i \in DOMAIN s : j = 2 * i - 1 \/ j = 2 * i
  BY <1>1, <1>6, <1>7
<1>10. \A i \in DOMAIN s : 2 * i - 1 \in DOMAIN Text(s) /\ 2 * i \in DOMAIN Text(s)
  BY <1>1, <1>5, <1>7
<1>11. \A i \in DOMAIN s : /\ Text(s)[2 * i - 1] = PublicKey(s[i])
                            /\ Text(s)[2 * i] = [line |-> "details", of |-> s[i]]
  BY <1>1, <1>8
<1> QED BY <1>1, <1>3, <1>7, <1>9, <1>10, <1>11, Zenon DEF n

\* The flag is set exactly while the two lines of k are read.
LEMMA FlagIs ==
  ASSUME NEW S, IsFiniteSet(S), NEW s \in Orders(S), NEW k, NEW found \in Flags(Text(s), k)
  PROVE  \A i \in DOMAIN s : /\ found[2 * i - 1] <=> s[i] = k
                             /\ found[2 * i] <=> s[i] = k
<1> SUFFICES ASSUME NEW i \in DOMAIN s
             PROVE  /\ found[2 * i - 1] <=> s[i] = k
                    /\ found[2 * i] <=> s[i] = k
  OBVIOUS
<1>1. /\ 2 * i - 1 \in DOMAIN Text(s) /\ 2 * i \in DOMAIN Text(s)
      /\ Text(s)[2 * i - 1] = PublicKey(s[i])
      /\ Text(s)[2 * i] = [line |-> "details", of |-> s[i]]
      /\ i \in Nat
  BY TextLines
<1>2. 2 * i - 1 = (2 * i) - 1
  OBVIOUS
<1>3. \A j \in DOMAIN Text(s) :
        found[j] = ((found[j - 1] /\ Text(s)[j].line # "public_key") \/ Text(s)[j] = PublicKey(k))
  BY DEF Flags
<1>4. \A j \in DOMAIN Text(s) : found[j] \in BOOLEAN
  BY DEF Flags
<1>5. /\ PublicKey(s[i]).line = "public_key"
      /\ PublicKey(s[i]) = PublicKey(k) <=> s[i] = k
      /\ [line |-> "details", of |-> s[i]].line = "details"
      /\ [line |-> "details", of |-> s[i]] # PublicKey(k)
  BY DEF PublicKey
<1>6. found[2 * i - 1] <=> s[i] = k
  BY <1>1, <1>3, <1>5
<1>7. found[2 * i] = found[2 * i - 1]
  BY <1>1, <1>2, <1>3, <1>4, <1>5
<1> QED BY <1>6, <1>7

\* The scan of the device's text reads the section of the peer and of no other.
LEMMA SectionIs ==
  ASSUME NEW S, IsFiniteSet(S), NEW s \in Orders(S), NEW k, NEW found \in Flags(Text(s), k)
  PROVE  /\ Section(Text(s), found) = {k} \cap S
         /\ FirstSection(Text(s), found) = {k} \cap S
<1>1. /\ \A i \in DOMAIN s :
           /\ 2 * i - 1 \in DOMAIN Text(s) /\ 2 * i \in DOMAIN Text(s)
           /\ Text(s)[2 * i - 1] = PublicKey(s[i])
           /\ Text(s)[2 * i] = [line |-> "details", of |-> s[i]]
      /\ \A j \in DOMAIN Text(s) : \E i \in DOMAIN s : j = 2 * i - 1 \/ j = 2 * i
  BY TextLines
<1>2. \A i \in DOMAIN s : found[2 * i] <=> s[i] = k
  BY FlagIs
<1>3. \A x : PublicKey(x).line # "details"
  BY DEF PublicKey
<1>4. \A i \in DOMAIN s : s[i] \in S
  BY DEF Orders
<1>5. \A x \in S : \E i \in DOMAIN s : s[i] = x
  BY DEF Orders
<1>6. ASSUME NEW j \in DOMAIN Text(s), found[j], Text(s)[j].line = "details"
      PROVE  Text(s)[j].of = k /\ k \in S
  <2>1. PICK i \in DOMAIN s : j = 2 * i - 1 \/ j = 2 * i
    BY <1>1
  <2>2. Text(s)[2 * i - 1] = PublicKey(s[i])
    BY <1>1
  <2>3. PublicKey(s[i]).line # "details"
    BY <1>3
  <2>4. j # 2 * i - 1
    BY <1>6, <2>2, <2>3
  <2>5. j = 2 * i
    BY <2>1, <2>4
  <2>6. Text(s)[2 * i] = [line |-> "details", of |-> s[i]] /\ (found[2 * i] <=> s[i] = k)
    BY <1>1, <1>2
  <2>7. s[i] \in S
    BY <1>4
  <2>8. s[i] = k
    BY <1>6, <2>5, <2>6
  <2> QED BY <2>5, <2>6, <2>7, <2>8
<1>7. Section(Text(s), found) \subseteq {k} \cap S
  BY <1>6 DEF Section
<1>8. FirstSection(Text(s), found) \subseteq {k} \cap S
  BY <1>6 DEF FirstSection
<1>9. ASSUME k \in S
      PROVE  k \in Section(Text(s), found) /\ k \in FirstSection(Text(s), found)
  <2>1. PICK i \in DOMAIN s : s[i] = k
    BY <1>5, <1>9
  <2>2. 2 * i \in DOMAIN Text(s) /\ Text(s)[2 * i] = [line |-> "details", of |-> s[i]]
    BY <1>1
  <2>3. found[2 * i]
    BY <1>2, <2>1
  <2>4. Text(s)[2 * i].line = "details" /\ Text(s)[2 * i].of = k
    BY <2>1, <2>2
  <2>5. ASSUME NEW j \in 1..2 * i, found[j - 1], Text(s)[j].line = "public_key"
        PROVE  FALSE
    <3>1. DOMAIN s = 1..Cardinality(S) /\ Cardinality(S) \in Nat
      BY TextLines
    <3>2. DOMAIN Text(s) = 1..2 * Cardinality(S)
      BY TextLines
    <3>3. j \in DOMAIN Text(s)
      BY <2>2, <3>1, <3>2
    <3>4. PICK m \in DOMAIN s : j = 2 * m - 1 \/ j = 2 * m
      BY <1>1, <3>3
    <3>5. Text(s)[2 * m].line = "details"
      <4>1. Text(s)[2 * m] = [line |-> "details", of |-> s[m]]
        BY <1>1
      <4> QED BY <4>1
    <3>6. j = 2 * m - 1
      BY <2>5, <3>4, <3>5
    <3>7. CASE m = 1
      <4>1. j - 1 = 0
        BY <3>6, <3>7
      <4> QED BY <2>5, <4>1 DEF Flags
    <3>8. CASE m # 1
      <4>1. m - 1 \in DOMAIN s /\ j - 1 = 2 * (m - 1) /\ m - 1 # i
        BY <3>1, <3>6, <3>8
      <4>2. s[m - 1] = k
        BY <1>2, <2>5, <4>1
      <4> QED BY <2>1, <4>1, <4>2 DEF Orders
    <3> QED BY <3>7, <3>8
  <2>6. k \in Section(Text(s), found)
    BY <2>2, <2>3, <2>4 DEF Section
  <2>7. k \in FirstSection(Text(s), found)
    BY <2>2, <2>3, <2>4, <2>5 DEF FirstSection
  <2> QED BY <2>6, <2>7
<1> QED BY <1>7, <1>8, <1>9

\* There is no interface and no request.
LEMMA WGInitInv == WGInit => WGInv
<1> SUFFICES ASSUME WGInit PROVE WGInv
  OBVIOUS
<1>1. WGTypeOK
  BY DEF WGInit, WGTypeOK
<1>2. InFlight
  BY DEF WGInit, InFlight
<1> QED BY <1>1, <1>2 DEF WGInv

\* An empty table has its type.
LEMMA EmptyTableType ==
  EmptyTable => peers' = {} /\ endpoint' \in [Keys -> Endpoints \cup {None}]
                /\ owner' \in [Nets -> Keys \cup {None}]
BY DEF EmptyTable

\* A step that makes, removes or leaves the interface while no request is under way,
\* or that leaves no request under way.
LEMMA LinkInv ==
  ASSUME WGInv,
         \/ \E p \in DeviceKeys \cup {None} : CreateKernel(p) \/ CreateUser(p)
         \/ CreateKernelFails \/ CloseLink \/ LinkDeleted \/ ProcessEnds
  PROVE  WGInv'
<1> USE DEF WGInv
<1>1. /\ link' \in Kinds \cup {"none"}
      /\ private' \in DeviceKeys \cup {None}
      /\ EmptyTable \/ UNCHANGED table
  BY DEF CreateKernel, CreateUser, CreateKernelFails, CloseLink, LinkDeleted, ProcessEnds,
         Gone, WGTypeOK, Kinds, table
<1>2. (mu' = mu /\ request' = request) \/ (mu' = None /\ request' = NoRequest)
  BY DEF CreateKernel, CreateUser, CreateKernelFails, CloseLink, LinkDeleted, ProcessEnds
<1>3. WGTypeOK'
  BY <1>1, <1>2, EmptyTableType DEF WGTypeOK, table
<1>4. InFlight'
  <2>1. mu' = None \/ (link' = "none" /\ mu' = mu /\ request' = request)
    BY DEF CreateKernel, CreateUser, CreateKernelFails, CloseLink, LinkDeleted, ProcessEnds, Gone
  <2> QED BY <2>1 DEF InFlight
<1> QED BY <1>3, <1>4

\* A request that takes the mutex and makes one call.
LEMMA OneCallInv ==
  ASSUME WGInv, OneCall,
         peers' \subseteq Keys, endpoint' \in [Keys -> Endpoints \cup {None}],
         owner' \in [Nets -> Keys \cup {None}]
  PROVE  WGInv'
<1>1. WGTypeOK'
  BY DEF WGInv, WGTypeOK, OneCall
<1>2. InFlight'
  BY DEF OneCall, InFlight
<1> QED BY <1>1, <1>2 DEF WGInv, OneCall

\* The first device call of RemoveAllowedIP.
LEMMA ReadsInv ==
  ASSUME WGInv, NEW t \in Threads, NEW k \in Keys, NEW n \in Nets,
         k \in peers, ReadsFor(t, k, n, {k})
  PROVE  WGInv'
<1> USE DEF WGInv
<1>1. Routed({k}) \subseteq Nets
  BY DEF Routed
<1>2. request' = [key |-> k, net |-> n, keep |-> Routed({k}) \ {n}]
  BY DEF ReadsFor
<1>3. request' \in [key : Keys, net : Nets, keep : SUBSET Nets]
  BY <1>1, <1>2
<1>4. WGTypeOK'
  BY <1>3 DEF ReadsFor, WGTypeOK, table
<1>5. Routed({k})' = Routed({k})
  BY DEF ReadsFor, Routed, table
<1>6. InFlight'
  BY <1>2, <1>3, <1>5 DEF ReadsFor, InFlight, table, Routed
<1> QED BY <1>4, <1>6 DEF ReadsFor

\* The second device call of RemoveAllowedIP takes the one prefix away, if the peer
\* had it, and changes nothing otherwise.
LEMMA WritesBack ==
  ASSUME WGInv, NEW t \in Threads, RemoveAllowedIP(t), link # "none"
  PROVE  /\ request.key \in Keys /\ request.net \in Nets
         /\ owner' = [m \in Nets |-> IF m = request.net /\ owner[m] = request.key THEN None ELSE owner[m]]
         /\ UNCHANGED <<peers, endpoint>>
<1>1. mu # None
  BY WGAssumption DEF RemoveAllowedIP
<1>2. /\ request.key \in Keys /\ request.net \in Nets
      /\ request.key \in peers
      /\ request.keep = Routed({request.key}) \ {request.net}
  BY <1>1 DEF WGInv, InFlight
<1>3. WriteBack(request.key, request.keep)
  BY DEF RemoveAllowedIP
<1> QED BY <1>2, <1>3 DEF WriteBack, Routed, WGInv, WGTypeOK

LEMMA RemoveAllowedIPInv ==
  ASSUME WGInv, NEW t \in Threads, RemoveAllowedIP(t)
  PROVE  WGInv'
<1> USE DEF WGInv
<1>1. CASE link = "none"
  BY <1>1 DEF RemoveAllowedIP, WGTypeOK, InFlight, table
<1>2. CASE link # "none"
  <2>1. /\ request.key \in Keys /\ request.net \in Nets
        /\ owner' = [m \in Nets |-> IF m = request.net /\ owner[m] = request.key THEN None ELSE owner[m]]
        /\ UNCHANGED <<peers, endpoint>>
    BY <1>2, WritesBack
  <2>2. WGTypeOK'
    BY <2>1 DEF RemoveAllowedIP, WGTypeOK
  <2> QED BY <2>2 DEF RemoveAllowedIP, InFlight
<1> QED BY <1>1, <1>2

LEMMA RoamsInv ==
  ASSUME WGInv, NEW k \in Keys, NEW e \in Endpoints, Roams(k, e)
  PROVE  WGInv'
<1>1. WGTypeOK'
  BY DEF WGInv, Roams, WGTypeOK
<1>2. InFlight'
  BY DEF WGInv, Roams, InFlight, Routed
<1> QED BY <1>1, <1>2 DEF WGInv, Roams

\* Every step of the interface keeps its invariant.
LEMMA WGStepInv == WGInv /\ (WGStep \/ UNCHANGED wgVars) => WGInv'
<1> SUFFICES ASSUME WGInv, WGStep \/ UNCHANGED wgVars PROVE WGInv'
  OBVIOUS
<1>1. ASSUME UNCHANGED wgVars PROVE WGInv'
  BY <1>1 DEF wgVars, WGInv, WGTypeOK, InFlight, Routed
<1>2. ASSUME NoDevice PROVE WGInv'
  BY <1>2, OneCallInv DEF NoDevice, table, WGInv, WGTypeOK
<1>3. ASSUME NEW k \in Keys, RemovePeer(k) PROVE WGInv'
  BY <1>3, OneCallInv DEF RemovePeer, WGInv, WGTypeOK
<1>4. ASSUME NEW k \in Keys, NotFound(k) PROVE WGInv'
  BY <1>4, OneCallInv DEF NotFound, table, WGInv, WGTypeOK
<1>5. ASSUME NEW k \in Keys, NEW n \in Nets, NEW e \in Endpoints \cup {None}, UpdatePeer(k, n, e) PROVE WGInv'
  BY <1>5, OneCallInv DEF UpdatePeer, WGInv, WGTypeOK
<1>6. ASSUME NEW k \in Keys, NEW n \in Nets, AddAllowedIP(k, n) PROVE WGInv'
  BY <1>6, OneCallInv DEF AddAllowedIP, table, WGInv, WGTypeOK
<1>7. ASSUME NEW k \in Keys, NEW n \in Nets, NEW t \in Threads, ReadKernel(t, k, n) PROVE WGInv'
  BY <1>7, ReadsInv DEF ReadKernel
<1>8. ASSUME NEW k \in Keys, NEW n \in Nets, NEW t \in Threads, ReadUser(t, k, n) PROVE WGInv'
  <2>0. PICK s \in Orders(peers) : \E found \in Flags(Text(s), k) :
          /\ n \in Routed(Section(Text(s), found))
          /\ ReadsFor(t, k, n, Section(Text(s), found))
    BY <1>8 DEF ReadUser
  <2>1. PICK found \in Flags(Text(s), k) :
          /\ n \in Routed(Section(Text(s), found))
          /\ ReadsFor(t, k, n, Section(Text(s), found))
    BY <2>0
  <2>2. IsFiniteSet(peers)
    BY WGAssumption, FS_Subset DEF WGInv, WGTypeOK
  <2>3. Section(Text(s), found) = {k} \cap peers
    BY <2>2, SectionIs
  <2>4. k \in peers /\ Section(Text(s), found) = {k}
    BY <2>1, <2>3 DEF Routed
  <2> QED BY <2>1, <2>4, ReadsInv
<1> QED BY <1>1, <1>2, <1>3, <1>4, <1>5, <1>6, <1>7, <1>8,
           LinkInv, RemoveAllowedIPInv, RoamsInv DEF WGStep, Configures

\* Every step of the interface is a step of the table, or none.
LEMMA WGStepTable == WGInv /\ (WGStep \/ UNCHANGED wgVars) => [PT!Next]_(PT!vars)
<1> SUFFICES ASSUME WGInv, WGStep \/ UNCHANGED wgVars
             PROVE  PT!Next \/ UNCHANGED <<peers, endpoint, owner>>
  BY DEF PT!vars
<1>1. ASSUME EmptyTable PROVE PT!Next
  BY <1>1 DEF EmptyTable, PT!Next, PT!Reset
<1>2. ASSUME \/ \E p \in DeviceKeys \cup {None} : CreateKernel(p) \/ CreateUser(p)
             \/ CreateKernelFails \/ CloseLink \/ LinkDeleted \/ ProcessEnds
      PROVE  EmptyTable \/ UNCHANGED <<peers, endpoint, owner>>
  BY <1>2 DEF CreateKernel, CreateUser, CreateKernelFails, CloseLink, LinkDeleted, ProcessEnds, Gone, table
<1>3. ASSUME NEW k \in Keys, RemovePeer(k) PROVE PT!Next
  BY <1>3 DEF RemovePeer, PT!Next, PT!Remove
<1>4. ASSUME NEW k \in Keys, NEW n \in Nets, NEW e \in Endpoints \cup {None}, UpdatePeer(k, n, e)
      PROVE  PT!Next
  BY <1>4 DEF UpdatePeer, PT!Next, PT!Update
<1>5. ASSUME NEW k \in Keys, NEW n \in Nets, AddAllowedIP(k, n)
      PROVE  PT!Next \/ UNCHANGED <<peers, endpoint, owner>>
  BY <1>5 DEF AddAllowedIP, table, PT!Next, PT!Add
<1>6. ASSUME NEW t \in Threads, RemoveAllowedIP(t)
      PROVE  PT!Next \/ UNCHANGED <<peers, endpoint, owner>>
  <2>1. CASE link = "none"
    BY <1>6, <2>1 DEF RemoveAllowedIP, table
  <2>2. CASE link # "none"
    <3>1. /\ request.key \in Keys /\ request.net \in Nets
          /\ owner' = [m \in Nets |-> IF m = request.net /\ owner[m] = request.key THEN None ELSE owner[m]]
          /\ UNCHANGED <<peers, endpoint>>
      BY <1>6, <2>2, WritesBack
    <3>2. CASE owner[request.net] = request.key
      <4>1. PT!RemoveNet(request.key, request.net)
        BY <3>1, <3>2 DEF PT!RemoveNet, PT!Owned, WGInv, WGTypeOK
      <4> QED BY <3>1, <4>1 DEF PT!Next
    <3>3. CASE owner[request.net] # request.key
      BY <3>1, <3>3 DEF WGInv, WGTypeOK
    <3> QED BY <3>2, <3>3
  <2> QED BY <2>1, <2>2
<1>7. ASSUME NEW k \in Keys, NEW e \in Endpoints, Roams(k, e) PROVE PT!Next
  BY <1>7 DEF Roams, PT!Next, PT!Roam
<1>8. ASSUME \/ NoDevice \/ \E k \in Keys : NotFound(k)
             \/ \E k \in Keys, n \in Nets, t \in Threads : ReadKernel(t, k, n) \/ ReadUser(t, k, n)
      PROVE  UNCHANGED <<peers, endpoint, owner>>
  BY <1>8 DEF NoDevice, NotFound, ReadKernel, ReadUser, ReadsFor, table
<1> QED BY <1>1, <1>2, <1>3, <1>4, <1>5, <1>6, <1>7, <1>8 DEF WGStep, Configures, wgVars

-----------------------------------------------------------------------------
(* The configuration file *)

\* A Config that is about to be written, or was, is whole and, unless a file was there
\* without a key, has the key of the file if there is a file; the editor only follows
\* the client.
ConfigInv ==
  /\ ConfigTypeOK
  /\ FileIsWhole
  /\ ~keyless /\ file # NoFile => file.key # NoKey
  /\ \A p \in Procs :
       /\ cpc[p] \in {"temp", "fill", "rename", "done"} =>
            conf[p] \in Saved /\ (~keyless /\ file # NoFile => conf[p].key = file.key)
       /\ cpc[p] \in {"temp", "fill", "rename"} => writes[p] # 0
       /\ cpc[p] = "rename" => temp[p] = conf[p]
       /\ cpc[p] = "done" => file # NoFile
  /\ cpc[Editor] \in {"read", "temp", "fill", "rename"} => file # NoFile
  /\ cpc[Editor] # "create"
  /\ cpc[Editor] = "stat" => call[Editor].fn = "UpdateConfig"

\* The steps on the configuration in a client with an editor.
ConfStep ==
  \/ \E p \in Procs : ConfigStep(p) \/ Abandon(p)
  \/ \E fn \in ConfigFns, port \in Ports \cup {NoPort} : CallConfig(Client, fn, port)
  \/ \E port \in Ports : CallConfig(Editor, "UpdateConfig", port)
  \/ CreateNewConfig(Client)

\* A saved configuration is a configuration, with a key.
LEMMA SavedIsConf ==
  /\ Saved \subseteq Conf
  /\ Empty \in Conf
  /\ NoFile \notin Saved /\ Torn \notin Saved
  /\ \A c \in Saved : c.key \in Privates /\ c.key # NoKey /\ c.port # NoPort
BY ConfigAssumption DEF Saved, Conf, Empty

\* apply keeps a key that is there, and what it returns can be saved.
LEMMA AppliedSaved ==
  ASSUME NEW port \in Ports \cup {NoPort}, NEW c \in Conf, NEW k \in Privates
  PROVE  /\ Applied(c, port, k) \in Saved
         /\ c.key # NoKey => Applied(c, port, k).key = c.key
BY ConfigAssumption DEF Applied, Saved, Conf

\* A file that there is can be read.
LEMMA FileIsConf ==
  ASSUME FileIsWhole, file # NoFile
  PROVE  file \in Conf /\ file # Torn
BY ConfigAssumption, SavedIsConf DEF FileIsWhole

LEMMA ConfigInitInv == ConfigInit => ConfigInv
<1> SUFFICES ASSUME ConfigInit PROVE ConfigInv
  OBVIOUS
<1>1. NoConfigCall \in [fn : ConfigFns, port : Ports \cup {NoPort}]
  BY DEF NoConfigCall, ConfigFns
<1>2. ConfigTypeOK
  BY <1>1, SavedIsConf, ConfigAssumption DEF ConfigInit, ConfigTypeOK, CPCs
<1>3. FileIsWhole /\ (~keyless /\ file # NoFile => file.key # NoKey)
  BY DEF ConfigInit, FileIsWhole
<1> QED BY <1>2, <1>3 DEF ConfigInit, ConfigInv, Procs

\* A Config is filled in and its writes begin, or the function is over.
LEMMA GoOnInv ==
  ASSUME ConfigInv, NEW p \in Procs, NEW c \in Saved, NEW n \in 0..2, GoOnToWrite(p, c, n),
         ~keyless /\ file # NoFile => c.key = file.key,
         (n = 0 \/ p = Editor) => file # NoFile
  PROVE  ConfigInv'
<1> USE DEF ConfigInv
<1>1. ConfigTypeOK'
  <2>1. NoConfigCall \in [fn : ConfigFns, port : Ports \cup {NoPort}]
    BY DEF NoConfigCall, ConfigFns
  <2> QED BY <2>1, SavedIsConf DEF GoOnToWrite, Goto, ConfigTypeOK, CPCs
<1>2. \A q \in Procs : q # p => /\ conf'[q] = conf[q] /\ writes'[q] = writes[q]
                                /\ call'[q] = call[q] /\ cpc'[q] = cpc[q]
  BY DEF GoOnToWrite, Goto, ConfigTypeOK
<1>3. /\ conf'[p] = c /\ writes'[p] = n
      /\ cpc'[p] = IF n = 0 THEN "done" ELSE "temp"
      /\ UNCHANGED <<file, temp, keyless>>
  BY DEF GoOnToWrite, Goto, ConfigTypeOK
<1> QED BY <1>1, <1>2, <1>3 DEF Procs, FileIsWhole

LEMMA AbandonInv ==
  ASSUME ConfigInv, NEW p \in Procs, Abandon(p)
  PROVE  ConfigInv'
<1> USE DEF ConfigInv
<1>1. NoConfigCall \in [fn : ConfigFns, port : Ports \cup {NoPort}]
  BY DEF NoConfigCall, ConfigFns
<1>2. ConfigTypeOK'
  BY <1>1, SavedIsConf DEF Abandon, Goto, ConfigTypeOK, CPCs
<1> QED BY <1>2 DEF Abandon, Goto, ConfigTypeOK, Procs, FileIsWhole

LEMMA CallInv ==
  ASSUME ConfigInv, NEW p \in Procs, NEW fn \in ConfigFns, NEW port \in Ports \cup {NoPort},
         p = Editor => fn = "UpdateConfig", CallConfig(p, fn, port)
  PROVE  ConfigInv'
<1> USE DEF ConfigInv
<1>1. ConfigTypeOK'
  BY SavedIsConf DEF CallConfig, Goto, ConfigTypeOK, CPCs
<1> QED BY <1>1 DEF CallConfig, Goto, ConfigTypeOK, Procs, FileIsWhole

\* What Rename puts in place has the key of the file it replaces; the first file is
\* the client's, while the editor has nothing to write.
LEMMA RenameInv ==
  ASSUME ConfigInv, NEW p \in Procs, Rename(p)
  PROVE  /\ ConfigInv'
         /\ ~keyless /\ file # NoFile => file'.key = file.key
         /\ file' \in Saved
<1> USE DEF ConfigInv
<1>1. file' = conf[p] /\ conf[p] \in Saved /\ conf' = conf /\ writes[p] \in 1..2
  BY DEF Rename, ConfigTypeOK
<1>2. /\ keyless' = keyless
      /\ ~keyless /\ file # NoFile => file'.key = file.key
  BY <1>1 DEF Rename
<1>3. ConfigTypeOK'
  <2>1. NoConfigCall \in [fn : ConfigFns, port : Ports \cup {NoPort}]
    BY DEF NoConfigCall, ConfigFns
  <2>2. writes' \in [Procs -> 0..2]
    BY <1>1 DEF Rename, ConfigTypeOK
  <2> QED BY <1>1, <2>1, <2>2, SavedIsConf DEF Rename, Goto, ConfigTypeOK, CPCs
<1>4. FileIsWhole' /\ file' # NoFile /\ file'.key # NoKey
  BY <1>1, SavedIsConf DEF FileIsWhole
<1>5. ASSUME NEW q \in Procs, cpc'[q] \in {"temp", "fill", "rename", "done"}
      PROVE  conf'[q] \in Saved /\ (~keyless => conf'[q].key = file'.key)
  <2>1. CASE q = p
    BY <1>1, <2>1
  <2>2. CASE q # p
    <3>1. cpc'[q] = cpc[q]
      BY <2>2 DEF Rename, Goto, ConfigTypeOK
    <3>2. file # NoFile
      BY <1>5, <2>2, <3>1 DEF Rename, Procs
    <3> QED BY <1>1, <1>2, <1>5, <3>1, <3>2
  <2> QED BY <2>1, <2>2
<1>6. ASSUME NEW q \in Procs
      PROVE  /\ cpc'[q] \in {"temp", "fill", "rename"} => writes'[q] # 0
             /\ cpc'[q] = "rename" => temp'[q] = conf'[q]
  <2>1. CASE q = p
    BY <1>1, <2>1 DEF Rename, Goto, ConfigTypeOK
  <2>2. CASE q # p
    BY <2>2 DEF Rename, Goto, ConfigTypeOK
  <2> QED BY <2>1, <2>2
<1>7. cpc'[Editor] # "create" /\ (cpc'[Editor] = "stat" => call'[Editor].fn = "UpdateConfig")
  BY DEF Rename, Goto, ConfigTypeOK, Procs
<1> QED BY <1>1, <1>2, <1>3, <1>4, <1>5, <1>6, <1>7

\* Every step keeps the invariant, and with it the key of the file.
LEMMA ConfStepInv ==
  ASSUME ConfigInv, ConfStep \/ UNCHANGED configVars
  PROVE  /\ ConfigInv'
         /\ ~keyless /\ file \in Conf => file' \in Conf /\ file'.key = file.key
         /\ keyless' = keyless
<1> USE DEF ConfigInv
<1>1. ASSUME NEW p \in Procs, StatFile(p) PROVE ConfigInv' /\ UNCHANGED <<file, keyless>>
  <2>1. CASE file = NoFile /\ call[p].fn = "UpdateConfig"
    BY <1>1, <2>1, AbandonInv DEF StatFile, Abandon
  <2>2. CASE ~(file = NoFile /\ call[p].fn = "UpdateConfig")
    <3>1. /\ cpc' = [cpc EXCEPT ![p] = IF file = NoFile THEN "create" ELSE "read"]
          /\ UNCHANGED <<file, temp, call, conf, writes, keyless>>
          /\ cpc[p] = "stat"
      BY <1>1, <2>2 DEF StatFile, Goto
    <3>2. ConfigTypeOK'
      BY <3>1 DEF ConfigTypeOK, CPCs
    <3>3. p = Editor => file # NoFile
      BY <2>2, <3>1
    <3> QED BY <3>1, <3>2, <3>3 DEF ConfigTypeOK, Procs, FileIsWhole
  <2> QED BY <2>1, <2>2
<1>2. ASSUME NEW p \in Procs, UpdateRead(p) PROVE ConfigInv' /\ UNCHANGED <<file, keyless>>
  <2>1. file \in Conf /\ file # NoFile
    BY <1>2, ConfigAssumption DEF UpdateRead
  <2>2. call[p].port \in Ports \cup {NoPort}
    BY DEF ConfigTypeOK
  <2>3. PICK k \in Privates :
          LET c == Applied(file, call[p].port, k)
          IN  GoOnToWrite(p, c, IF c = file THEN 0 ELSE 1)
    BY <1>2 DEF UpdateRead
  <2> DEFINE c == Applied(file, call[p].port, k)
             n == IF c = file THEN 0 ELSE 1
  <2>4. c \in Saved /\ (file.key # NoKey => c.key = file.key)
    BY <2>1, <2>2, AppliedSaved
  <2>5. GoOnToWrite(p, c, n)
    BY <2>3
  <2>6. n \in 0..2
    OBVIOUS
  <2> HIDE DEF c, n
  <2> QED BY <2>1, <2>4, <2>5, <2>6, GoOnInv DEF GoOnToWrite
<1>3. ASSUME NEW p \in Procs, CreateTemp(p) PROVE ConfigInv' /\ UNCHANGED <<file, keyless>>
  <2>1. ConfigTypeOK'
    BY <1>3 DEF CreateTemp, Goto, ConfigTypeOK, CPCs
  <2> QED BY <1>3, <2>1 DEF CreateTemp, Goto, ConfigTypeOK, Procs, FileIsWhole
<1>4. ASSUME NEW p \in Procs, WriteFile(p) PROVE ConfigInv' /\ UNCHANGED <<file, keyless>>
  <2>1. ConfigTypeOK'
    BY <1>4 DEF WriteFile, Goto, ConfigTypeOK, CPCs
  <2> QED BY <1>4, <2>1 DEF WriteFile, Goto, ConfigTypeOK, Procs, FileIsWhole
<1>5. ASSUME CreateNewConfig(Client) PROVE ConfigInv' /\ UNCHANGED <<file, keyless>>
  <2>0. Client \in Procs /\ Client # Editor /\ call[Client].port \in Ports \cup {NoPort}
    BY ConfigAssumption DEF Procs, ConfigTypeOK
  <2>1. WritesAgain(Client) \in 0..1
    BY DEF WritesAgain
  <2>2. PICK k \in Privates :
          IF file = NoFile
          THEN GoOnToWrite(Client, Applied(Empty, call[Client].port, k), 1 + WritesAgain(Client))
          ELSE GoOnToWrite(Client, Applied(file, call[Client].port, k), WritesAgain(Client))
    BY <1>5 DEF CreateNewConfig
  <2>3. CASE file = NoFile
    <3>1. Applied(Empty, call[Client].port, k) \in Saved
      BY <2>0, AppliedSaved, SavedIsConf
    <3>2. 1 + WritesAgain(Client) \in 0..2 /\ 1 + WritesAgain(Client) # 0
      BY <2>1
    <3> QED BY <2>0, <2>2, <2>3, <3>1, <3>2, GoOnInv DEF GoOnToWrite
  <2>4. CASE file # NoFile
    <3>1. file \in Conf
      BY <2>4, FileIsConf
    <3>2. /\ Applied(file, call[Client].port, k) \in Saved
          /\ file.key # NoKey => Applied(file, call[Client].port, k).key = file.key
      BY <2>0, <3>1, AppliedSaved
    <3>3. WritesAgain(Client) \in 0..2
      BY <2>1
    <3> QED BY <2>0, <2>2, <2>4, <3>2, <3>3, GoOnInv DEF GoOnToWrite
  <2> QED BY <2>3, <2>4
<1>6. ASSUME NEW p \in Procs, Rename(p)
      PROVE  ConfigInv' /\ keyless' = keyless
             /\ (~keyless /\ file \in Conf => file' \in Conf /\ file'.key = file.key)
  BY <1>6, RenameInv, SavedIsConf, ConfigAssumption DEF Rename
<1>7. ASSUME NEW p \in Procs, Abandon(p) PROVE ConfigInv' /\ UNCHANGED <<file, keyless>>
  BY <1>7, AbandonInv DEF Abandon
<1>8. ASSUME NEW fn \in ConfigFns, NEW port \in Ports \cup {NoPort}, CallConfig(Client, fn, port)
      PROVE  ConfigInv' /\ UNCHANGED <<file, keyless>>
  BY <1>8, CallInv, ConfigAssumption DEF CallConfig, Procs
<1>9. ASSUME NEW port \in Ports, CallConfig(Editor, "UpdateConfig", port) PROVE ConfigInv' /\ UNCHANGED <<file, keyless>>
  BY <1>9, CallInv DEF CallConfig, Procs, ConfigFns
<1>10. ASSUME UNCHANGED configVars PROVE ConfigInv' /\ UNCHANGED <<file, keyless>>
  BY <1>10 DEF configVars, ConfigTypeOK, FileIsWhole
<1> QED BY <1>1, <1>2, <1>3, <1>4, <1>5, <1>6, <1>7, <1>8, <1>9, <1>10 DEF ConfStep, ConfigStep

-----------------------------------------------------------------------------
(* The choice of a device *)

\* While the kernel has WireGuard the search cannot get past isModuleEnabled.
ModulesInv ==
  /\ ModulesTypeOK
  /\ mpc \in {"check", "finit"} => toLoad # <<>>
  /\ usable => Present("wireguard")
  /\ usable /\ ~host.disabled => \/ mpc \in {"off", "fake"}
                                 \/ mpc = "enabled" /\ target = "wireguard"
                                 \/ mpc = "done" /\ kind = "kernel"

\* The steps of NewWGIFace and of other processes.
ModulesStep ==
  \/ BeginProbe \/ ProbeStep \/ ProbeTrouble \/ ProbeOver
  \/ \E m \in Modules : OtherLoads(m) \/ OtherLoaded(m) \/ OtherUnloads(m) \/ OtherUnloaded(m)

\* A probe that has not begun has chosen nothing.
LEMMA ModulesInitInv == ModulesInit => ModulesInv
<1> SUFFICES ASSUME ModulesInit PROVE ModulesInv
  OBVIOUS
<1>1. status \in [Modules -> Statuses]
  BY DEF ModulesInit, Statuses
<1>2. target \in Modules /\ toLoad \in Seq(Modules)
  BY ModulesAssumption, EmptySeq DEF ModulesInit
<1>3. /\ host \in Hosts /\ mpc = "off" /\ kind = "none"
      /\ usable = FALSE
  BY DEF ModulesInit
<1> QED BY <1>1, <1>2, <1>3 DEF ModulesInv, ModulesTypeOK

\* A list that is not empty and not of one element has a tail that is not empty.
LEMMA LongList ==
  ASSUME NEW S, NEW q \in Seq(S), q # <<>>, Len(q) # 1
  PROVE  Tail(q) \in Seq(S) /\ Tail(q) # <<>>
<1>1. Len(q) \in Nat \ {0}
  BY EmptySeq, Zenon
<1>2. Tail(q) \in Seq(S) /\ Len(Tail(q)) = Len(q) - 1
  BY HeadTailProperties, Zenon
<1>3. \A n \in Nat \ {0} : n # 1 => n - 1 # 0
  OBVIOUS
<1>4. Len(Tail(q)) # 0
  BY <1>1, <1>2, <1>3, Zenon
<1>5. Len(<<>>) = 0
  BY EmptySeq, Zenon
<1>6. ASSUME Tail(q) = <<>> PROVE FALSE
  BY <1>4, <1>5, <1>6, Zenon
<1> QED BY <1>2, <1>6

\* One module more is loaded, or none is left.
LEMMA NextToLoadType ==
  ASSUME ModulesInv, toLoad # <<>>, NextToLoad
  PROVE  /\ toLoad' \in Seq(Modules)
         /\ kind' \in {"none", "kernel", "user"}
         /\ mpc' \in {"done", "check"}
         /\ mpc' = "check" => toLoad' # <<>>
<1>1. toLoad \in Seq(Modules)
  BY DEF ModulesInv, ModulesTypeOK
<1>2. CASE Len(toLoad) = 1
  BY <1>2 DEF NextToLoad, Found
<1>3. CASE Len(toLoad) # 1
  <2>1. toLoad' = Tail(toLoad) /\ mpc' = "check" /\ UNCHANGED kind
    BY <1>3 DEF NextToLoad
  <2>2. Tail(toLoad) \in Seq(Modules) /\ Tail(toLoad) # <<>>
    BY <1>1, <1>3, LongList
  <2> QED BY <2>1, <2>2 DEF ModulesInv, ModulesTypeOK
<1> QED BY <1>2, <1>3

\* Every step keeps the invariant.
LEMMA ModulesStepInv ==
  ASSUME ModulesInv, ModulesStep \/ UNCHANGED moduleVars
  PROVE  ModulesInv'
<1> USE DEF ModulesInv
<1>1. CASE UNCHANGED moduleVars
  BY <1>1 DEF moduleVars, ModulesTypeOK, Present
<1>2. CASE BeginProbe
  BY <1>2 DEF BeginProbe, ModulesTypeOK, Present
<1>3. CASE FakeLink
  <2>1. status' \in [Modules -> Statuses]
    BY <1>3 DEF FakeLink, LoadedAll, ModulesTypeOK, Statuses
  <2>2. kind' = "kernel" /\ mpc' = "done" /\ toLoad' = <<>> /\ UNCHANGED <<host, target, usable>>
    BY <1>3 DEF FakeLink, Found
  <2>3. ModulesTypeOK'
    BY <2>1, <2>2 DEF ModulesTypeOK
  <2>4. Present("wireguard") => UNCHANGED status
    BY <1>3 DEF FakeLink
  <2> QED BY <2>2, <2>3, <2>4 DEF Present
<1>4. CASE NoFakeLink \/ FakeLinkRefused
  BY <1>4, ModulesAssumption DEF NoFakeLink, FakeLinkRefused, ModulesTypeOK, Present
<1>5. CASE IsModuleEnabled
  <2>1. usable /\ ~host.disabled => target = "wireguard" /\ Enabled("wireguard")
    BY <1>5 DEF IsModuleEnabled, Enabled, IsBuiltinModule, Present
  <2>2. UNCHANGED <<host, status, target, usable>>
    BY <1>5 DEF IsModuleEnabled
  <2>3. CASE Enabled(target)
    <3>1. kind' = (IF target = "wireguard" THEN "kernel" ELSE "user") /\ mpc' = "done" /\ toLoad' = <<>>
      BY <1>5, <2>3 DEF IsModuleEnabled, Found
    <3> QED BY <2>1, <2>2, <3>1 DEF ModulesTypeOK, Present
  <2>4. CASE ~Enabled(target)
    <3>1. mpc' = "path" /\ UNCHANGED <<toLoad, kind>>
      BY <1>5, <2>4 DEF IsModuleEnabled
    <3> QED BY <2>1, <2>2, <2>4, <3>1 DEF ModulesTypeOK, Present
  <2> QED BY <2>3, <2>4
<1>6. CASE EnabledUnreadable
  BY <1>6 DEF EnabledUnreadable, ModulesTypeOK
<1>7. CASE GetModulePath
  <2>1. Append(Listed[target], target) \in Seq(Modules) /\ Append(Listed[target], target) # <<>>
    BY AppendProperties, ModulesAssumption DEF ModulesTypeOK
  <2>2. UNCHANGED <<host, status, target, usable>> /\ mpc = "path"
    BY <1>7 DEF GetModulePath
  <2>3. CASE target \in host.files
    <3>1. toLoad' = Append(Listed[target], target) /\ mpc' = "check" /\ UNCHANGED kind
      BY <1>7, <2>3 DEF GetModulePath, GetModuleDependencies
    <3> QED BY <2>1, <2>2, <3>1 DEF ModulesTypeOK, Present
  <2>4. CASE target \notin host.files
    BY <1>7, <2>2, <2>4 DEF GetModulePath, Missing, ModulesTypeOK, Present
  <2> QED BY <2>3, <2>4
<1>8. CASE ListsUnreadable
  BY <1>8 DEF ListsUnreadable, Missing, ModulesTypeOK, Present
<1>9. CASE LoadModule
  <2>1. UNCHANGED <<host, status, target, usable>> /\ mpc = "check" /\ toLoad # <<>>
    BY <1>9 DEF LoadModule
  <2>2. \/ NextToLoad
        \/ mpc' = "finit" /\ UNCHANGED <<toLoad, kind>>
    BY <1>9 DEF LoadModule
  <2>3. CASE NextToLoad
    BY <2>1, <2>3, NextToLoadType DEF ModulesTypeOK, Present
  <2>4. CASE mpc' = "finit" /\ UNCHANGED <<toLoad, kind>>
    BY <2>1, <2>4 DEF ModulesTypeOK, Present
  <2> QED BY <2>2, <2>3, <2>4
<1>10. CASE FinitModule
  <2>1. UNCHANGED <<host, target, usable>> /\ mpc = "finit" /\ toLoad # <<>> /\ Head(toLoad) \in Modules
    BY <1>10 DEF FinitModule, ModulesTypeOK
  <2>2. \/ status' = [status EXCEPT ![Head(toLoad)] = "live"] /\ NextToLoad
        \/ UNCHANGED status /\ Missing(target)
    BY <1>10 DEF FinitModule
  <2>3. CASE status' = [status EXCEPT ![Head(toLoad)] = "live"] /\ NextToLoad
    <3>1. status' \in [Modules -> Statuses] /\ (Present("wireguard") => Present("wireguard")')
      BY <2>1, <2>3, ModulesAssumption DEF ModulesTypeOK, Statuses, Present
    <3> QED BY <2>1, <2>3, <3>1, NextToLoadType DEF ModulesTypeOK
  <2>4. CASE UNCHANGED status /\ Missing(target)
    BY <2>1, <2>4 DEF Missing, ModulesTypeOK, Present
  <2> QED BY <2>2, <2>3, <2>4
<1>11. CASE TunModule
  <2>1. UNCHANGED <<host, status, usable>> /\ mpc = "tun"
    BY <1>11 DEF TunModule
  <2>2. CASE host.tun
    BY <1>11, <2>1, <2>2 DEF TunModule, Found, ModulesTypeOK, Present
  <2>3. CASE ~host.tun
    BY <1>11, <2>1, <2>3, ModulesAssumption DEF TunModule, ModulesTypeOK, Present
  <2> QED BY <2>2, <2>3
<1>12. CASE ProbeOver
  <2>1. target' \in Modules /\ toLoad' \in Seq(Modules)
    BY <1>12, ModulesAssumption, EmptySeq DEF ProbeOver
  <2>2. /\ UNCHANGED <<host, status>> /\ mpc' = "off" /\ kind' = "none"
        /\ usable' = FALSE
    BY <1>12 DEF ProbeOver
  <2> QED BY <2>1, <2>2 DEF ModulesTypeOK
<1>13. ASSUME NEW m \in Modules,
              OtherLoads(m) \/ OtherLoaded(m) \/ OtherUnloads(m) \/ OtherUnloaded(m)
       PROVE  ModulesInv'
  <2>1. status' \in [Modules -> Statuses] /\ UNCHANGED <<host, mpc, target, toLoad, kind>>
    BY <1>13 DEF OtherLoads, OtherLoaded, OtherUnloads, OtherUnloaded, ModulesTypeOK, Statuses
  <2>2. usable' \in BOOLEAN
    BY <1>13, Zenon DEF OtherLoads, OtherLoaded, OtherUnloads, OtherUnloaded, ModulesTypeOK
  <2>3. usable' => usable
    BY <1>13, Zenon DEF OtherLoads, OtherLoaded, OtherUnloads, OtherUnloaded
  <2>4. "wireguard" \in Modules /\ status \in [Modules -> Statuses] /\ host' = host
    BY <2>1, ModulesAssumption, Zenon DEF ModulesTypeOK
  <2>5. status["wireguard"] = "live" /\ usable' => status'["wireguard"] = "live"
    <3>1. CASE OtherLoads(m) \/ OtherLoaded(m) \/ OtherUnloaded(m)
      <4>1. status["wireguard"] = "live" => m # "wireguard"
        BY <3>1 DEF OtherLoads, OtherLoaded, OtherUnloaded
      <4> QED BY <2>4, <3>1, <4>1 DEF OtherLoads, OtherLoaded, OtherUnloaded
    <3>2. CASE OtherUnloads(m)
      <4>1. usable' => m # "wireguard"
        BY <3>2, Zenon DEF OtherUnloads
      <4>2. status' = [status EXCEPT ![m] = "unloading"]
        BY <3>2 DEF OtherUnloads
      <4>3. m # "wireguard" => status'["wireguard"] = status["wireguard"]
        BY <2>4, <4>2
      <4> QED BY <4>1, <4>3, Zenon
    <3> QED BY <1>13, <3>1, <3>2
  <2>6. usable' => Present("wireguard")'
    BY <2>3, <2>4, <2>5, Zenon DEF Present
  <2> QED BY <2>1, <2>2, <2>3, <2>6 DEF ModulesTypeOK
<1> QED BY <1>1, <1>2, <1>3, <1>4, <1>5, <1>6, <1>7, <1>8, <1>9, <1>10, <1>11, <1>12, <1>13
        DEF ModulesStep, ProbeStep, ProbeTrouble

\* modules.dep does not list wireguard for tun.
TunWithoutWireGuard == Listed["tun"] \in Seq(Modules \ {"wireguard"})

\* Where the environment disables the kernel's WireGuard, NewWGIFace looks for tun
\* only and loads nothing else.
DisabledInv ==
  host.disabled /\ mpc # "off" =>
    /\ mpc # "fake" /\ kind # "kernel"
    /\ mpc \in {"enabled", "path", "check", "finit"} => target = "tun"
    /\ mpc \in {"check", "finit"} => toLoad \in Seq(Modules \ {"wireguard"})

\* What DisabledIsLeftAlone says of a step.
LeavesAlone ==
  host.disabled /\ mpc # "off" =>
    kind' # "kernel" /\ (status["wireguard"] = "unloaded" => status'["wireguard"] # "live")

\* The next of the modules that tun needs, or tun itself, is found.
LEMMA NextToLoadOther ==
  ASSUME toLoad # <<>>, toLoad \in Seq(Modules \ {"wireguard"}), target = "tun", kind # "kernel", NextToLoad
  PROVE  /\ kind' # "kernel" /\ mpc' \in {"done", "check"}
         /\ mpc' = "check" => toLoad' \in Seq(Modules \ {"wireguard"})
<1>1. CASE Len(toLoad) = 1
  BY <1>1 DEF NextToLoad, Found
<1>2. CASE Len(toLoad) # 1
  <2>1. Tail(toLoad) \in Seq(Modules \ {"wireguard"})
    BY <1>2, LongList
  <2> QED BY <1>2, <2>1 DEF NextToLoad
<1> QED BY <1>1, <1>2

LEMMA DisabledStep ==
  ASSUME ModulesInv, DisabledInv, TunWithoutWireGuard, ModulesStep \/ UNCHANGED moduleVars
  PROVE  DisabledInv' /\ LeavesAlone
<1> USE DEF DisabledInv, LeavesAlone
<1>0. host' = host
  BY DEF ModulesStep, BeginProbe, ProbeStep, FakeLink, NoFakeLink, IsModuleEnabled, GetModulePath, LoadModule,
         FinitModule, TunModule, ProbeTrouble, FakeLinkRefused, EnabledUnreadable, ListsUnreadable,
         ProbeOver, OtherLoads, OtherLoaded, OtherUnloads, OtherUnloaded, moduleVars
<1>1. CASE ~host.disabled
  BY <1>0, <1>1
<1>2. CASE host.disabled /\ mpc = "off"
  <2>1. BeginProbe \/ UNCHANGED mpc \/ ProbeOver
    BY <1>2 DEF ModulesStep, ProbeStep, FakeLink, NoFakeLink, IsModuleEnabled, GetModulePath, LoadModule,
         FinitModule, TunModule, ProbeTrouble, FakeLinkRefused, EnabledUnreadable, ListsUnreadable,
         OtherLoads, OtherLoaded, OtherUnloads, OtherUnloaded, moduleVars
  <2> QED BY <1>0, <1>2, <2>1 DEF BeginProbe, ProbeOver
<1>3. CASE host.disabled /\ mpc # "off"
  <2> USE <1>0, <1>3
  <2>1. CASE UNCHANGED moduleVars
    BY <2>1 DEF moduleVars
  <2>2. ~BeginProbe /\ ~FakeLink /\ ~NoFakeLink /\ ~FakeLinkRefused
    BY DEF BeginProbe, FakeLink, NoFakeLink, FakeLinkRefused
  <2>3. CASE IsModuleEnabled \/ EnabledUnreadable
    BY <2>3 DEF IsModuleEnabled, EnabledUnreadable, Found
  <2>4. CASE GetModulePath
    <3>1. target = "tun" /\ UNCHANGED <<status, target>>
      BY <2>4 DEF GetModulePath
    <3>2. CASE target \in host.files
      <4>1. toLoad' = Append(Listed["tun"], "tun") /\ mpc' = "check" /\ UNCHANGED kind
        BY <2>4, <3>1, <3>2 DEF GetModulePath, GetModuleDependencies
      <4>2. Append(Listed["tun"], "tun") \in Seq(Modules \ {"wireguard"})
        BY ModulesAssumption, AppendProperties DEF TunWithoutWireGuard
      <4> QED BY <3>1, <4>1, <4>2
    <3>3. CASE target \notin host.files
      BY <2>4, <3>1, <3>3 DEF GetModulePath, Missing
    <3> QED BY <3>2, <3>3
  <2>5. CASE ListsUnreadable
    BY <2>5 DEF ListsUnreadable, Missing
  <2>6. CASE LoadModule
    <3>1. mpc = "check" /\ UNCHANGED <<status, target>> /\ target = "tun" /\ toLoad # <<>>
      BY <2>6 DEF LoadModule, ModulesInv
    <3>2. NextToLoad \/ (mpc' = "finit" /\ UNCHANGED <<toLoad, kind>>)
      BY <2>6 DEF LoadModule
    <3>3. CASE NextToLoad
      BY <3>1, <3>3, NextToLoadOther
    <3>4. CASE mpc' = "finit" /\ UNCHANGED <<toLoad, kind>>
      BY <3>1, <3>4
    <3> QED BY <3>2, <3>3, <3>4
  <2>7. CASE FinitModule
    <3>1. mpc = "finit" /\ UNCHANGED target /\ target = "tun" /\ toLoad # <<>>
      BY <2>7 DEF FinitModule, ModulesInv
    <3>2. toLoad \in Seq(Modules \ {"wireguard"})
      BY <3>1
    <3>3. Head(toLoad) \in Modules \ {"wireguard"}
      BY <3>1, <3>2, HeadTailProperties
    <3>4. \/ status' = [status EXCEPT ![Head(toLoad)] = "live"] /\ NextToLoad
          \/ UNCHANGED status /\ Missing(target)
      BY <2>7 DEF FinitModule
    <3>5. CASE status' = [status EXCEPT ![Head(toLoad)] = "live"] /\ NextToLoad
      <4>1. status'["wireguard"] = status["wireguard"]
        BY <3>3, <3>5, ModulesAssumption DEF ModulesInv, ModulesTypeOK
      <4> QED BY <3>1, <3>2, <3>5, <4>1, NextToLoadOther
    <3>6. CASE UNCHANGED status /\ Missing(target)
      BY <3>1, <3>6 DEF Missing
    <3> QED BY <3>4, <3>5, <3>6
  <2>8. CASE TunModule
    BY <2>8 DEF TunModule, Found
  <2>9. CASE ProbeOver
    BY <2>9 DEF ProbeOver
  <2>10. ASSUME NEW m \in Modules,
                OtherLoads(m) \/ OtherLoaded(m) \/ OtherUnloads(m) \/ OtherUnloaded(m)
         PROVE  DisabledInv' /\ LeavesAlone
    <3>1. UNCHANGED <<host, mpc, target, toLoad, kind>>
      BY <2>10 DEF OtherLoads, OtherLoaded, OtherUnloads, OtherUnloaded
    <3>2. status["wireguard"] = "unloaded" => status'["wireguard"] # "live"
      BY <2>10, ModulesAssumption
      DEF OtherLoads, OtherLoaded, OtherUnloads, OtherUnloaded, ModulesInv, ModulesTypeOK
    <3> QED BY <3>1, <3>2
  <2> QED BY <2>1, <2>2, <2>3, <2>4, <2>5, <2>6, <2>7, <2>8, <2>9, <2>10
          DEF ModulesStep, ProbeStep, ProbeTrouble
<1> QED BY <1>1, <1>2, <1>3

-----------------------------------------------------------------------------
(* The client *)

\* An attempt is made only with a Config, whose key an interface then has.
SetupInv ==
  /\ running \in BOOLEAN /\ troubles \in 0..MaxTroubles
  /\ mpc # "off" \/ running => cpc[Client] = "done"
  /\ DeviceKeyIsSaved

Inv == ConfigInv /\ ModulesInv /\ WGInv /\ SetupInv

\* A step of the client is a step of each component, or leaves it alone.
LEMMA Components ==
  ASSUME Inv, [Next]_vars
  PROVE  /\ ConfStep \/ UNCHANGED configVars
         /\ ModulesStep \/ UNCHANGED moduleVars
         /\ WGStep \/ UNCHANGED wgVars
<1> USE DEF ConfStep, ModulesStep, WGStep
<1>1. CASE UNCHANGED vars
  BY <1>1 DEF vars
<1>2. CASE MainCalls
  BY <1>2 DEF MainCalls
<1>3. CASE ConfigGoesOn \/ ConfigTrouble \/ EditorGoesOn \/ EditorTrouble \/ EditorCalls
  BY <1>3 DEF ConfigGoesOn, ConfigTrouble, EditorGoesOn, EditorTrouble, EditorCalls,
              ConfigFails, ReadFails, WriteFails, EditorReturns, Procs
<1>4. CASE NewWGIFace \/ ProbeGoesOn \/ ProbeFails
  BY <1>4 DEF NewWGIFace, ProbeGoesOn, ProbeFails
<1>5. CASE Create
  <2>1. conf[Client].key \in DeviceKeys \cup {None}
    BY SetupAssumption DEF Inv, ConfigInv, ConfigTypeOK, Procs, Saved, Empty
  <2> QED BY <1>5, <2>1 DEF Create
<1>6. CASE CreateImpossible \/ CreateTrouble \/ Close
  BY <1>6 DEF CreateImpossible, CreateTrouble, Close
<1>7. CASE Use \/ PeerRoams \/ LinkIsDeleted
  BY <1>7 DEF Use, PeerRoams, LinkIsDeleted
<1>8. CASE OthersStart \/ OthersEnd
  BY <1>8, ModulesAssumption DEF OthersStart, OthersEnd
<1>9. CASE Crash
  BY <1>9 DEF Crash, Procs
<1> QED BY <1>1, <1>2, <1>3, <1>4, <1>5, <1>6, <1>7, <1>8, <1>9 DEF Next, Setup

\* Each component's invariant is kept, the table of peers is followed, and the key of
\* the file stays.
LEMMA ComponentsInv ==
  ASSUME Inv, [Next]_vars
  PROVE  /\ ConfigInv' /\ ModulesInv' /\ WGInv'
         /\ [PT!Next]_(PT!vars)
         /\ ~keyless /\ file \in Conf => file' \in Conf /\ file'.key = file.key
         /\ keyless' = keyless
<1>1. /\ ConfStep \/ UNCHANGED configVars
      /\ ModulesStep \/ UNCHANGED moduleVars
      /\ WGStep \/ UNCHANGED wgVars
  BY Components
<1>2. ConfigInv' /\ keyless' = keyless /\ (~keyless /\ file \in Conf => file' \in Conf /\ file'.key = file.key)
  BY <1>1, ConfStepInv DEF Inv
<1>3. ModulesInv'
  BY <1>1, ModulesStepInv DEF Inv
<1>4. WGInv' /\ [PT!Next]_(PT!vars)
  BY <1>1, WGStepInv, WGStepTable DEF Inv
<1> QED BY <1>2, <1>3, <1>4

\* A step other than Create keeps the key of the interface, or takes it away.
LEMMA PrivateStays ==
  ASSUME Inv, [Next]_vars, ~Create
  PROVE  (private' = private /\ link' = link) \/ private' = None
<1>1. CASE UNCHANGED wgVars
  BY <1>1 DEF wgVars
<1>2. CASE CreateTrouble \/ Close \/ LinkIsDeleted \/ Crash \/ OthersStart
  BY <1>2 DEF CreateTrouble, CreateKernelFails, Close, CloseLink, LinkIsDeleted, LinkDeleted,
              Crash, ProcessEnds, OthersStart, Gone, wgVars
<1>3. CASE Use
  BY <1>3 DEF Use, Configures, NoDevice, RemovePeer, NotFound, UpdatePeer, AddAllowedIP,
              ReadKernel, ReadUser, ReadsFor, RemoveAllowedIP, OneCall
<1>4. CASE PeerRoams
  BY <1>4 DEF PeerRoams, Roams
<1>5. CASE MainCalls \/ ConfigGoesOn \/ ConfigTrouble \/ EditorCalls \/ EditorGoesOn \/ EditorTrouble
  BY <1>1, <1>5 DEF MainCalls, ConfigGoesOn, ConfigTrouble, EditorCalls, EditorGoesOn, EditorTrouble
<1>6. CASE NewWGIFace \/ ProbeGoesOn \/ ProbeFails \/ CreateImpossible \/ OthersEnd \/ UNCHANGED vars
  BY <1>1, <1>6 DEF NewWGIFace, ProbeGoesOn, ProbeFails, CreateImpossible, OthersEnd, vars
<1> QED BY <1>2, <1>3, <1>4, <1>5, <1>6 DEF Next, Setup

\* The client's configuration is complete as long as it makes attempts.
LEMMA AttemptsHaveConfig ==
  ASSUME Inv, [Next]_vars
  PROVE  mpc' # "off" \/ running' => cpc'[Client] = "done"
<1> USE DEF Inv, SetupInv
<1>0. Client \in Procs /\ Editor \in Procs /\ Client # Editor /\ cpc \in [Procs -> CPCs]
  BY ConfigAssumption DEF Procs, ConfigInv, ConfigTypeOK
<1>1. CASE UNCHANGED vars
  BY <1>1 DEF vars, configVars, moduleVars
<1>2. CASE MainCalls \/ ConfigGoesOn \/ ConfigTrouble
  <2>1. cpc[Client] # "done"
    BY <1>2 DEF MainCalls, CallConfig, ConfigGoesOn, ConfigStep, CreateNewConfig, StatFile, UpdateRead,
                CreateTemp, WriteFile, Rename, ConfigTrouble, ConfigFails, ReadFails, WriteFails
  <2>2. UNCHANGED <<mpc, running>>
    BY <1>2 DEF MainCalls, ConfigGoesOn, ConfigTrouble, moduleVars
  <2> QED BY <2>1, <2>2
<1>3. CASE EditorCalls \/ EditorGoesOn \/ EditorTrouble
  <2>1. UNCHANGED <<mpc, running>>
    BY <1>3 DEF EditorCalls, EditorGoesOn, EditorTrouble, moduleVars
  <2>2. \E where \in CPCs : Goto(Editor, where)
    BY <1>3 DEF EditorCalls, CallConfig, EditorGoesOn, EditorReturns, ConfigStep, StatFile, UpdateRead,
                GoOnToWrite, CreateTemp, WriteFile, Rename, EditorTrouble, ConfigFails, ReadFails,
                WriteFails, Abandon, CPCs
  <2>3. cpc'[Client] = cpc[Client]
    BY <1>0, <2>2 DEF Goto
  <2> QED BY <2>1, <2>3
<1>4. CASE NewWGIFace \/ ProbeGoesOn \/ ProbeFails
  <2>1. cpc[Client] = "done"
    BY <1>4 DEF NewWGIFace, ProbeGoesOn, ProbeStep, FakeLink, NoFakeLink, IsModuleEnabled, GetModulePath,
                LoadModule, FinitModule, TunModule, ProbeFails, ProbeTrouble, FakeLinkRefused,
                EnabledUnreadable, ListsUnreadable
  <2>2. cpc' = cpc
    BY <1>4 DEF NewWGIFace, ProbeGoesOn, ProbeFails, configVars
  <2> QED BY <2>1, <2>2
<1>5. CASE Create \/ CreateImpossible \/ CreateTrouble \/ Close
  BY <1>5 DEF Create, CreateImpossible, CreateTrouble, Close, configVars
<1>6. CASE Use \/ PeerRoams \/ LinkIsDeleted
  BY <1>6 DEF Use, PeerRoams, LinkIsDeleted, configVars, moduleVars
<1>7. CASE OthersStart \/ OthersEnd
  BY <1>7 DEF OthersStart, OthersEnd, OtherLoads, OtherLoaded, OtherUnloads, OtherUnloaded, configVars
<1>8. CASE Crash
  BY <1>8 DEF Crash, ProbeOver
<1> QED BY <1>1, <1>2, <1>3, <1>4, <1>5, <1>6, <1>7, <1>8 DEF Next, Setup

\* The counters of the client.
LEMMA CountersType ==
  ASSUME Inv, [Next]_vars
  PROVE  running' \in BOOLEAN /\ troubles' \in 0..MaxTroubles
<1>1. running \in BOOLEAN /\ troubles \in 0..MaxTroubles
  BY DEF Inv, SetupInv
<1>2. Trouble \/ UNCHANGED troubles
  BY DEF Next, Setup, MainCalls, ConfigGoesOn, NewWGIFace, ProbeGoesOn, Create, CreateImpossible,
         ConfigTrouble, ProbeFails, CreateTrouble, Close, Crash, EditorCalls, EditorGoesOn,
         EditorTrouble, Use, PeerRoams, LinkIsDeleted, OthersStart, OthersEnd, vars
<1>3. running' = TRUE \/ running' = FALSE \/ UNCHANGED running
  BY DEF Next, Setup, MainCalls, ConfigGoesOn, NewWGIFace, ProbeGoesOn, Create, CreateImpossible,
         ConfigTrouble, ProbeFails, CreateTrouble, Close, Crash, EditorCalls, EditorGoesOn,
         EditorTrouble, Use, PeerRoams, LinkIsDeleted, OthersStart, OthersEnd, vars
<1>4. troubles' \in 0..MaxTroubles
  BY <1>1, <1>2, SetupAssumption DEF Trouble
<1>5. running' \in BOOLEAN
  BY <1>1, <1>3, Zenon
<1> QED BY <1>4, <1>5

\* What DeviceKeyIsSaved says where the file had a key.
KeySaved == link # "none" /\ private # None => file \in Conf /\ file.key = private

\* The initial states satisfy the invariant.
LEMMA InitInv == Init => Inv
<1> SUFFICES ASSUME Init PROVE Inv
  OBVIOUS
<1>1. ConfigInv /\ ModulesInv /\ WGInv
  BY ConfigInitInv, ModulesInitInv, WGInitInv DEF Init
<1>2. running = FALSE /\ mpc = "off" /\ link = "none"
  BY DEF Init, ModulesInit, WGInit
<1>3. troubles \in 0..MaxTroubles
  BY SetupAssumption DEF Init
<1> QED BY <1>1, <1>2, <1>3 DEF Inv, SetupInv, DeviceKeyIsSaved

\* Every step keeps the invariant.
LEMMA NextInv == Inv /\ [Next]_vars => Inv'
<1> SUFFICES ASSUME Inv, [Next]_vars PROVE Inv'
  OBVIOUS
<1>1. ConfigInv' /\ ModulesInv' /\ WGInv'
  BY ComponentsInv
<1>2. /\ running' \in BOOLEAN /\ troubles' \in 0..MaxTroubles
      /\ mpc' # "off" \/ running' => cpc'[Client] = "done"
  BY CountersType, AttemptsHaveConfig
<1>3. DeviceKeyIsSaved'
  <2> SUFFICES ASSUME ~keyless' PROVE KeySaved'
    BY DEF DeviceKeyIsSaved, KeySaved
  <2>0. ~keyless /\ KeySaved
    BY ComponentsInv DEF Inv, SetupInv, DeviceKeyIsSaved, KeySaved
  <2>1. CASE Create
    <3>1. mpc # "off"
      BY <2>1 DEF Create
    <3>2. cpc[Client] = "done"
      BY <3>1 DEF Inv, SetupInv
    <3>3. conf[Client].key = file.key /\ file # NoFile /\ FileIsWhole
      BY <2>0, <3>2 DEF Inv, ConfigInv, Procs
    <3>4. file \in Conf
      BY <3>3, FileIsConf
    <3>5. private' = conf[Client].key /\ file' = file
      BY <2>1 DEF Create, CreateKernel, CreateUser, configVars
    <3> QED BY <3>3, <3>4, <3>5 DEF KeySaved
  <2>2. CASE ~Create
    <3>1. (private' = private /\ link' = link) \/ private' = None
      BY <2>2, PrivateStays
    <3>2. file \in Conf => file' \in Conf /\ file'.key = file.key
      BY <2>0, ComponentsInv
    <3> QED BY <2>0, <3>1, <3>2 DEF KeySaved
  <2> QED BY <2>1, <2>2
<1> QED BY <1>1, <1>2, <1>3 DEF Inv, SetupInv

\* The invariant holds always.
THEOREM SetupInvariant == Spec => []Inv
BY InitInv, NextInv, PTL DEF Spec

\* The variables of the configuration, of the choice of a device and of the interface
\* keep their types through crashes, failures and whatever others do.
THEOREM SetupTypeCorrect == Spec => []TypeOK
<1>1. Inv => TypeOK
  BY DEF Inv, ConfigInv, ModulesInv, WGInv, SetupInv, TypeOK
<1> QED BY <1>1, SetupInvariant, PTL

\* The configuration file is what it was at first or a whole one with a key, never a
\* torn one: WriteJson renames a file that is complete.
THEOREM FileStaysWhole == Spec => []FileIsWhole
<1>1. Inv => FileIsWhole
  BY DEF Inv, ConfigInv
<1> QED BY <1>1, SetupInvariant, PTL

\* No start, edit, failure or crash of one client and an editor replaces the private
\* key in the file, if the file was not there without one at first.
THEOREM KeyStays == Spec => KeyIsForever
<1>1. Inv /\ [Next]_vars => [~keyless /\ file \in Conf => file' \in Conf /\ file'.key = file.key]_configVars
  BY ComponentsInv
<1> QED BY <1>1, SetupInvariant, PTL DEF Spec, KeyIsForever

\* An interface has the key of the file, also one that a dead process left, if the
\* file was not there without a key at first.
THEOREM DeviceKeySaved == Spec => []DeviceKeyIsSaved
<1>1. Inv => DeviceKeyIsSaved
  BY DEF Inv, SetupInv
<1> QED BY <1>1, SetupInvariant, PTL

\* The counters that getStats returns are read from the lines of the peer it is asked
\* for, in whatever order the device lists however many peers.
THEOREM StatsOfOnePeer == Spec => []StatsOfItsPeer
<1>1. ASSUME Inv PROVE StatsOfItsPeer
  <2> SUFFICES ASSUME NEW k \in Keys, NEW from \in GetStats(k) PROVE from = {k} \cap peers
    BY DEF StatsOfItsPeer
  <2>1. CASE link = "kernel"
    BY <2>1 DEF GetStats
  <2>2. CASE link # "kernel"
    <3>1. PICK s \in Orders(peers) : from \in {FirstSection(Text(s), found) : found \in Flags(Text(s), k)}
      BY <2>2 DEF GetStats
    <3>2. PICK found \in Flags(Text(s), k) : from = FirstSection(Text(s), found)
      BY <3>1
    <3>3. IsFiniteSet(peers)
      BY <1>1, WGAssumption, FS_Subset DEF Inv, WGInv, WGTypeOK
    <3>4. FirstSection(Text(s), found) = {k} \cap peers
      BY <3>3, SectionIs
    <3> QED BY <3>2, <3>4
  <2> QED BY <2>1, <2>2
<1> QED BY <1>1, SetupInvariant, PTL

\* A kernel that has WireGuard while NewWGIFace looks for it is used.
THEOREM KernelChosen == Spec => []KernelWhenThere
<1>1. Inv => KernelWhenThere
  BY DEF Inv, ModulesInv, KernelWhenThere
<1> QED BY <1>1, SetupInvariant, PTL

\* A client whose environment disables the kernel's WireGuard neither loads the module
\* nor makes a kernel link, whatever else NewWGIFace has to load for tun and whatever
\* other processes load meanwhile.
THEOREM KernelLeftAlone ==
  ASSUME TunWithoutWireGuard
  PROVE  Spec => DisabledIsLeftAlone
<1>1. Init => DisabledInv
  BY DEF Init, ModulesInit, DisabledInv
<1>2. Inv /\ DisabledInv /\ [Next]_vars => DisabledInv' /\ LeavesAlone
  <2> SUFFICES ASSUME Inv, DisabledInv, [Next]_vars PROVE DisabledInv' /\ LeavesAlone
    OBVIOUS
  <2>1. ModulesStep \/ UNCHANGED moduleVars
    BY Components
  <2> QED BY <2>1, DisabledStep DEF Inv
<1>3. LeavesAlone => [host.disabled /\ mpc # "off" => kind' # "kernel" /\ (status["wireguard"] = "unloaded" =>
        status'["wireguard"] # "live")]_moduleVars
  BY DEF LeavesAlone
<1> QED BY <1>1, <1>2, <1>3, SetupInvariant, PTL DEF Spec, DisabledIsLeftAlone

\* Both configurers implement the table of peers.
THEOREM TableImplemented == Spec => ImplementsPeerTable
<1>1. Init => PT!Init
  BY DEF Init, WGInit, PT!Init
<1>2. Inv /\ [Next]_vars => [PT!Next]_(PT!vars)
  BY ComponentsInv
<1> QED BY <1>1, <1>2, SetupInvariant, PTL DEF Spec, ImplementsPeerTable, PT!Spec
=============================================================================
