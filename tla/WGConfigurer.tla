---------------------------- MODULE WGConfigurer ----------------------------
(***************************************************************************)
(* The WireGuard interface: iface/iface.go (the operations and the mutex   *)
(* around them) over the two configurers, wg_configurer_kernel_unix.go     *)
(* (netlink) and wg_configurer_usp.go (the text protocol of wireguard-go), *)
(* and the devices of tun_kernel_unix.go and tun_usp_unix.go as far as     *)
(* they make and remove the interface.                                     *)
(*                                                                         *)
(* A call of the device (ConfigureDevice, IpcSet, IpcGet) is atomic;       *)
(* between two of them packets arrive, the administrator deletes the link, *)
(* or the process dies.  A prefix is written as text: a request may name a *)
(* host in it (10.0.0.5/24), which the device lists as 10.0.0.0/24.        *)
(***************************************************************************)
EXTENDS FiniteSets, Naturals

CONSTANTS
  Keys,         \* public keys of peers
  Nets,         \* prefixes
  Endpoints,
  Threads,      \* goroutines that use the interface
  DeviceKeys,   \* private keys
  None

ASSUME WGAssumption == /\ None \notin Keys \cup Endpoints \cup Threads \cup DeviceKeys
                       /\ IsFiniteSet(Keys)

VARIABLES
  link,         \* the interface: none, a kernel link, or a device of this process
  private,      \* its private key
  peers, endpoint, owner,       \* its peers (see PeerTable)
  mu,           \* the thread that holds WGIface.mu across two device calls
  request       \* the RemoveAllowedIP of that thread, with the prefixes to keep

table == <<peers, endpoint, owner>>
wgVars == <<link, private, peers, endpoint, owner, mu, request>>

Kinds == {"kernel", "user"}
NoRequest == [key |-> None, net |-> None, keep |-> {}]

WGTypeOK ==
  /\ link \in Kinds \cup {"none"}
  /\ private \in DeviceKeys \cup {None}
  /\ peers \subseteq Keys
  /\ endpoint \in [Keys -> Endpoints \cup {None}]
  /\ owner \in [Nets -> Keys \cup {None}]
  /\ mu \in Threads \cup {None}
  /\ request \in [key : Keys, net : Nets, keep : SUBSET Nets] \cup {NoRequest}

EmptyTable ==
  /\ peers' = {}
  /\ endpoint' = [k \in Keys |-> None]
  /\ owner' = [n \in Nets |-> None]

WGInit ==
  /\ link = "none"
  /\ private = None
  /\ peers = {}
  /\ endpoint = [k \in Keys |-> None]
  /\ owner = [n \in Nets |-> None]
  /\ mu = None
  /\ request = NoRequest

-----------------------------------------------------------------------------
(* Making and removing the interface *)

\* tunKernelDevice.Create: a link of that name, an earlier process's too, is
\* removed and added again, and configured with ReplacePeers.
CreateKernel(private0) ==
  /\ mu = None
  /\ link \in {"none", "kernel"}
  /\ link' = "kernel"
  /\ private' = private0
  /\ EmptyTable
  /\ UNCHANGED <<mu, request>>

\* tunKernelDevice.Create fails: before the old link is removed, before the new
\* one is added, or with a new link that has no key yet.
CreateKernelFails ==
  /\ mu = None
  /\ \/ UNCHANGED <<link, private, table>>
     \/ link' \in {"none", "kernel"} /\ private' = None /\ EmptyTable
  /\ UNCHANGED <<mu, request>>

\* tunUSPDevice.Create: a tun device under a name that is free.
CreateUser(private0) ==
  /\ mu = None
  /\ link = "none"
  /\ link' = "user"
  /\ private' = private0
  /\ EmptyTable
  /\ UNCHANGED <<mu, request>>

\* The interface is gone, with its peers.
Gone ==
  /\ link' = "none"
  /\ private' = None
  /\ EmptyTable

\* WGIface.Close: the link is deleted, or the device closed; deleting may fail.
CloseLink ==
  /\ mu = None
  /\ Gone \/ (link = "kernel" /\ UNCHANGED <<link, private, table>>)
  /\ UNCHANGED <<mu, request>>

\* The administrator deletes the link.
LinkDeleted ==
  /\ link = "kernel"
  /\ Gone
  /\ UNCHANGED <<mu, request>>

\* The process ends: a kernel link stays, with its key and peers.
ProcessEnds ==
  /\ IF link = "user" THEN Gone ELSE UNCHANGED <<link, private, table>>
  /\ mu' = None
  /\ request' = NoRequest

-----------------------------------------------------------------------------
(* The peers *)

\* Mutant of OneCall: the mutex is not taken.
OneCallUnlocked ==
  /\ UNCHANGED <<link, private, mu, request>>

\* A request that takes the mutex, makes one device call and returns.
OneCall ==
  /\ mu = None
  /\ UNCHANGED <<link, private, mu, request>>

\* configure, or getPeer, fails: there is no device of that name.
NoDevice ==
  /\ link = "none"
  /\ OneCall
  /\ UNCHANGED table

\* updatePeer: ReplaceAllowedIPs with one prefix; the endpoint is optional.
UpdatePeer(k, n, e) ==
  /\ link # "none"
  /\ OneCall
  /\ peers' = peers \cup {k}
  /\ endpoint' = IF e = None THEN endpoint ELSE [endpoint EXCEPT ![k] = e]
  /\ owner' = [m \in Nets |-> IF m = n THEN k ELSE IF owner[m] = k THEN None ELSE owner[m]]

\* removePeer: of a key that is no peer, nothing.
RemovePeer(k) ==
  /\ link # "none"
  /\ OneCall
  /\ peers' = peers \ {k}
  /\ endpoint' = [endpoint EXCEPT ![k] = None]
  /\ owner' = [m \in Nets |-> IF owner[m] = k THEN None ELSE owner[m]]

\* addAllowedIP: UpdateOnly is a flag of netlink only, toWgUserspaceString leaves
\* it out, so a device of this process makes a peer of an unknown key.
AddAllowedIP(k, n) ==
  /\ link # "none"
  /\ OneCall
  /\ IF k \in peers \/ link = "user"
     THEN /\ peers' = peers \cup {k}
          /\ owner' = [owner EXCEPT ![n] = k]
          /\ UNCHANGED endpoint
     ELSE UNCHANGED table

\* The peers in the order IpcGet lists them.
Orders(S) ==
  {s \in [1..Cardinality(S) -> S] : /\ \A i, j \in DOMAIN s : s[i] = s[j] => i = j
                                    /\ \A k \in S : \E i \in DOMAIN s : s[i] = k}

PublicKey(k) == [line |-> "public_key", of |-> k]

\* The text: for each peer its public_key line, and after it the lines with its
\* counters and allowed_ips, which stand here as one.
Text(s) ==
  [i \in 1..2 * Cardinality(DOMAIN s) |->
     IF i % 2 = 1 THEN PublicKey(s[(i + 1) \div 2]) ELSE [line |-> "details", of |-> s[i \div 2]]]

\* foundPeer before the first line and after each of them: a public_key line clears
\* it, and sets it if the key is k.
Flags(text, k) ==
  {found \in [{0} \cup DOMAIN text -> BOOLEAN] :
     /\ ~found[0]
     /\ \A i \in DOMAIN text :
          found[i] = ((found[i - 1] /\ text[i].line # "public_key") \/ text[i] = PublicKey(k))}

\* The peers whose details removeAllowedIP reads while the flag is set.
Section(text, found) == {text[i].of : i \in {i \in DOMAIN text : found[i] /\ text[i].line = "details"}}

\* Mutant of FirstSection: the scan does not end and the flag is not cleared.
FirstSectionToEnd(text, found) ==
  {text[i].of : i \in {i \in DOMAIN text : text[i].line = "details" /\ \E j \in 1..i : found[j]}}

\* findPeerInfo leaves the loop at a public_key line that finds the flag set.
FirstSection(text, found) ==
  {text[i].of : i \in {i \in DOMAIN text : /\ found[i] /\ text[i].line = "details"
                                           /\ \A j \in 1..i : ~(found[j - 1] /\ text[j].line = "public_key")}}

Routed(S) == {n \in Nets : owner[n] \in S}

\* removeAllowedIP up to the second device call: the prefixes of the peer are read.
ReadsFor(t, k, n, S) ==
  /\ mu' = t
  /\ request' = [key |-> k, net |-> n, keep |-> Routed(S) \ {n}]
  /\ UNCHANGED <<link, private, table>>

\* Kernel: getPeer finds the peer; the prefix is parsed, so it may name a host.
ReadKernel(t, k, n) ==
  /\ mu = None
  /\ link = "kernel"
  /\ k \in peers
  /\ ReadsFor(t, k, n, {k})

\* User space: the prefix must be listed in the peer's section, in the same words.
ReadUser(t, k, n) ==
  /\ mu = None
  /\ link = "user"
  /\ \E s \in Orders(peers) : \E found \in Flags(Text(s), k) :
       LET from == Section(Text(s), found) IN n \in Routed(from) /\ ReadsFor(t, k, n, from)

\* ErrPeerNotFound of the kernel's getPeer, or ErrAllowedIPNotFound of user space,
\* which a prefix in other words than the device's gets whatever the peers are.
NotFound(k) ==
  /\ (link = "kernel" /\ k \notin peers) \/ link = "user"
  /\ OneCall
  /\ UNCHANGED table

\* ReplaceAllowedIPs with what is kept; no endpoint is given.
WriteBack(k, keep) ==
  /\ owner' = [m \in Nets |-> IF m \in keep THEN k ELSE IF owner[m] = k THEN None ELSE owner[m]]
  /\ peers' = peers \cup {k}
  /\ UNCHANGED endpoint

\* removeAllowedIP: the second device call, and the deferred Unlock.
RemoveAllowedIP(t) ==
  /\ mu = t
  /\ IF link = "none" THEN UNCHANGED table ELSE WriteBack(request.key, request.keep)
  /\ mu' = None
  /\ request' = NoRequest
  /\ UNCHANGED <<link, private>>

\* GetStats, one device call without the mutex, changes nothing: the peers whose counters
\* it may return, none if it fails.  The kernel's getPeer finds the peer; findPeerInfo
\* fails if it has not met all the counters.
GetStats(k) ==
  IF link = "kernel" THEN {{k} \cap peers}
  ELSE UNION {{FirstSection(Text(s), found) : found \in Flags(Text(s), k)} : s \in Orders(peers)}

\* A packet of a peer comes from a new address.
Roams(k, e) ==
  /\ link # "none"
  /\ k \in peers
  /\ endpoint' = [endpoint EXCEPT ![k] = e]
  /\ UNCHANGED <<link, private, peers, owner, mu, request>>

\* What the goroutines of a running client may call.
Configures ==
  \/ NoDevice
  \/ \E k \in Keys :
       \/ RemovePeer(k) \/ NotFound(k)
       \/ \E n \in Nets :
            \/ \E e \in Endpoints \cup {None} : UpdatePeer(k, n, e)
            \/ AddAllowedIP(k, n)
            \/ \E t \in Threads : ReadKernel(t, k, n) \/ ReadUser(t, k, n)
  \/ \E t \in Threads : RemoveAllowedIP(t)

-----------------------------------------------------------------------------
(* Properties *)

\* GetStats returns the counters of the peer it was asked for, and fails for a key that
\* is no peer, whichever peers there are: the user-space configurer scans a text in
\* which they come one after the other, in any order.
StatsOfItsPeer ==
  link # "none" => \A k \in Keys : \A from \in GetStats(k) : from = {k} \cap peers

PT == INSTANCE PeerTable

\* Both configurers implement the table of peers, RemoveAllowedIP included, which
\* reads the prefixes of a peer and writes back all but one: no request of another
\* goroutine, no new endpoint and no other peer's prefix is lost in between.
ImplementsPeerTable == PT!Spec
=============================================================================
