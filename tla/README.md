# A formal model of punch

punch connects WireGuard nodes. A *signal server* keeps a table of clients (their WireGuard key, the UDP endpoint
their login came from, the IP they use inside the network). A *client* logs in once, polls the table every 15 seconds
and configures a WireGuard peer for every other client it finds. Below that lie the parts taken over from a larger
project: a multiplexer that runs ICE connections over WireGuard's socket, the discovery of the own public address
through STUN servers, a raw socket that shares WireGuard's port, a proxy that relays WireGuard packets with the help of an
XDP program, the WireGuard interface in its kernel and user-space forms, the search for kernel modules, and the
configuration file.

This directory holds TLA+ modules of these parts, TLC configurations that check them on small instances, and TLAPS
proofs of the properties that matter most, for all instances. `PROJECT.json` maps every definition to the lines it
models and lists hazards, runs, findings and theorems.

## Inventory

| Component | Code | State | Operations | What is hard |
|---|---|---|---|---|
| signal server | `signal/server` | one receive buffer, a goroutine per datagram | receive, decode, dispatch, reply | goroutines decode from the buffer the loop overwrites |
| peer store | `signal/store` | table of rows, RWMutex | Register, GetClients, init | check-then-act, dropped database errors, restart empties it |
| client start | `client/internal/connect.go`, `exchange.go`, `engine.go` | attempt, port; in the kernel the interface | free port, login with timeout and backoff, engine start and close | every step may fail and the next attempt inherits what is left; a port is announced before it is bound |
| engine | `client/internal/engine.go` | `peerConns`, one worker per Conn | poll, addNewPeers, connWorker | unlocked map, stale workers, lost answers |
| peer connection | `client/internal/peer/conn.go` | mutex, `closeCh`, context | Open, configureConnection | workers of old Conns go on |
| ICE mux | `iface/bind/udp_mux.go`, `udp_muxed_conn.go` | conns by ufrag and family, conns by address | GetConn, RemoveConnByUfrag, Close, WriteTo, HandleSTUNMessage | two indexes under two locks, goroutine per conn |
| XOR-mapped discovery | `iface/bind/udp_mux_universal.go` | `xorMappedMap` of pending and answered entries | GetXORMappedAddr, sendSTUN, response handlers | entries dropped while waited for, late responses |
| eBPF manager, XDP programs | `client/internal/ebpf` | flags, link, kernel maps, program variables | Load and Free of two features, packets | every write may fail; kernel runs concurrently |
| eBPF proxy, factory | `client/internal/wgproxy` | port counter, store of connections | listen, Free, AddTurnConn, the two forwarding goroutines | wrap-around, reuse of ports, failures of listen |
| WireGuard interface | `iface/iface.go`, `wg_configurer_*.go` | peers, endpoints, allowed IPs; a mutex | UpdatePeer, RemovePeer, AddAllowedIP, RemoveAllowedIP, GetStats | an allowed IP belongs to one peer only; read-modify-write over two device calls; a text that lists all peers |
| tun devices | `iface/tun_*` | the kernel's interface, the device's link | Create, Up, Close | an interface may be left over, with its key |
| module loading | `iface/iface_unix.go`, `module_linux.go` | the kernel's modules, lists of files | NewWGIFace and its search | other processes load and unload meanwhile; four sources of truth, each of which may fail |
| configuration | `client/internal/config.go`, `util/file.go` | one JSON file | ReadConfig, UpdateConfig, UpdateOrCreateConfig, CreateInMemoryConfig | the key is made once and must survive crashes, failing writes and other writers |
| shared socket | `sharedsock`, `ReadFromConn` of the mux, `tun_kernel_unix.go` | two raw sockets, a channel, a router under a lock | Listen, ReadFrom, WriteTo, Close | two readers on one channel, a send under a lock, partial failure, goroutines that must end |
| network utilities, stdnet | `util/net`, `client/internal/stdnet` | hooks, interfaces | | I/O |

The client talks to the server with UDP datagrams only: one login, then queries. The start of the client calls the
proxy factory, and through it the manager, then the interface; before that it reads the configuration, and `NewWGIFace`
decides whether the interface is the kernel's or the process's own. The kernel device opens the shared socket and starts the mux on it. The engine talks to the interface by
`UpdatePeer`, from many goroutines. The mux and the discovery share a socket and a reader. The proxy uses the manager,
and the manager shares maps with the program in the kernel.

## Modules

| Module | Models | Run by | Proofs |
|---|---|---|---|
| `Directory` | what the server promises: one entry per client, replaced at once, forgotten at a restart | (refined by `Signal`) | |
| `Signal` | server and store | `MCSignal` | `SignalProofs` |
| `Engine` | poller, workers, interface | `MCEngine` | `EngineProofs` |
| `UDPMux` | mux and muxed connections | `MCUDPMux` | `UDPMuxProofs` |
| `XorMapped` | discovery | `MCXorMapped` | `XorMappedProofs` |
| `EbpfManager` | manager and XDP program | itself | `EbpfProofs` |
| `WGEBPFProxy` | port store and forwarding | itself | `EbpfProofs` |
| `ClientStart` | start of the client, composed with `EbpfManager` | itself | `ClientStartProofs` |
| `SharedSocket` | raw sockets, readers, mux goroutine, router, writers, device Up and Close | `MCSharedSocket` | `SharedSocketProofs` |
| `Config` | configuration file and the functions on it | (part of `ClientSetup`) | `ClientSetupProofs` |
| `KernelModules` | `NewWGIFace` and its search | (part of `ClientSetup`) | `ClientSetupProofs` |
| `PeerTable` | what an interface promises: peers, endpoints, one owner per prefix | (refined by `WGConfigurer`) | |
| `WGConfigurer` | interface with its two configurers and devices | (part of `ClientSetup`) | `ClientSetupProofs` |
| `ClientSetup` | composition of the last three with the client's life | `MCClientSetup` | `ClientSetupProofs` |

Variables carry the names of the fields they stand for, actions the names of the functions. A critical section is one
action; what a function does outside its lock, or between two locks, is an action of its own. Each operator with the
comment "Mutant of ..." changes one definition the way a slip in that code would; `PROJECT.json` pairs it with the
property that notices.

**Signal.** A datagram is a request and the length of its JSON text. `Receive` overwrites `buffer` and starts a handler,
which remembers the length of its own datagram. Decoding has a beginning and an end, and between them a handler collects
what the buffer holds (`seen`). One content that stays as it is gives the request if it has the length of the handler's
slice, and a syntax error otherwise (`Whole`). Several contents give anything put together from their fields, whatever
their lengths (`Assembled`): `json.Unmarshal` checks the syntax in one pass and decodes in a second, which stops at the end of
the object and looks at no trailing bytes. It may also fail, or panic and end the process. `own` is a history of a handler,
that the buffer has held nothing but its datagram; `spoilt` are the clients registered by handlers that lost theirs.
`acked` are the clients answered *for*: the one decoded from the buffer, who need not be the one that gets the reply.
`DbFaults` lets every statement fail, the delete of `store.init` too, after which the server starts with the rows of the process
before it. `Crash` and `Start` are the process; the table is a file.

**Engine.** The server is an environment that lists, changes and forgets. An answer that is not
in `Short` fills the 1024-byte buffer and is never delivered. `BeginWrite`/`EndWrite` are the map write in `addNewPeers`; a worker in
`peerExists` in between may end the process. A Conn that is connected and no longer in `peerConns` is reused for a new
one, because nothing ever wakes it. WireGuard's own change of an endpoint on incoming traffic is not modelled: `wg` is
what the program configured.

**UDPMux.** `conns` is the index by ufrag, `addressMap` the one by address. The goroutine `GetConn` starts is `watcher`.
The buffer of a connection is a pion type and is left out, with `ReadFrom`.

**XorMapped.** Entries are named objects, because callers hold on to an entry or its channel after it left the map.
A response that is lost is one that no reader takes; responses may be late and repeated, and one whose attribute `GetFrom`
cannot read stores nothing and wakes nobody.

**EbpfManager.** `op` is the Load that holds the lock; each Put is a step. `held` are the features whose Load succeeded
and that were not freed. `cache` are the program's global variables.

**WGEBPFProxy.** `MaxPort` is 65535 in the code. `busySince` is a history variable for `PortRests`.

**ClientStart.** `pc` is where the retried operation of `run` stands; each call that may fail is a step with its failure.
The manager is a singleton that outlives attempts, so the module takes the steps of `EbpfManager` (`M == INSTANCE`),
with the proxy's feature alone, for `LoadWgProxy` and `Free`. The interface (`wgLink`) and the ports of other processes
are the kernel's and outlive a `Crash`; the XDP program does not, its link is closed with the process. `tunLink` is
the field `Close` looks at: without it a leftover interface stays. Logins and answers may stay under way across attempts.
An interface that is up but not configured has a port of the kernel's choice, taken to be none of `Ports`. This is the
variant with the WireGuard kernel module; the user-space variants make no eBPF proxy.

**Config.** The key stands for what is generated, the port for what a caller asks for; the other settings are constants
that `apply` fills in. The calls of `os.Stat`, `ReadJson` and each step of `WriteJson` are steps, of the client and of an
editor, a second program that calls `UpdateConfig`. A temporary file that a crash leaves is read by nobody. At first
there is no file, one with a key, or one that was written without (`keyless` is the history of that): `apply` then generates a
key, which `update` and `ReadConfig` write back and `createNewConfig` does not. There is one client; two of them that both
find no file are outside the model.

**KernelModules.** `status` is `/proc/modules`; `host` what does not change: built-in modules, module files, `/dev/net/tun`,
the environment, and whether the kernel loads a module when a link of its kind is asked for. `Needs` are the symbols
`finit_module` wants, `Listed` the order of `modules.dep`. `usable` is a history variable: WireGuard was there since
`NewWGIFace` began, and the lists could be read.

**WGConfigurer.** A device call is atomic. `mu` is `WGIface.mu` while its holder is between two device calls; a request of one
call holds it for one step. The user-space device answers with a text, in which the peers may come in any order (`Orders`, `Text`);
the two scans go over it line by line with the flag `foundPeer` (`Flags`), which a `public_key` line clears or sets, and use the lines at
which it is set (`Section`), in `findPeerInfo` up to the next `public_key` line (`FirstSection`). A peer that is not listed is an error of both. `GetStats` changes nothing and is an operator: the peers whose counters it may return. `PeerTable` is refined by the identity on the table.

**ClientSetup.** `main` gets a Config, attempts to make an interface until one is made, and goroutines use it. Other processes
and failures count as `troubles`. A module that is unloaded takes its links with it. `Create` takes the key of the
Config; a kernel link outlives the process, a user-space device does not.

**SharedSocket.** `listen` is the next step of `Listen`. A reader has received a packet (or an error) and offers it; the
mux goroutine takes one or finds the context ended. A packet has a `kind`, settled beforehand: a STUN message, one that is cut
short and decodes only if bytes of an earlier packet complete it (`ReadFrom` returns the UDP length, header included, with a
payload that is 8 bytes shorter), one that `ReadFrom` cannot take apart, or one whose length is out of range for the mux's buffer, at which the process
panics (`SlicePanics`). Writers share the read lock of `routerMux`, but none passes a waiting `Lock` of the updater; `Sendto` under it may take as long as the
socket is open, and on a machine without a second socket a route to an IPv6 address ends in a nil `conn6` (`SendtoNil`).
Packets that the filter would have kept out, had it been set when they came, are left out.

## Runs

| Run | Instance | Shows |
|---|---|---|
| `signal` | 2 handlers, 2 clients, logins of equal length, 4 datagrams, 2 rows | one row per client, every registration answered for is reported, the table implements `Directory` |
| `signal_faults` | 2 handlers, failing database, 3 datagrams that differ in length (`MCLengthsDiffer`), fairness | every handler returns; a key that was not registered from an overwritten buffer is listed at its own client's endpoint |
| `signal_race` | as `signal` | *violated*: a key listed at another client's endpoint |
| `xor_mapped` | 2 callers, 2 servers, 1 reader, 3 objects, fairness | no forgotten waiter, only reported addresses, an answered waiter returns without its deadline |
| `udp_mux` | 2 ufrags, both families, 2 conns, 2 addresses, 1 writer, 1 handler, fairness | the indexes agree, a closed mux is empty, closed conns are on their way out and leave |
| `udp_mux_shared` | 1 address | *violated*: a shared address is forgotten |
| `engine` | 2 clients, 2 keys of which both may use one, 3 endpoints, 3 Conns, any directory at first and 1 change, answers too long for the buffer, fairness | every route is a registration, the interface converges to the directory, and once it has, no worker undoes it |
| `ebpf_manager` | 2 features, 2 values per setting | no half-configured feature runs, flags agree, a held feature stays attached |
| `ebpf_proxy` | 3 ports, 4 connections | ports are owned, and rest before reuse |
| `client_start` | 2 ports, 1 proxy port, 2 troubles, fairness | a running client listens where it is registered, the program follows the attempt's proxy, every start succeeds in the end |
| `client_setup` | 2 private keys, a first file with a key, without one or none, 2 peers, 2 prefixes, 1 thread, 4 modules, 3 machines, 2 troubles, fairness | the file is never torn, a key in it stays, and every interface has that key, unless the file was keyless at first; the kernel's WireGuard is used when it is there and left alone when disabled; counters are those of the peer asked for, and both configurers implement `PeerTable`; the client always gets an interface again |
| `shared_socket` | 2 families, a STUN message after a packet that is dropped, a packet too long against a cut one of the other family (`MCTraffic`), receives that fail at any time, 2 writers, fairness | packets come to the mux once and in order and every STUN message is handed on, no socket stays open, all goroutines end and every `WriteTo` returns |

Runs that check liveness use no symmetry.

**Bounds.** Two handlers are enough to overwrite a buffer, to race on the store's lock and to read a table between two
steps of the other; two clients are enough for a mixture. Two connections under one ufrag are enough for a closed and an
open one, three Conns for a stale worker, a current one and a new one; every directory is a first one,
and one change gives a move, a change of key, a second client with the first one's key, or a restart. The response of a server
carries one mapped address: the properties of `XorMapped` compare servers, not addresses. Three ports and four connections reach the full
store and the wrap. Two ports are enough for an attempt that moves on and one that comes back; two
troubles (`MaxTroubles`: crashes, ports taken by others) for a crash that leaves an interface and a port lost after it.
In `client_setup` two troubles give a crash while the file is written after an edit has begun, a module that comes and
goes within one search, or an interface left behind and deleted; two peers are enough for a
section with another before it or after it, two prefixes for one that changes hands, and one thread between two device calls for every request that could
come in between. In `shared_socket` two packets of a family show an order, and that one is not lost with the one before it; packets of both families meet in the mux; a second writer is one that comes while the updater waits for the first.
`MaxRows`, `MaxReceived`, `MaxMoves`, `MaxTroubles`, `MaxPackets` and the sets of handlers, Conns, objects and traffic are the only bounds on counters;
the proofs need none of them.

**Fairness.** `Signal`: strong fairness of each handler's steps, because `sync.RWMutex` does not starve a waiter.
`XorMapped`, `UDPMux`: weak fairness of goroutines that can run, none of timeouts. `Engine`: weak fairness of poller and
delays; strong fairness of an answer, its delivery and a successful `UpdatePeer`, that is, the network and WireGuard do
not fail for ever. A key that WireGuard can never accept is outside that assumption. `ClientStart`: weak fairness of the operation as a whole, which `backoff.Retry` repeats; strong fairness of
each step that needs network or kernel, so none fails for ever; other processes release ports. Giving up (after three
months) is allowed at every retry. `ClientSetup`: weak fairness of the client's own steps, a supervisor that starts it
again included, and of other processes that have begun to load a module. `SharedSocket`: weak fairness of
goroutines; strong fairness of the context's branch of a `select` that is reached again and again, because Go chooses among
ready branches at random; weak fairness of a `WriteTo` that waits for its lock; of `Sendto` only that it returns once its socket is closed.

**Deadlock** is checked except where the system may stop: `Engine` and `ClientStart`, whose process may end,
`ClientSetup` with its bounded troubles, and `SharedSocket`, which is closed for good.

## Findings

The violation runs each refute something a document or comment of the repository says; `PROJECT.json` quotes the lines.
In short: the shared receive buffer mixes clients' requests (`signal.go:79`); removing a connection deletes registrations
of others (`udp_mux.go:288`).

Seen in the code while modelling and without a run of their own; what the models have of them is said above, in *Modules*, and
what they leave out is marked here:

* An answer of 1024 bytes or more is cut off by `ReadFromUDP`, and the loop takes the full buffer for a sign of more data:
  the query ends with the deadline's error at every poll until the table has shrunk (`exchange.go:205`).
* `Conn.Close` holds the mutex that its call of `cleanup` locks again (`conn.go:246`); nothing calls it (not modelled).
* `CreateInMemoryConfig` writes the file, although its comment says that it does not (`config.go:140`, `:175`). That is
  what makes `DeviceKeyIsSaved` true: a variant that does not write is one of the mutants.
* From a file that is there without a key `createNewConfig` generates one and returns without writing (`config.go:163`), although
  its comment says "generating a new Wireguard key and saving to file": main makes an interface with a key that is on no disk,
  and the next start makes another. `DeviceKeyIsSaved` and `KeyIsForever` leave such files out (`keyless`).
* Two processes that both find no file overwrite each other's key, and nothing is synced before the rename (not modelled).
* `UpdateOrCreateConfig` and `ReadConfig` write a new file twice (`config.go:133`); the second write may undo an edit.
* `modules.dep` lists dependencies with the last one to be loaded first, and they are loaded in that order
  (`module_linux.go:276`): a chain fails where modprobe succeeds, and the client falls back to user space. `moduleStatus` does not know
  what is built in, so a built-in dependency would fail as well.
* A module that another process is still loading counts as loaded (`module_linux.go:149`), and the link then fails; the next attempt succeeds.
* `toWgUserspaceString` leaves out `UpdateOnly`: in user space a request for an unknown peer makes it.
* `removeAllowedIP` compares prefixes as text in user space, as networks in the kernel (`wg_configurer_usp.go:160`); the model lets every request of user space fail so.
* `GetStats` reads the configurer without the mutex under which `Create` sets it (`iface.go:162`; not modelled).
* `ReadFrom` returns the UDP length, header included (`sock_linux.go:277`), so the decoded message ends in bytes of an earlier
  packet; a length above the mux's buffer ends the process (`SlicePanics`).
* On a machine that has routes but no socket for IPv6, `WriteTo` uses a nil `conn6` (`sock_linux.go:315`, `SendtoNil`).
* Between the creation of a raw socket and `SetBPF` it receives every UDP packet of the machine (`sock_linux.go:106`; not modelled).
* The kernel device passes no filter function to the mux (`tun_kernel_unix.go:34`), so the cache of route checks is not used (not modelled).
* A repeated login updates key, IP and port, but not the allowed IP (`peer.go:39`); `Directory` keeps the old one too.
* `RemoveConnByUfrag`, run for the connection of one family, removes the open one of the other family without closing
  it, although its comment says that it "stops and removes" (`udp_mux.go:261`).
* The comparison by key hides the open connection of a ufrag behind a closed one that is still registered for the source
  (`udp_mux.go:400`), although the comment above it says that the ufrag identifies the destination.
* A client logs in when it starts and never again: after a restart of the server it stays unlisted (`connect.go:96`).
  A login delayed past its attempt may overtake that of the next one, made from another port; no module has both the
  attempts and the server's table.
* `listen` does not close its raw socket when `LoadWgProxy` fails (`proxy_ebpf.go:69`; not modelled).
* Every poll makes a second Conn, with a worker, for a peer that has one (`engine.go:255`).
* While the DNS forwarder keeps the XDP program attached, a proxy that is freed and loaded again with other ports runs
  with its first ports (`wg_proxy.c:33`). This client does not load the forwarder.

## Proofs

All theorems hold for every value of the constants that meets the modules' named assumptions (that `None` is none of the
values, that messages are typed, that there is at least one port).

* **SignalProofs.** `TypeCorrect` for any database. For one that works: `RowsUnique`, whose invariant `TableInv` adds
  that a handler between lookup and write holds the lock and that what it found is still so; `AnswersComplete`, whose
  `AnswerInv` adds that an answered or answerable login is in the table and that what a handler knows is still listed;
  and `SignalImplementsDirectory`: an update or creation by the lock holder is one registration, everything else leaves
  the rows alone or forgets them all. `KeysAtEndpoints` delimits the finding of `signal_race`: under
  `LoginsHaveKeys`, for any database and requests of any length, the clients whose key may be listed at another endpoint are those decoded from an
  overwritten buffer. `OriginInv` follows a handler that has not lost its datagram: what it has seen, decoded and is about to register is that datagram.
* **XorMappedProofs.** One invariant relates map, objects and callers: an entry of a server was made for it, an address
  in it was reported by that server, and a waiter's object is in the map or closed. It gives `NoWaiterForgotten` and
  `ReturnsReported`.
* **EngineProofs.** Rows are carried unchanged from the directory to a Conn (`CarriedInv`); `UpdateRoutes` shows that
  replacing the allowed IPs keeps key, endpoint and owner together. Results: `RoutesRegistered`;
  and `StaysSettled`, the safety half of `Converges`: with one row per client (`OneRow`), an update for a row of the directory leaves
  the others' routes alone when keys are not shared.
* **UDPMuxProofs.** The invariant follows an address on its way: a registration in `addressMap` is remembered by the
  connection or about to be (`RoutesRemembered`); a connection in `conns` that is closed has a watcher that has yet to remove it
  (`ClosedConnsLeave`); and whoever could still add one to a closed mux is past the check (`NothingAfterClose`).
* **ClientSetupProofs.** Each component has its invariant, and lemma `Components` shows that a step of the client is a step of each
  component or leaves it alone. For the interface, `InFlight`: what a RemoveAllowedIP between its two device calls will write
  back is what the peer has by then but for one prefix; with it every step maps to one of `PeerTable`
  (`TableImplemented`). `FlagIs` says at which lines of the text the flag is set and `SectionIs` that both scans then use the lines of one peer,
  in every order of any number of peers (`StatsOfOnePeer`). For the file, `ConfigInv`: a Config about to be
  written has the key of the file if there is one, unless the file was keyless at first, which gives `FileStaysWhole` and `KeyStays`. For the search, `ModulesInv`:
  while the kernel has WireGuard the search cannot get past `isModuleEnabled` (`KernelChosen`). `SetupInv` joins them: an attempt is
  only made with a complete Config, so an interface gets the key of the file (`DeviceKeySaved`).
  `KernelLeftAlone` needs `TunWithoutWireGuard`, that tun does not list WireGuard among its dependencies, without which it is false; then a
  disabled search is always one for tun, with a list that never holds WireGuard (`DisabledInv`).
* **EbpfProofs.** For the manager, `EnabledIsConfigured` is not inductive: writing the flags enables every flag the manager holds,
  also one whose own write had failed, so the invariant speaks of the manager's flags, and of a Load under way. That the
  program's copy is complete (`CacheInv`) then follows from when it copies. For the proxy, `FreePortFound`: while the store is
  not full the search ends at a free port in range, and skips none that is free (`Least`: a set of numbers has a first one). With
  it `PortsOwned` is inductive, and so is `RestInv`, which counts the ports the counter has passed since a port was given out
  and gives `PortsRest`.
* **SharedSocketProofs.** `PacketsDelivered` is inductive with `HoldsInv` (a reader holds only what came on its own
  socket): the packets handled, held by the mux, held by the reader and waiting in the socket form one sequence (`Row`), and each step moves a
  packet from one part to the next, also one that is dropped because it does not decode; the STUN messages among those handled were handed on (`FinishesGiven`). `SocketsClosed` rests on `ClosingInv`: what is open when the context ends is on its way to be closed, nothing is opened
  after that, and who returned has waited.
* **ClientStartProofs.** `PortInv` follows the port from the answered login to the interface: past `ReadReply` it is
  answered, past `Configure` the interface holds it and nobody else. `ProxyInv` ties the manager's Load under way
  to the attempt, `ProgramInv` its flags: the feature is enabled exactly while a proxy is there or about to be, and
  otherwise the program has copied nothing. The manager's own actions are expanded, with its one feature.

Only model-checked: the liveness properties (`HandlersReturn`, `AnsweredWaiterReturns`, `ClosedConnLeaves`, `Converges`,
`Connects`, `GetsInterface`, `GoroutinesEnd`), since the prover does not handle fairness. All other properties of the
passing runs are theorems. The type invariants of `XorMapped`, `Engine` and `EbpfManager`, part of the inductive invariants, have
a proof and no run.

## Not modelled

Interface enumeration (`stdnet`), the dial and listen hooks of `util/net` and the user-space proxy are system calls and
copying loops. The netstack device, `ICEBind` and packet filters are wrappers around `wireguard-go` without
state of their own that this client uses. Generated code and variants for other platforms are left out. The rewriting of
packets by the XDP program is a pure function of two ports; the packet filter of the shared socket is a pure function of a packet. The cache of route checks in
the mux's socket wrapper always holds the same verdict in this client.

## Plan

Done: server and store, engine, mux, discovery, eBPF manager and proxy, start of the client, configuration, choice of a device,
interface and configurers, shared socket; proofs of every safety property of their runs. Next:

1. The condition under which `SharedAddressKept` holds of the mux, as `KeysAtEndpoints` gives it for the server.
2. `ClientStart` composed with `Directory`: a login that arrives after that of a later attempt, and what a restart of the
   server does to clients that register once.
3. The STUN filter of `ICEBind` as an operator over sequences; refinement of `Engine`'s server by `Directory`.
