---------------------------- MODULE SharedSocket ----------------------------
(***************************************************************************)
(* The socket that shares the port of the kernel's WireGuard device:       *)
(* sharedsock/sock_linux.go (two raw sockets, a goroutine that reads each, *)
(* an unbuffered channel to ReadFrom, the lock that WriteTo holds), the    *)
(* goroutine of the universal mux that reads it (ReadFromConn of           *)
(* iface/bind/udp_mux_universal.go) and the device that opens and closes   *)
(* both (Up and Close of iface/tun_kernel_unix.go).                        *)
(*                                                                         *)
(* A packet is its number within its address family, and what it is is     *)
(* settled beforehand; packets that the kernel's filter keeps out are left *)
(* out.  The routing table is left out too, but not the lock around it.    *)
(***************************************************************************)
EXTENDS Naturals, Sequences

CONSTANTS
  MaxPackets,   \* bound on the packets of a family
  Traffic,      \* which packets may come: of each family and number a kind
  Writers,      \* goroutines that call WriteTo
  None

ASSUME BoundsAssumption == MaxPackets \in Nat
ASSUME NoneAssumption == None \notin {"v4", "v6"} \cup Nat

VARIABLES
  listen,       \* how far Listen is; 0: not called
  up,           \* the device: down, up, failed, closing, sockclosing, closed; gone: the
                \* process has panicked
  conn,         \* the raw sockets
  ctxDone,      \* the socket's context
  toClose,      \* the sockets Close is still closing
  arrived,      \* history: how many packets the kernel put into each of them
  inbox,        \* those not yet received
  reader,       \* the goroutine of each: where it is and what it holds
  mux,          \* ReadFromConn: where it is and what it holds
  muxDone,      \* its context, the device's
  kind,         \* what each packet is
  finished,     \* history: the packets ReadFromConn is done with
  given,        \* history: those it gave to HandleSTUNMessage
  updater,      \* updateRouter: off, wait (for the ticker), lock
  writing       \* each WriteTo: idle, wait (for routerMux), or the family it sends to

sockets == <<conn, ctxDone, toClose>>
packets == <<arrived, inbox, reader, mux, kind, finished, given>>
routing == <<updater, writing>>
vars == <<listen, up, sockets, packets, muxDone, routing>>

Families == {"v4", "v6"}

\* The steps of Listen.
Steps == <<"router", "sock4", "mark4", "sock6", "mark6", "filter4", "filter6">>

\* A STUN message; one that is cut short, which msg.Decode refuses unless the bytes that
\* ReadFrom's length adds, of an earlier packet, complete it; one that ReadFrom cannot
\* take apart; one whose UDP header tells a length above that of the buffer; and no
\* packet.
Kinds == {"stun", "cut", "nolayers", "long", "none"}

ASSUME TrafficAssumption == Traffic \subseteq [Families -> [1..MaxPackets -> Kinds]]

\* What the channel carries; Err is a receive that failed.
Err == [family |-> None, packet |-> None]
Packet == [family : Families, packet : 1..MaxPackets]

TypeOK ==
  /\ listen \in 0..(Len(Steps) + 1)
  /\ up \in {"down", "up", "failed", "closing", "sockclosing", "closed", "gone"}
  /\ conn \in [Families -> {"nil", "open", "closed"}]
  /\ ctxDone \in BOOLEAN
  /\ toClose \subseteq Families
  /\ arrived \in [Families -> 0..MaxPackets]
  /\ inbox \in [Families -> Seq(1..MaxPackets)]
  /\ reader \in [Families ->      [pc : {"off", "receive"}, holds : {Err}]
                             \cup [pc : {"send"}, holds : Packet \cup {Err}]]
  /\ mux \in [pc : {"off", "check", "read"}, holds : {Err}] \cup [pc : {"handle"}, holds : Packet]
  /\ muxDone \in BOOLEAN
  /\ kind \in [Families -> [1..MaxPackets -> Kinds]]
  /\ finished \in [Families -> Seq(1..MaxPackets)]
  /\ given \in [Families -> SUBSET (1..MaxPackets)]
  /\ updater \in {"off", "wait", "lock"}
  /\ writing \in [Writers -> {"idle", "wait"} \cup Families]

Init ==
  /\ listen = 0
  /\ up = "down"
  /\ conn = [f \in Families |-> "nil"] /\ ctxDone = FALSE /\ toClose = {}
  /\ arrived = [f \in Families |-> 0]
  /\ inbox = [f \in Families |-> <<>>]
  /\ reader = [f \in Families |-> [pc |-> "off", holds |-> Err]]
  /\ mux = [pc |-> "off", holds |-> Err] /\ muxDone = FALSE
  /\ kind \in Traffic
  /\ finished = [f \in Families |-> <<>>]
  /\ given = [f \in Families |-> {}]
  /\ updater = "off" /\ writing = [w \in Writers |-> "idle"]

\* A goroutine panics, and all of them go with the process; the kernel closes the
\* sockets.
ProcessGone ==
  /\ up' = "gone"
  /\ conn' = [f \in Families |-> IF conn[f] = "nil" THEN "nil" ELSE "closed"]
  /\ toClose' = {}
  /\ reader' = [f \in Families |-> [pc |-> "off", holds |-> Err]]
  /\ mux' = [pc |-> "off", holds |-> Err]
  /\ updater' = "off"
  /\ writing' = [w \in Writers |-> "idle"]
  /\ UNCHANGED <<listen, ctxDone, arrived, inbox, kind, finished, given, muxDone>>

-----------------------------------------------------------------------------
(* Listen, called by the device's Up *)

BeginListen ==
  /\ listen = 0 /\ up = "down"
  /\ listen' = 1
  /\ UNCHANGED <<up, sockets, packets, muxDone, routing>>

At(steps) == listen \in 1..Len(Steps) /\ ~ctxDone /\ Steps[listen] \in steps

\* The next step of Listen succeeds; those of the second socket are passed over when
\* there is none.
ListenStep ==
  /\ At({Steps[i] : i \in 1..Len(Steps)})
  /\ conn' = CASE Steps[listen] = "sock4" -> [conn EXCEPT !["v4"] = "open"]
               [] Steps[listen] = "sock6" -> [conn EXCEPT !["v6"] = "open"]
               [] OTHER -> conn
  /\ listen' = listen + 1
  /\ UNCHANGED <<up, ctxDone, toClose, packets, muxDone, routing>>

\* A machine without IPv6: the error is logged.
NoSocket6 ==
  /\ At({"sock6"})
  /\ listen' = listen + 1
  /\ UNCHANGED <<up, sockets, packets, muxDone, routing>>

\* Mutant of StartClose: only the socket of IPv4 is closed.
StartCloseV4 ==
  /\ ctxDone' = TRUE
  /\ toClose' = {f \in {"v4"} : conn[f] # "nil"}
  /\ UNCHANGED conn

\* SharedSocket.Close up to Wait: the context ends, and a goroutine closes each socket.
StartClose ==
  /\ ctxDone' = TRUE
  /\ toClose' = {f \in Families : conn[f] # "nil"}
  /\ UNCHANGED conn

\* A step fails, and the deferred Close runs.
ListenFails ==
  /\ At({"router", "sock4", "mark4", "filter4"}) \/ (At({"mark6", "filter6"}) /\ conn["v6"] # "nil")
  /\ StartClose
  /\ UNCHANGED <<listen, up, packets, muxDone, routing>>

\* Listen returns its error, and Up with it.
ListenReturnsError ==
  /\ listen \in 1..Len(Steps) /\ ctxDone /\ toClose = {}
  /\ listen' = 0
  /\ up' = "failed"
  /\ UNCHANGED <<sockets, packets, muxDone, routing>>

\* Listen starts its goroutines, and Up the one of the mux.
ListenReturns ==
  /\ listen = Len(Steps) + 1 /\ up = "down"
  /\ up' = "up"
  /\ reader' = [f \in Families |-> [pc |-> IF conn[f] = "nil" THEN "off" ELSE "receive", holds |-> Err]]
  /\ updater' = "wait"
  /\ mux' = [mux EXCEPT !.pc = "check"]
  /\ UNCHANGED <<listen, sockets, arrived, inbox, kind, finished, given, muxDone, writing>>

-----------------------------------------------------------------------------
(* Receiving *)

\* The kernel puts a packet that passes the filter into the socket.
Arrives(f) ==
  /\ conn[f] = "open"
  /\ arrived[f] < MaxPackets /\ kind[f][arrived[f] + 1] # "none"
  /\ arrived' = [arrived EXCEPT ![f] = @ + 1]
  /\ inbox' = [inbox EXCEPT ![f] = Append(@, arrived'[f])]
  /\ UNCHANGED <<listen, up, sockets, reader, mux, kind, finished, given, muxDone, routing>>

\* Mutant of Recvfrom: both goroutines read into one buffer.
RecvfromOneBuffer(f) ==
  /\ reader[f].pc = "receive"
  /\ conn[f] = "open"
  /\ inbox[f] # <<>>
  /\ inbox' = [inbox EXCEPT ![f] = Tail(@)]
  /\ LET p == [family |-> f, packet |-> Head(inbox[f])]
     IN  reader' = [g \in Families |-> IF g = f THEN [pc |-> "send", holds |-> p]
                                       ELSE IF reader[g].pc = "send" THEN [reader[g] EXCEPT !.holds = p]
                                       ELSE reader[g]]
  /\ UNCHANGED <<listen, up, sockets, arrived, mux, kind, finished, given, muxDone, routing>>

\* read: the receiver fills a buffer made for this packet, also when the context has
\* ended meanwhile.
Recvfrom(f) ==
  /\ reader[f].pc = "receive"
  /\ conn[f] = "open"
  /\ inbox[f] # <<>>
  /\ inbox' = [inbox EXCEPT ![f] = Tail(@)]
  /\ reader' = [reader EXCEPT ![f] = [pc |-> "send", holds |-> [family |-> f, packet |-> Head(inbox[f])]]]
  /\ UNCHANGED <<listen, up, sockets, arrived, mux, kind, finished, given, muxDone, routing>>

\* read: the context has ended or the socket is closed; this error too is offered.
RecvfromEnds(f) ==
  /\ reader[f].pc = "receive"
  /\ ctxDone \/ conn[f] = "closed"
  /\ reader' = [reader EXCEPT ![f].pc = "send"]
  /\ UNCHANGED <<listen, up, sockets, arrived, inbox, mux, kind, finished, given, muxDone, routing>>

\* read: a receive fails (the network is down), as often as it likes.
RecvfromFails(f) ==
  /\ reader[f].pc = "receive"
  /\ reader' = [reader EXCEPT ![f].pc = "send"]
  /\ UNCHANGED <<listen, up, sockets, arrived, inbox, mux, kind, finished, given, muxDone, routing>>

\* Mutant of ReaderStops: the goroutine offers its packet until somebody takes it.
ReaderStopsNever(f) == reader[f].pc = "stopped" /\ UNCHANGED vars

\* read: the select takes the context's branch.
ReaderStops(f) ==
  /\ reader[f].pc = "send" /\ ctxDone
  /\ reader' = [reader EXCEPT ![f] = [pc |-> "off", holds |-> Err]]
  /\ UNCHANGED <<listen, up, sockets, arrived, inbox, mux, kind, finished, given, muxDone, routing>>

\* ReadFromConn: the device's context is looked at between two reads.
MuxChecks ==
  /\ mux.pc = "check"
  /\ mux' = [mux EXCEPT !.pc = IF muxDone THEN "off" ELSE "read"]
  /\ UNCHANGED <<listen, up, sockets, arrived, inbox, reader, kind, finished, given, muxDone, routing>>

\* Mutant of HandsOver: the error of the receive is not looked at.
HandsOverErrors(f) ==
  /\ reader[f].pc = "send" /\ mux.pc = "read"
  /\ mux' = [pc |-> "handle", holds |-> reader[f].holds]
  /\ reader' = [reader EXCEPT ![f] = [pc |-> "receive", holds |-> Err]]
  /\ UNCHANGED <<listen, up, sockets, arrived, inbox, kind, finished, given, muxDone, routing>>

Kind(p) == kind[p.family][p.packet]

\* packetDemux: a reader's select and that of ReadFrom meet.  ReadFromConn goes on with
\* its loop after an error, that of the receive or one of taking the packet apart.
HandsOver(f) ==
  /\ reader[f].pc = "send" /\ mux.pc = "read"
  /\ LET p == reader[f].holds IN
       \/ /\ p = Err
          /\ mux' = [pc |-> "check", holds |-> Err]
          /\ UNCHANGED finished
       \/ /\ p # Err /\ Kind(p) = "nolayers"
          /\ mux' = [pc |-> "check", holds |-> Err]
          /\ finished' = [finished EXCEPT ![f] = Append(@, p.packet)]
       \/ /\ p # Err /\ Kind(p) # "nolayers"
          /\ mux' = [pc |-> "handle", holds |-> p]
          /\ UNCHANGED finished
  /\ reader' = [reader EXCEPT ![f] = [pc |-> "receive", holds |-> Err]]
  /\ UNCHANGED <<listen, up, sockets, arrived, inbox, kind, given, muxDone, routing>>

\* ReadFrom: ErrSharedSockStopped.
ReadStopped ==
  /\ mux.pc = "read" /\ ctxDone
  /\ mux' = [mux EXCEPT !.pc = "check"]
  /\ UNCHANGED <<listen, up, sockets, arrived, inbox, reader, kind, finished, given, muxDone, routing>>

\* ReadFromConn: the slice of the buffer is copied and decoded, and given to
\* HandleSTUNMessage where that succeeds.
Handles ==
  /\ mux.pc = "handle"
  /\ Kind(mux.holds) # "long"
  /\ \E decoded \in IF Kind(mux.holds) = "stun" THEN {TRUE} ELSE BOOLEAN :
       given' = IF decoded THEN [given EXCEPT ![mux.holds.family] = @ \cup {mux.holds.packet}] ELSE given
  /\ finished' = [finished EXCEPT ![mux.holds.family] = Append(@, mux.holds.packet)]
  /\ mux' = [pc |-> "check", holds |-> Err]
  /\ UNCHANGED <<listen, up, sockets, arrived, inbox, reader, kind, muxDone, routing>>

\* ReadFromConn: buf[:n] is out of range.
SlicePanics ==
  /\ mux.pc = "handle"
  /\ Kind(mux.holds) = "long"
  /\ ProcessGone

-----------------------------------------------------------------------------
(* The router and writing *)

\* updateRouter: the ticker; a table that cannot be read leaves it waiting.
ReadRoutes ==
  /\ updater = "wait"
  /\ updater' = "lock"
  /\ UNCHANGED <<listen, up, sockets, packets, muxDone, writing>>

\* updateRouter: the router is replaced once no WriteTo holds routerMux.
StoreRouter ==
  /\ updater = "lock" /\ \A w \in Writers : writing[w] \notin Families
  /\ updater' = "wait"
  /\ UNCHANGED <<listen, up, sockets, packets, muxDone, writing>>

UpdaterStops ==
  /\ updater = "wait" /\ ctxDone
  /\ updater' = "off"
  /\ UNCHANGED <<listen, up, sockets, packets, muxDone, writing>>

\* WriteTo is called; it first waits for the read lock of routerMux.
WriteTo(w) ==
  /\ listen = Len(Steps) + 1 /\ up \notin {"down", "gone"}
  /\ writing[w] = "idle"
  /\ writing' = [writing EXCEPT ![w] = "wait"]
  /\ UNCHANGED <<listen, up, sockets, packets, muxDone, updater>>

\* WriteTo up to Sendto: the lock is taken, together with other writers but not past a
\* waiting Lock of the updater, and a source address looked up.  A lookup that fails
\* gives the lock back at once.
AskRouter(w) ==
  /\ writing[w] = "wait"
  /\ updater # "lock"
  /\ \E to \in Families \cup {"idle"} : writing' = [writing EXCEPT ![w] = to]
  /\ UNCHANGED <<listen, up, sockets, packets, muxDone, updater>>

\* WriteTo: the packet is sent, sooner or later, or refused by a closed socket.
Sendto(w) ==
  /\ writing[w] \in Families
  /\ conn[writing[w]] # "nil"
  /\ writing' = [writing EXCEPT ![w] = "idle"]
  /\ UNCHANGED <<listen, up, sockets, packets, muxDone, updater>>

\* WriteTo: getWriterObjects has returned the nil conn6 of a Listen that got no second
\* socket.
SendtoNil(w) ==
  /\ writing[w] \in Families
  /\ conn[writing[w]] = "nil"
  /\ ProcessGone

-----------------------------------------------------------------------------
(* Closing *)

\* tunKernelDevice.Close: the context first; when Up has failed there is no socket.
BeginClose ==
  /\ up \in {"up", "failed"}
  /\ up' = IF up = "up" THEN "closing" ELSE "closed"
  /\ muxDone' = TRUE
  /\ UNCHANGED <<listen, sockets, packets, routing>>

\* tunKernelDevice.Close goes on to SharedSocket.Close.
CloseSocket ==
  /\ up = "closing"
  /\ up' = "sockclosing"
  /\ StartClose
  /\ UNCHANGED <<listen, packets, muxDone, routing>>

CloseConn(f) ==
  /\ f \in toClose
  /\ conn' = [conn EXCEPT ![f] = "closed"]
  /\ toClose' = toClose \ {f}
  /\ UNCHANGED <<listen, up, ctxDone, packets, muxDone, routing>>

CloseReturns ==
  /\ up = "sockclosing" /\ toClose = {}
  /\ up' = "closed"
  /\ UNCHANGED <<listen, sockets, packets, muxDone, routing>>

-----------------------------------------------------------------------------
Reads(f) == Recvfrom(f) \/ RecvfromEnds(f)
Mux == MuxChecks \/ ReadStopped \/ Handles \/ SlicePanics
Sends(w) == Sendto(w) \/ SendtoNil(w)
Router == ReadRoutes \/ StoreRouter \/ UpdaterStops
Closer == CloseSocket \/ CloseReturns

Next ==
  \/ BeginListen \/ ListenStep \/ NoSocket6 \/ ListenFails \/ ListenReturnsError \/ ListenReturns
  \/ \E f \in Families : \/ Arrives(f) \/ Reads(f) \/ RecvfromFails(f) \/ ReaderStops(f)
                         \/ HandsOver(f) \/ CloseConn(f)
  \/ \E w \in Writers : WriteTo(w) \/ AskRouter(w) \/ Sends(w)
  \/ Mux \/ Router
  \/ BeginClose \/ Closer

Spec == Init /\ [][Next]_vars

\* Every goroutine runs, and a Sendto returns once its socket is closed (that it does
\* before is not assumed).  A goroutine that comes back to a select again and again,
\* with the context's branch ready, takes that branch in the end.  The ticker is
\* slower than the loop of updateRouter.
Fairness ==
  /\ \A f \in Families : /\ WF_vars(Reads(f)) /\ SF_vars(ReaderStops(f))
                         /\ WF_vars(CloseConn(f))
  /\ WF_vars(Mux)
  /\ WF_vars(StoreRouter) /\ SF_vars(UpdaterStops)
  /\ \A w \in Writers : /\ WF_vars(AskRouter(w))
                        /\ WF_vars(Sends(w) /\ conn[writing[w]] # "open")
  /\ WF_vars(Closer)

FairSpec == Spec /\ Fairness

-----------------------------------------------------------------------------
(* Properties *)

Of(f, p) == IF p.family = f THEN <<p.packet>> ELSE <<>>

\* As long as the socket is neither closed nor lost with the process, what the kernel
\* received of a family comes to ReadFromConn once and in order, however the two readers
\* take turns on the one channel, whichever receive fails and whatever does not decode:
\* what ReadFromConn is not done with is in its hands, in those of the reader or in the
\* socket.  And every STUN message it is done with was given to HandleSTUNMessage.
PacketsInOrder ==
  ~ctxDone /\ up # "gone" => \A f \in Families :
    /\ finished[f] \o Of(f, mux.holds) \o Of(f, reader[f].holds) \o inbox[f] = [i \in 1..arrived[f] |-> i]
    /\ \A i \in DOMAIN finished[f] : kind[f][finished[f][i]] = "stun" => finished[f][i] \in given[f]

\* When Listen has failed, or Close has returned, both raw sockets are closed and
\* not only forgotten, at whichever step Listen failed.
NothingLeftOpen == up \in {"failed", "closed"} => \A f \in Families : conn[f] # "open"

Stopped == /\ \A f \in Families : reader[f].pc = "off"
           /\ mux.pc = "off" /\ updater = "off"

\* A device that is being closed gets rid of all its goroutines: readers that hold a
\* packet nobody takes, the mux that waits for one, and the updates of the router,
\* which may wait for the lock of a WriteTo that waits for its socket.  And every
\* WriteTo returns, also one that waits behind the updater, or is called after Close.
GoroutinesEnd ==
  /\ (up = "closing") ~> Stopped
  /\ \A w \in Writers : (ctxDone /\ writing[w] # "idle") ~> writing[w] = "idle"
=============================================================================
