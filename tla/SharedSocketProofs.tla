------------------------ MODULE SharedSocketProofs -------------------------
(***************************************************************************)
(* Theorems about the shared socket, for any number of packets and of      *)
(* receives that fail.                                                     *)
(***************************************************************************)
EXTENDS SharedSocket, SequenceTheorems, TLAPS

Numbers == 1..MaxPackets

\* What a reader holds is of its own family, and before the device is up nobody runs.
HoldsInv ==
  /\ \A f \in Families : reader[f].holds # Err => reader[f].holds.family = f
  /\ up = "down" => mux.pc = "off" /\ \A f \in Families : reader[f].pc = "off"

\* Close closes what is open when the context ends, and nothing is opened after that;
\* who has returned from Close, or from a Listen that failed, has waited for it.
ClosingInv ==
  /\ ctxDone => \A f \in Families : conn[f] = "open" => f \in toClose
  /\ up \in {"failed", "sockclosing", "closed"} => ctxDone
  /\ up \in {"failed", "closed"} => toClose = {}

Inv == TypeOK /\ HoldsInv /\ ClosingInv /\ PacketsInOrder

\* The socket neither closed nor lost with the process.
Alive == ~ctxDone /\ up # "gone"

\* The STUN messages ReadFromConn is done with were given on.
Given(f) == \A i \in DOMAIN finished[f] : kind[f][finished[f][i]] = "stun" => finished[f][i] \in given[f]

-----------------------------------------------------------------------------
(* Packets in a row *)

\* The packets of a family, from the first that is done with to the last that arrived.
Row(f) == finished[f] \o Of(f, mux.holds) \o Of(f, reader[f].holds) \o inbox[f]

\* A failed receive is no packet, and a packet is one of its family only.
LEMMA OfIs ==
  /\ Err \notin Packet
  /\ \A f \in Families : Of(f, Err) = <<>>
  /\ \A f \in Families, p \in Packet : Of(f, p) = IF p.family = f THEN <<p.packet>> ELSE <<>>
  /\ \A f \in Families, p \in Packet \cup {Err} : Of(f, p) \in Seq(Numbers)
<1>1. \A p \in Packet : p.family \in Families /\ p.packet \in Numbers
  BY DEF Packet, Numbers
<1>2. Err.family = None /\ None \notin Families
  BY NoneAssumption DEF Err, Families
<1> QED BY <1>1, <1>2 DEF Of

\* A queue is its first packet and the others.
LEMMA FirstAndRest ==
  ASSUME NEW S, NEW i \in Seq(S), i # <<>>
  PROVE  Head(i) \in S /\ Tail(i) \in Seq(S) /\ <<Head(i)>> \o Tail(i) = i
<1> DEFINE one == <<Head(i)>>
           rest == Tail(i)
<1>1. /\ Head(i) \in S /\ rest \in Seq(S) /\ Len(rest) = Len(i) - 1
      /\ \A j \in 1..Len(rest) : rest[j] = i[j + 1]
  BY HeadTailProperties
<1>2. one \in Seq(S) /\ Len(one) = 1 /\ one[1] = i[1]
  BY <1>1
<1>3. Len(i) \in Nat \ {0}
  BY EmptySeq
<1> HIDE DEF one, rest
<1>4. /\ one \o rest \in Seq(S)
      /\ Len(one \o rest) = Len(one) + Len(rest)
      /\ \A j \in 1..(Len(one) + Len(rest)) :
           (one \o rest)[j] = IF j <= Len(one) THEN one[j] ELSE rest[j - Len(one)]
  <2>1. one \in Seq(S) /\ rest \in Seq(S)
    BY <1>1, <1>2
  <2> QED BY <2>1, ConcatProperties, Zenon
<1>5. Len(one \o rest) = Len(i)
  BY <1>1, <1>2, <1>3, <1>4
<1>6. ASSUME NEW j \in 1..Len(i) PROVE (one \o rest)[j] = i[j]
  <2>1. CASE j = 1
    BY <1>1, <1>2, <1>3, <1>4, <2>1
  <2>2. CASE j # 1
    <3>1. j - 1 \in 1..Len(rest) /\ j \in Nat
      BY <1>1, <1>3, <2>2
    <3> QED BY <1>1, <1>2, <1>3, <1>4, <2>2, <3>1
  <2> QED BY <2>1, <2>2
<1>7. one \o rest = i
  BY <1>4, <1>5, <1>6, SeqEqual
<1> QED BY <1>1, <1>7 DEF one, rest

\* The first packet of a queue moves on to whom has none, and the row stays; a new
\* one joins its end.
LEMMA RowStays ==
  ASSUME NEW S, NEW h \in Seq(S), NEW r \in Seq(S), NEW i \in Seq(S), NEW p \in S
  PROVE  /\ h \o <<>> \o r \o i = h \o r \o <<>> \o i
         /\ Append(h, p) \o <<>> \o r \o i = h \o <<p>> \o r \o i
         /\ i # <<>> => h \o r \o <<Head(i)>> \o Tail(i) = h \o r \o <<>> \o i
         /\ h \o r \o Append(i, p) = Append(h \o r \o i, p)
<1>1. <<p>> \in Seq(S) /\ h \o r \in Seq(S) /\ Append(h, p) \in Seq(S)
  BY ConcatProperties, AppendProperties
<1>2. h \o <<>> = h /\ (h \o r) \o <<>> = h \o r /\ Append(h, p) \o <<>> = Append(h, p)
  BY <1>1, ConcatEmptySeq
<1>3. Append(h, p) = h \o <<p>>
  BY AppendIsConcat
<1>4. ASSUME i # <<>> PROVE h \o r \o <<Head(i)>> \o Tail(i) = h \o r \o <<>> \o i
  <2>1. Head(i) \in S /\ Tail(i) \in Seq(S) /\ <<Head(i)>> \o Tail(i) = i
    BY <1>4, FirstAndRest
  <2>2. <<Head(i)>> \in Seq(S)
    BY <2>1
  <2>3. ((h \o r) \o <<Head(i)>>) \o Tail(i) = (h \o r) \o (<<Head(i)>> \o Tail(i))
    BY <1>1, <2>1, <2>2, ConcatAssociative
  <2> QED BY <1>2, <2>1, <2>3, Zenon
<1>5. h \o r \o Append(i, p) = Append(h \o r \o i, p)
  <2>1. Append(i, p) = i \o <<p>> /\ (h \o r) \o i \in Seq(S)
    BY <1>1, AppendIsConcat, ConcatProperties
  <2>2. Append((h \o r) \o i, p) = ((h \o r) \o i) \o <<p>>
    BY <2>1, AppendIsConcat
  <2>3. ((h \o r) \o i) \o <<p>> = (h \o r) \o (i \o <<p>>)
    BY <1>1, ConcatAssociative
  <2> QED BY <2>1, <2>2, <2>3, Zenon
<1> QED BY <1>2, <1>3, <1>4, <1>5

\* The numbers of the packets that have arrived, when one more comes.
LEMMA OneMore ==
  ASSUME NEW n \in Nat
  PROVE  [i \in 1..(n + 1) |-> i] = Append([i \in 1..n |-> i], n + 1)
<1> DEFINE s == [i \in 1..n |-> i]
           t == [i \in 1..(n + 1) |-> i]
<1>1. s \in Seq(Nat) /\ Len(s) = n
  OBVIOUS
<1>2. t \in Seq(Nat) /\ Len(t) = n + 1
  OBVIOUS
<1>3. /\ Append(s, n + 1) \in Seq(Nat) /\ Len(Append(s, n + 1)) = n + 1
      /\ \A i \in 1..n : Append(s, n + 1)[i] = s[i]
      /\ Append(s, n + 1)[n + 1] = n + 1
  BY <1>1, AppendProperties
<1>4. \A i \in 1..(n + 1) : Append(s, n + 1)[i] = t[i]
  BY <1>3
<1> QED BY <1>2, <1>3, <1>4, SeqEqual

-----------------------------------------------------------------------------
(* The invariant *)

\* The states of a reader and of the mux, by where they are.
Reader == [pc : {"off", "receive"}, holds : {Err}] \cup [pc : {"send"}, holds : Packet \cup {Err}]
MuxState == [pc : {"off", "check", "read"}, holds : {Err}] \cup [pc : {"handle"}, holds : Packet]

LEMMA StatesTyped ==
  /\ \A r \in Reader : /\ r.holds \in Packet \cup {Err}
                       /\ r.pc # "send" => r.holds = Err
                       /\ r.pc \in {"off", "receive", "send"}
                       /\ r.pc = "receive" => [r EXCEPT !.pc = "send"] \in Reader /\ [r EXCEPT !.pc = "send"].holds = Err
  /\ \A m \in MuxState : /\ m.pc = "handle" => m.holds \in Packet
                         /\ m.pc # "handle" => m.holds = Err
                         /\ m.holds \in Packet \cup {Err}
                         /\ m.pc # "handle" => \A l \in {"off", "check", "read"} :
                              [m EXCEPT !.pc = l] \in MuxState /\ [m EXCEPT !.pc = l].holds = Err
  BY DEF Reader, MuxState

LEMMA StepsLength == Len(Steps) = 7
  BY DEF Steps

\* The socket starts without packets.
LEMMA InitInv == Init => Inv
<1> SUFFICES ASSUME Init PROVE Inv
  OBVIOUS
<1>1. TypeOK
  <2>1. reader \in [Families -> Reader] /\ mux \in MuxState
    BY DEF Init, Reader, MuxState
  <2>2. /\ arrived \in [Families -> 0..MaxPackets]
        /\ inbox \in [Families -> Seq(1..MaxPackets)]
        /\ finished \in [Families -> Seq(1..MaxPackets)]
        /\ given \in [Families -> SUBSET (1..MaxPackets)]
        /\ writing \in [Writers -> {"idle", "wait"} \cup Families]
    BY BoundsAssumption DEF Init
  <2>3. listen \in 0..(Len(Steps) + 1)
    BY BoundsAssumption, StepsLength DEF Init
  <2>4. kind \in [Families -> [1..MaxPackets -> Kinds]]
    BY TrafficAssumption DEF Init
  <2> QED BY <2>1, <2>2, <2>3, <2>4 DEF Init, TypeOK, Reader, MuxState
<1>2. HoldsInv /\ ClosingInv
  BY DEF Init, HoldsInv, ClosingInv
<1>3. ASSUME NEW f \in Families PROVE Row(f) = [i \in 1..arrived[f] |-> i]
  <2>1. Row(f) = <<>> \o <<>> \o <<>> \o <<>>
    BY OfIs DEF Row, Init
  <2>2. Row(f) = <<>>
    BY <2>1
  <2>3. arrived[f] = 0
    BY DEF Init
  <2> QED BY <2>2, <2>3
<1>4. \A f \in Families : Given(f)
  BY DEF Init, Given
<1> QED BY <1>1, <1>2, <1>3, <1>4 DEF Inv, PacketsInOrder, Row, Given

\* A step that moves no packet.
LEMMA StillInv ==
  ASSUME TypeOK, HoldsInv, PacketsInOrder, UNCHANGED packets, Alive' => Alive, up' # "down" \/ up = "down"
  PROVE  HoldsInv' /\ PacketsInOrder'
<1>1. HoldsInv'
  BY DEF HoldsInv, packets
<1>2. \A f \in Families : Row(f)' = Row(f) /\ Given(f)' = Given(f)
  BY DEF Row, Given, packets
<1>3. ASSUME NEW f \in Families, Alive PROVE Row(f) = [i \in 1..arrived[f] |-> i] /\ Given(f)
  BY <1>3 DEF PacketsInOrder, Row, Given, Alive
<1>4. ASSUME NEW f \in Families, Alive' PROVE Row(f)' = [i \in 1..arrived'[f] |-> i] /\ Given(f)'
  BY <1>2, <1>3, <1>4 DEF packets
<1> QED BY <1>1, <1>4 DEF PacketsInOrder, Row, Given, Alive

\* Listen, the router, WriteTo and Close move no packet.
Writes == \E w \in Writers : WriteTo(w) \/ AskRouter(w) \/ Sendto(w)

Still ==
  \/ BeginListen \/ ListenStep \/ NoSocket6 \/ ListenFails \/ ListenReturnsError
  \/ Router \/ Writes \/ \E f \in Families : CloseConn(f)
  \/ BeginClose \/ Closer

LEMMA StillStep == ASSUME Inv, Still PROVE Inv'
<1> USE DEF Inv
<1>1. /\ UNCHANGED packets
      /\ Alive' => Alive
      /\ up' # "down" \/ up = "down"
  BY DEF Still, BeginListen, ListenStep, NoSocket6, ListenFails, ListenReturnsError, StartClose,
         Router, ReadRoutes, StoreRouter, UpdaterStops, Writes, WriteTo, Sendto, AskRouter, CloseConn, BeginClose,
         Closer, CloseSocket, CloseReturns, sockets, Alive
<1>2. HoldsInv' /\ PacketsInOrder'
  BY <1>1, StillInv
<1>3. conn \in [Families -> {"nil", "open", "closed"}] /\ toClose \subseteq Families /\ ctxDone \in BOOLEAN
  BY DEF TypeOK
<1>4. /\ listen' \in 0..(Len(Steps) + 1)
      /\ up' \in {"down", "up", "failed", "closing", "sockclosing", "closed", "gone"}
      /\ updater' \in {"off", "wait", "lock"}
  BY StepsLength
  DEF Still, BeginListen, ListenStep, NoSocket6, ListenFails, ListenReturnsError, At,
      Router, ReadRoutes, StoreRouter, UpdaterStops, Writes, WriteTo, Sendto, AskRouter, CloseConn, BeginClose,
      Closer, CloseSocket, CloseReturns, routing, TypeOK
<1>w. writing' \in [Writers -> {"idle", "wait"} \cup Families]
  <2>1. CASE Writes
    <3>1. PICK w \in Writers : WriteTo(w) \/ AskRouter(w) \/ Sendto(w)
      BY <2>1 DEF Writes
    <3>2. PICK x \in {"idle", "wait"} \cup Families : writing' = [writing EXCEPT ![w] = x]
      BY <3>1 DEF WriteTo, AskRouter, Sendto
    <3> QED BY <3>2 DEF TypeOK
  <2>2. CASE UNCHANGED writing
    BY <2>2 DEF TypeOK
  <2> QED
    BY <2>1, <2>2
    DEF Still, BeginListen, ListenStep, NoSocket6, ListenFails, ListenReturnsError, StartClose,
        Router, ReadRoutes, StoreRouter, UpdaterStops, CloseConn, BeginClose, Closer, CloseSocket,
        CloseReturns, routing
<1>5. /\ conn' \in [Families -> {"nil", "open", "closed"}] /\ toClose' \subseteq Families
      /\ ctxDone' \in BOOLEAN /\ muxDone' \in BOOLEAN
      /\ ClosingInv'
  <2>1. CASE ListenStep
    <3>1. ~ctxDone /\ UNCHANGED <<ctxDone, toClose, muxDone, up>>
      BY <2>1 DEF ListenStep, At
    <3>2. conn' \in [Families -> {"nil", "open", "closed"}]
      BY <1>3, <2>1 DEF ListenStep, Families
    <3> QED BY <1>3, <3>1, <3>2 DEF ClosingInv, TypeOK
  <2>2. CASE ListenFails \/ CloseSocket
    <3>1. /\ ctxDone' = TRUE /\ toClose' = {f \in Families : conn[f] # "nil"}
          /\ UNCHANGED <<conn, muxDone>>
      BY <2>2 DEF ListenFails, CloseSocket, StartClose
    <3>2. up' \notin {"failed", "closed"}
      BY <2>2 DEF ListenFails, CloseSocket, At, ClosingInv
    <3> QED BY <1>3, <3>1, <3>2 DEF ClosingInv, TypeOK
  <2>3. CASE \E f \in Families : CloseConn(f)
    <3>1. PICK f \in Families : CloseConn(f)
      BY <2>3
    <3>2. /\ conn' = [conn EXCEPT ![f] = "closed"] /\ toClose' = toClose \ {f} /\ f \in toClose
          /\ UNCHANGED <<up, ctxDone, muxDone>>
      BY <3>1 DEF CloseConn
    <3> QED BY <1>3, <3>2 DEF ClosingInv, TypeOK
  <2>4. CASE UNCHANGED sockets /\ up' \in {up, "closing"} /\ muxDone' \in BOOLEAN
    BY <1>3, <2>4 DEF ClosingInv, TypeOK, sockets
  <2>5. CASE UNCHANGED <<sockets, muxDone>> /\ ctxDone /\ toClose = {}
    BY <1>3, <2>5 DEF ClosingInv, TypeOK, sockets
  <2>6. CASE BeginClose
    <3>1. UNCHANGED sockets /\ muxDone' = TRUE
      BY <2>6 DEF BeginClose
    <3>2. CASE up = "up"
      BY <2>4, <2>6, <3>1, <3>2 DEF BeginClose
    <3>3. CASE up = "failed"
      BY <1>3, <2>6, <3>1, <3>3 DEF BeginClose, ClosingInv, sockets
    <3> QED BY <2>6, <3>2, <3>3 DEF BeginClose
  <2>7. CASE ListenReturnsError \/ CloseReturns
    BY <2>5, <2>7 DEF ListenReturnsError, CloseReturns, ClosingInv
  <2>8. CASE BeginListen \/ NoSocket6 \/ Router \/ Writes
    <3>1. UNCHANGED <<sockets, up, muxDone>>
      BY <2>8 DEF BeginListen, NoSocket6, Router, ReadRoutes, StoreRouter, UpdaterStops,
                  Writes, WriteTo, Sendto, AskRouter
    <3> QED BY <1>3, <3>1 DEF ClosingInv, TypeOK, sockets
  <2> QED BY <2>1, <2>2, <2>3, <2>6, <2>7, <2>8 DEF Still, Closer
<1>6. TypeOK'
  BY <1>1, <1>4, <1>5, <1>w DEF TypeOK, packets
<1> QED BY <1>2, <1>5, <1>6

\* The rest of what a step that moves packets has to leave as it is.
LEMMA MoveInv ==
  ASSUME Inv, UNCHANGED <<listen, sockets, muxDone, updater, writing, kind>>,
         up' = up \/ up' = "up",
         arrived' \in [Families -> 0..MaxPackets],
         inbox' \in [Families -> Seq(Numbers)], finished' \in [Families -> Seq(Numbers)],
         given' \in [Families -> SUBSET Numbers],
         reader' \in [Families -> Reader], mux' \in MuxState
  PROVE  TypeOK' /\ ClosingInv'
<1> USE DEF Inv
<1>1. TypeOK'
  BY DEF TypeOK, Reader, MuxState, Numbers, sockets
<1>2. ClosingInv'
  BY DEF ClosingInv, sockets
<1> QED BY <1>1, <1>2

\* What the invariant says of the parts of a family's row.
LEMMA RowTyped ==
  ASSUME Inv, NEW f \in Families
  PROVE  /\ finished[f] \in Seq(Numbers) /\ inbox[f] \in Seq(Numbers) /\ arrived[f] \in 0..MaxPackets
         /\ reader[f] \in Reader /\ mux \in MuxState
         /\ Of(f, mux.holds) \in Seq(Numbers) /\ Of(f, reader[f].holds) \in Seq(Numbers)
         /\ Alive => Row(f) = [i \in 1..arrived[f] |-> i] /\ Given(f)
<1>1. /\ finished[f] \in Seq(Numbers) /\ inbox[f] \in Seq(Numbers) /\ arrived[f] \in 0..MaxPackets
      /\ reader[f] \in Reader /\ mux \in MuxState
  BY DEF Inv, TypeOK, Numbers, Reader, MuxState
<1>2. mux.holds \in Packet \cup {Err} /\ reader[f].holds \in Packet \cup {Err}
  BY <1>1, StatesTyped
<1>3. Of(f, mux.holds) \in Seq(Numbers) /\ Of(f, reader[f].holds) \in Seq(Numbers)
  BY <1>2, OfIs
<1>4. Alive => Row(f) = [i \in 1..arrived[f] |-> i] /\ Given(f)
  BY DEF Inv, PacketsInOrder, Row, Given, Alive
<1> QED BY <1>1, <1>3, <1>4

\* The rows of the families are what PacketsInOrder says.
LEMMA RowsInOrder ==
  ASSUME \A f \in Families : Alive' => Row(f)' = [i \in 1..arrived'[f] |-> i] /\ Given(f)'
  PROVE  PacketsInOrder'
  BY DEF PacketsInOrder, Row, Given, Alive

\* A packet joins the end of its socket's queue.
LEMMA ArrivesStep == ASSUME Inv, NEW f \in Families, Arrives(f) PROVE Inv'
<1>1. /\ arrived' = [arrived EXCEPT ![f] = @ + 1]
      /\ inbox' = [inbox EXCEPT ![f] = Append(@, arrived'[f])]
      /\ arrived[f] < MaxPackets
      /\ UNCHANGED <<listen, up, sockets, reader, mux, kind, finished, given, muxDone, routing>>
  BY DEF Arrives
<1>2. /\ arrived \in [Families -> 0..MaxPackets] /\ inbox \in [Families -> Seq(Numbers)]
      /\ finished \in [Families -> Seq(Numbers)] /\ reader \in [Families -> Reader]
      /\ mux \in MuxState /\ given \in [Families -> SUBSET Numbers]
  BY DEF Inv, TypeOK, Numbers, Reader, MuxState
<1> DEFINE n == arrived[f] + 1
<1>3. /\ arrived[f] \in Nat /\ n \in Numbers
      /\ arrived'[f] = n /\ inbox'[f] = Append(inbox[f], n)
      /\ \A g \in Families : g # f => arrived'[g] = arrived[g] /\ inbox'[g] = inbox[g]
  BY <1>1, <1>2, BoundsAssumption DEF Numbers
<1>4. Append(inbox[f], n) \in Seq(Numbers)
  BY <1>2, <1>3, AppendProperties
<1>5. arrived' \in [Families -> 0..MaxPackets] /\ inbox' \in [Families -> Seq(Numbers)]
  BY <1>1, <1>2, <1>3, <1>4, BoundsAssumption DEF Numbers
<1>6. TypeOK' /\ ClosingInv'
  BY <1>1, <1>2, <1>5, MoveInv DEF routing
<1>7. HoldsInv'
  BY <1>1 DEF HoldsInv, Inv
<1>8. ASSUME NEW g \in Families, Alive PROVE Row(g)' = [i \in 1..arrived'[g] |-> i] /\ Given(g)'
  <2>0. Given(g)'
    BY <1>1, <1>8, RowTyped DEF Given
  <2>1. CASE g # f
    BY <1>1, <1>3, <1>8, <2>0, <2>1, RowTyped DEF Row
  <2>2. CASE g = f
    <3> DEFINE h == finished[f] \o Of(f, mux.holds)
               r == Of(f, reader[f].holds)
               q == inbox[f]
    <3>1. /\ finished[f] \in Seq(Numbers) /\ Of(f, mux.holds) \in Seq(Numbers)
          /\ r \in Seq(Numbers) /\ q \in Seq(Numbers)
      BY RowTyped
    <3>2. h \in Seq(Numbers)
      BY <3>1, ConcatProperties
    <3>3. Row(f)' = h \o r \o Append(q, n)
      BY <1>1, <1>3 DEF Row
    <3>4. Row(f) = h \o r \o q /\ Row(f) = [i \in 1..arrived[f] |-> i]
      BY <1>8, RowTyped DEF Row
    <3>5. n \in Numbers
      BY <1>3
    <3> HIDE DEF h, r, q, n
    <3>6. h \o r \o Append(q, n) = Append(h \o r \o q, n)
      BY <3>1, <3>2, <3>5, RowStays
    <3>7. [i \in 1..n |-> i] = Append([i \in 1..arrived[f] |-> i], n)
      BY <1>3, OneMore DEF n
    <3> QED BY <1>3, <2>0, <2>2, <3>3, <3>4, <3>6, <3>7
  <2> QED BY <2>1, <2>2
<1>9. PacketsInOrder'
  <2>1. Alive' <=> Alive
    BY <1>1 DEF sockets, Alive
  <2> QED BY <1>8, <2>1, RowsInOrder
<1> QED BY <1>6, <1>7, <1>9 DEF Inv

\* The first packet of the queue goes to its reader, which holds none.
LEMMA RecvfromStep == ASSUME Inv, NEW f \in Families, Recvfrom(f) PROVE Inv'
<1> DEFINE p == [family |-> f, packet |-> Head(inbox[f])]
           rd == [pc |-> "send", holds |-> p]
<1>1. /\ reader[f].pc = "receive" /\ inbox[f] # <<>>
      /\ inbox' = [inbox EXCEPT ![f] = Tail(@)]
      /\ reader' = [reader EXCEPT ![f] = rd]
      /\ UNCHANGED <<listen, up, sockets, arrived, mux, kind, finished, given, muxDone, routing>>
  BY DEF Recvfrom
<1>2. /\ arrived \in [Families -> 0..MaxPackets] /\ inbox \in [Families -> Seq(Numbers)]
      /\ finished \in [Families -> Seq(Numbers)] /\ reader \in [Families -> Reader]
      /\ mux \in MuxState /\ given \in [Families -> SUBSET Numbers]
  BY DEF Inv, TypeOK, Numbers, Reader, MuxState
<1>3. Head(inbox[f]) \in Numbers /\ Tail(inbox[f]) \in Seq(Numbers)
  BY <1>1, <1>2, FirstAndRest
<1>4. p \in Packet /\ rd \in Reader /\ p.family = f /\ p.packet = Head(inbox[f]) /\ rd.holds = p
  BY <1>3 DEF Packet, Reader, Numbers
<1> HIDE DEF p, rd
<1>5. inbox' \in [Families -> Seq(Numbers)] /\ reader' \in [Families -> Reader]
  BY <1>1, <1>2, <1>3, <1>4
<1>6. TypeOK' /\ ClosingInv'
  BY <1>1, <1>2, <1>5, MoveInv DEF routing
<1>7. /\ inbox'[f] = Tail(inbox[f]) /\ reader'[f] = rd
      /\ \A g \in Families : g # f => inbox'[g] = inbox[g] /\ reader'[g] = reader[g]
  BY <1>1, <1>2
<1>8. HoldsInv'
  <2>1. up # "down"
    BY <1>1 DEF HoldsInv, Inv
  <2> QED BY <1>1, <1>4, <1>7, <2>1 DEF HoldsInv, Inv
<1>9. ASSUME NEW g \in Families, Alive PROVE Row(g)' = [i \in 1..arrived'[g] |-> i] /\ Given(g)'
  <2>0. Given(g)'
    BY <1>1, <1>9, RowTyped DEF Given
  <2>1. CASE g # f
    BY <1>1, <1>7, <1>9, <2>0, <2>1, RowTyped DEF Row
  <2>2. CASE g = f
    <3> DEFINE h == finished[f]
               r == Of(f, mux.holds)
               q == inbox[f]
    <3>1. h \in Seq(Numbers) /\ r \in Seq(Numbers) /\ q \in Seq(Numbers)
      BY RowTyped
    <3>2. Of(f, reader[f].holds) = <<>> /\ Of(f, p) = <<Head(q)>>
      <4>1. reader[f] \in Reader
        BY <1>2
      <4>2. reader[f].holds = Err
        BY <1>1, <4>1, StatesTyped
      <4> QED BY <1>4, <4>2, OfIs
    <3>3. Row(f)' = h \o r \o <<Head(q)>> \o Tail(q)
      BY <1>1, <1>4, <1>7, <3>2 DEF Row
    <3>4. Row(f) = h \o r \o <<>> \o q /\ Row(f) = [i \in 1..arrived[f] |-> i]
      BY <1>9, <3>2, RowTyped DEF Row
    <3>5. q # <<>> /\ Head(q) \in Numbers
      BY <1>1, <1>3
    <3> HIDE DEF h, r, q
    <3>6. h \o r \o <<Head(q)>> \o Tail(q) = h \o r \o <<>> \o q
      BY <3>1, <3>5, RowStays
    <3> QED BY <1>1, <2>0, <2>2, <3>3, <3>4, <3>6
  <2> QED BY <2>1, <2>2
<1>10. PacketsInOrder'
  <2>1. Alive' <=> Alive
    BY <1>1 DEF sockets, Alive
  <2> QED BY <1>9, <2>1, RowsInOrder
<1> QED BY <1>6, <1>8, <1>10 DEF Inv

\* A receive that failed is no packet.
LEMMA ReceiveFailsStep ==
  ASSUME Inv, NEW f \in Families, RecvfromEnds(f) \/ RecvfromFails(f) PROVE Inv'
<1>1. /\ reader[f].pc = "receive"
      /\ reader' = [reader EXCEPT ![f].pc = "send"]
      /\ UNCHANGED <<listen, up, sockets, arrived, inbox, mux, kind, finished, given, muxDone, routing>>
  BY DEF RecvfromEnds, RecvfromFails
<1>2. /\ arrived \in [Families -> 0..MaxPackets] /\ inbox \in [Families -> Seq(Numbers)]
      /\ finished \in [Families -> Seq(Numbers)] /\ reader \in [Families -> Reader]
      /\ mux \in MuxState /\ given \in [Families -> SUBSET Numbers]
  BY DEF Inv, TypeOK, Numbers, Reader, MuxState
<1>3. /\ reader'[f] = [reader[f] EXCEPT !.pc = "send"]
      /\ \A g \in Families : g # f => reader'[g] = reader[g]
  BY <1>1, <1>2
<1>4. reader'[f] \in Reader /\ reader'[f].holds = Err /\ reader[f].holds = Err
  BY <1>1, <1>2, <1>3, StatesTyped
<1>5. reader' \in [Families -> Reader]
  BY <1>1, <1>2, <1>3, <1>4
<1>6. TypeOK' /\ ClosingInv'
  BY <1>1, <1>2, <1>5, MoveInv DEF routing
<1>7. HoldsInv'
  <2>1. up # "down"
    BY <1>1 DEF HoldsInv, Inv
  <2> QED BY <1>1, <1>3, <1>4, <2>1 DEF HoldsInv, Inv
<1>8. PacketsInOrder'
  <2>1. \A g \in Families : Row(g)' = Row(g) /\ Given(g)' = Given(g)
    BY <1>1, <1>3, <1>4 DEF Row, Given
  <2>2. Alive' <=> Alive
    BY <1>1 DEF sockets, Alive
  <2> QED BY <1>1, <2>1, <2>2, RowTyped, RowsInOrder
<1> QED BY <1>6, <1>7, <1>8 DEF Inv

\* A reader that stops drops what it holds, but only when the socket is being closed.
LEMMA ReaderStopsStep == ASSUME Inv, NEW f \in Families, ReaderStops(f) PROVE Inv'
<1> DEFINE off == [pc |-> "off", holds |-> Err]
<1>1. /\ reader[f].pc = "send" /\ ctxDone
      /\ reader' = [reader EXCEPT ![f] = off]
      /\ UNCHANGED <<listen, up, sockets, arrived, inbox, mux, kind, finished, given, muxDone, routing>>
  BY DEF ReaderStops
<1>2. /\ arrived \in [Families -> 0..MaxPackets] /\ inbox \in [Families -> Seq(Numbers)]
      /\ finished \in [Families -> Seq(Numbers)] /\ reader \in [Families -> Reader]
      /\ mux \in MuxState /\ given \in [Families -> SUBSET Numbers]
  BY DEF Inv, TypeOK, Numbers, Reader, MuxState
<1>3. off \in Reader /\ off.holds = Err /\ off.pc = "off"
  BY DEF Reader
<1> HIDE DEF off
<1>4. reader' \in [Families -> Reader]
  BY <1>1, <1>2, <1>3
<1>5. TypeOK' /\ ClosingInv'
  BY <1>1, <1>2, <1>4, MoveInv DEF routing
<1>6. HoldsInv'
  BY <1>1, <1>2, <1>3 DEF HoldsInv, Inv
<1>7. PacketsInOrder'
  BY <1>1 DEF PacketsInOrder, sockets
<1> QED BY <1>5, <1>6, <1>7 DEF Inv

\* The mux looks at its context or leaves a read that was stopped; it holds no packet.
LEMMA MuxTurnsStep == ASSUME Inv, MuxChecks \/ ReadStopped PROVE Inv'
<1>1. PICK l \in {"off", "check", "read"} :
        /\ mux.pc \in {"check", "read"} /\ mux' = [mux EXCEPT !.pc = l]
        /\ UNCHANGED <<listen, up, sockets, arrived, inbox, reader, kind, finished, given, muxDone, routing>>
  BY DEF MuxChecks, ReadStopped
<1>2. /\ arrived \in [Families -> 0..MaxPackets] /\ inbox \in [Families -> Seq(Numbers)]
      /\ finished \in [Families -> Seq(Numbers)] /\ reader \in [Families -> Reader]
      /\ mux \in MuxState /\ given \in [Families -> SUBSET Numbers]
  BY DEF Inv, TypeOK, Numbers, Reader, MuxState
<1>3. mux' \in MuxState /\ mux'.holds = Err /\ mux.holds = Err
  BY <1>1, <1>2, StatesTyped
<1>4. TypeOK' /\ ClosingInv'
  BY <1>1, <1>2, <1>3, MoveInv DEF routing
<1>5. HoldsInv'
  BY <1>1 DEF HoldsInv, Inv
<1>6. PacketsInOrder'
  <2>1. \A g \in Families : Row(g)' = Row(g) /\ Given(g)' = Given(g)
    BY <1>1, <1>3 DEF Row, Given
  <2>2. Alive' <=> Alive
    BY <1>1 DEF sockets, Alive
  <2> QED BY <1>1, <2>1, <2>2, RowTyped, RowsInOrder
<1> QED BY <1>4, <1>5, <1>6 DEF Inv

\* A packet that ReadFromConn is done with, and gave on if it is a STUN message.
LEMMA FinishesGiven ==
  ASSUME Inv, NEW f \in Families, NEW n \in Numbers,
         finished' = [finished EXCEPT ![f] = Append(@, n)], kind' = kind,
         \A g \in Families : given[g] \subseteq given'[g],
         kind[f][n] = "stun" => n \in given'[f]
  PROVE  /\ finished' \in [Families -> Seq(Numbers)]
         /\ finished'[f] = Append(finished[f], n)
         /\ \A g \in Families : g # f => finished'[g] = finished[g]
         /\ \A g \in Families : Given(g) => Given(g)'
<1>1. finished \in [Families -> Seq(Numbers)]
  BY DEF Inv, TypeOK, Numbers
<1>2. /\ Append(finished[f], n) \in Seq(Numbers)
      /\ Len(Append(finished[f], n)) = Len(finished[f]) + 1
      /\ \A i \in 1..Len(finished[f]) : Append(finished[f], n)[i] = finished[f][i]
      /\ Append(finished[f], n)[Len(finished[f]) + 1] = n
      /\ Len(finished[f]) \in Nat
  BY <1>1, AppendProperties, LenProperties
<1>3. /\ finished' \in [Families -> Seq(Numbers)]
      /\ finished'[f] = Append(finished[f], n)
      /\ \A g \in Families : g # f => finished'[g] = finished[g]
  BY <1>1, <1>2
<1>4. ASSUME NEW g \in Families, Given(g), g # f PROVE Given(g)'
  BY <1>3, <1>4 DEF Given
<1>5. ASSUME Given(f) PROVE Given(f)'
  <2>1. DOMAIN finished[f] = 1..Len(finished[f]) /\ DOMAIN finished'[f] = 1..(Len(finished[f]) + 1)
    <3>1. Append(finished[f], n) \in Seq(Numbers) /\ finished[f] \in Seq(Numbers)
      BY <1>1, <1>2
    <3> QED BY <1>2, <1>3, <3>1, LenProperties
  <2>2. ASSUME NEW i \in DOMAIN finished'[f] PROVE finished'[f][i] = n \/ (i \in DOMAIN finished[f] /\ finished'[f][i] = finished[f][i])
    BY <1>2, <1>3, <2>1
  <2> QED BY <1>5, <2>2 DEF Given
<1> QED BY <1>3, <1>4, <1>5

\* The packet of a reader goes to the mux, which holds none of any family, unless it
\* cannot be taken apart.
LEMMA HandsOverStep == ASSUME Inv, NEW f \in Families, HandsOver(f) PROVE Inv'
<1> DEFINE p == reader[f].holds
           rd == [pc |-> "receive", holds |-> Err]
           chk == [pc |-> "check", holds |-> Err]
           hnd == [pc |-> "handle", holds |-> p]
           drop == p # Err /\ Kind(p) = "nolayers"
<1>1. /\ reader[f].pc = "send" /\ mux.pc = "read"
      /\ reader' = [reader EXCEPT ![f] = rd]
      /\ UNCHANGED <<listen, up, sockets, arrived, inbox, kind, given, muxDone, routing>>
  BY DEF HandsOver
<1>d. \/ drop /\ mux' = chk /\ finished' = [finished EXCEPT ![f] = Append(@, p.packet)]
      \/ ~drop /\ mux' = (IF p = Err THEN chk ELSE hnd) /\ finished' = finished
  BY DEF HandsOver
<1>2. /\ arrived \in [Families -> 0..MaxPackets] /\ inbox \in [Families -> Seq(Numbers)]
      /\ finished \in [Families -> Seq(Numbers)] /\ reader \in [Families -> Reader]
      /\ mux \in MuxState /\ given \in [Families -> SUBSET Numbers]
  BY DEF Inv, TypeOK, Numbers, Reader, MuxState
<1>3. p \in Packet \cup {Err} /\ mux.holds = Err
  BY <1>1, <1>2, StatesTyped
<1>4. chk \in MuxState /\ chk.holds = Err /\ (p # Err => hnd \in MuxState) /\ hnd.holds = p
  BY <1>3 DEF MuxState
<1>5. rd \in Reader /\ rd.holds = Err
  BY DEF Reader
<1>6. p # Err => p.family = f /\ p.packet \in Numbers
  BY <1>3 DEF Inv, HoldsInv, Packet, Numbers
<1>7. reader' \in [Families -> Reader] /\ mux' \in MuxState
  BY <1>1, <1>2, <1>4, <1>5, <1>d
<1>f. ASSUME drop
      PROVE  /\ finished' \in [Families -> Seq(Numbers)]
             /\ finished'[f] = Append(finished[f], p.packet)
             /\ \A g \in Families : g # f => finished'[g] = finished[g]
             /\ \A g \in Families : Given(g) => Given(g)'
  <2>1. finished' = [finished EXCEPT ![f] = Append(@, p.packet)] /\ kind' = kind /\ given' = given
    BY <1>1, <1>d, <1>f
  <2>2. p.packet \in Numbers /\ kind[f][p.packet] # "stun"
    BY <1>6, <1>f DEF Kind
  <2> HIDE DEF p, drop
  <2> QED BY <2>1, <2>2, FinishesGiven
<1>g. \A g \in Families : Given(g) => Given(g)'
  <2>1. CASE drop
    BY <1>f, <2>1
  <2>2. CASE ~drop
    BY <1>1, <1>d, <2>2 DEF Given
  <2> QED BY <2>1, <2>2
<1>8. TypeOK' /\ ClosingInv'
  <2>1. finished' \in [Families -> Seq(Numbers)]
    BY <1>2, <1>d, <1>f
  <2> QED BY <1>1, <1>2, <1>7, <2>1, MoveInv DEF routing
<1>9. reader'[f].holds = Err /\ \A g \in Families : g # f => reader'[g] = reader[g]
  BY <1>1, <1>2, <1>5
<1>10. HoldsInv'
  <2>1. up # "down"
    BY <1>1 DEF HoldsInv, Inv
  <2> QED BY <1>1, <1>9, <2>1 DEF HoldsInv, Inv
<1> HIDE DEF rd, chk, hnd, drop
<1>11. ASSUME NEW g \in Families PROVE Row(g)' = Row(g)
  <2>1. Of(g, mux.holds) = <<>> /\ Of(g, Err) = <<>>
    BY <1>3, OfIs
  <2>2. CASE g # f
    <3>1. Of(g, p) = <<>>
      BY <1>3, <1>6, <2>2, OfIs
    <3>2. Of(g, mux'.holds) = <<>> /\ finished'[g] = finished[g]
      BY <1>4, <1>d, <1>f, <2>1, <2>2, <3>1
    <3> QED BY <1>1, <1>9, <2>1, <2>2, <3>2 DEF Row
  <2>3. CASE g = f /\ ~drop
    <3> DEFINE h == finished[f]
               r == Of(f, p)
               q == inbox[f]
    <3>1. h \in Seq(Numbers) /\ r \in Seq(Numbers) /\ q \in Seq(Numbers)
      BY RowTyped
    <3>2. Of(f, mux'.holds) = r /\ finished'[f] = h
      BY <1>4, <1>d, <2>1, <2>3
    <3>3. Row(f)' = h \o r \o <<>> \o q
      BY <1>1, <1>9, <2>1, <2>3, <3>2 DEF Row
    <3>4. Row(f) = h \o <<>> \o r \o q
      BY <2>1, <2>3 DEF Row
    <3> HIDE DEF h, r, q
    <3>5. h \o <<>> \o r \o q = h \o r \o <<>> \o q
      <4>1. \A s \in Seq(Numbers) : s \o <<>> = s
        BY ConcatEmptySeq
      <4>2. h \o r \in Seq(Numbers)
        BY <3>1, ConcatProperties
      <4> QED BY <3>1, <4>1, <4>2
    <3> QED BY <2>3, <3>3, <3>4, <3>5
  <2>4. CASE g = f /\ drop
    <3> DEFINE h == finished[f]
               n == p.packet
               q == inbox[f]
    <3>1. h \in Seq(Numbers) /\ q \in Seq(Numbers) /\ n \in Numbers /\ Of(f, p) = <<n>>
      BY <1>3, <1>6, <2>4, OfIs, RowTyped DEF drop
    <3>2. Of(f, mux'.holds) = <<>> /\ finished'[f] = Append(h, n)
      BY <1>4, <1>d, <1>f, <2>1, <2>4
    <3>3. Row(f)' = Append(h, n) \o <<>> \o <<>> \o q
      BY <1>1, <1>9, <2>1, <2>4, <3>2 DEF Row
    <3>4. Row(f) = h \o <<>> \o <<n>> \o q
      BY <2>1, <2>4, <3>1 DEF Row
    <3> HIDE DEF h, n, q
    <3>5. Append(h, n) \o <<>> \o <<>> \o q = h \o <<>> \o <<n>> \o q
      <4>1. \A s \in Seq(Numbers) : s \o <<>> = s
        BY ConcatEmptySeq
      <4>2. Append(h, n) \in Seq(Numbers) /\ Append(h, n) = h \o <<n>>
        BY <3>1, AppendProperties, AppendIsConcat
      <4>3. Append(h, n) \o <<>> \o <<>> = Append(h, n)
        BY <4>1, <4>2
      <4>4. h \o <<>> = h
        BY <3>1, <4>1
      <4> QED BY <4>2, <4>3, <4>4, Zenon
    <3> QED BY <2>4, <3>3, <3>4, <3>5
  <2> QED BY <2>2, <2>3, <2>4
<1>12. PacketsInOrder'
  <2>1. Alive' <=> Alive
    BY <1>1 DEF sockets, Alive
  <2> QED BY <1>1, <1>11, <1>g, <2>1, RowTyped, RowsInOrder
<1> QED BY <1>8, <1>10, <1>12 DEF Inv

\* The mux is done with its packet, after those of its family that were.
LEMMA HandlesStep == ASSUME Inv, Handles PROVE Inv'
<1> DEFINE p == mux.holds
           f == p.family
           n == p.packet
           m == [pc |-> "check", holds |-> Err]
<1>1. /\ mux.pc = "handle"
      /\ finished' = [finished EXCEPT ![f] = Append(@, n)]
      /\ mux' = m
      /\ UNCHANGED <<listen, up, sockets, arrived, inbox, reader, kind, muxDone, routing>>
  BY DEF Handles
<1>2. /\ arrived \in [Families -> 0..MaxPackets] /\ inbox \in [Families -> Seq(Numbers)]
      /\ finished \in [Families -> Seq(Numbers)] /\ reader \in [Families -> Reader]
      /\ mux \in MuxState /\ given \in [Families -> SUBSET Numbers]
  BY DEF Inv, TypeOK, Numbers, Reader, MuxState
<1>3. p \in Packet
  BY <1>1, <1>2, StatesTyped
<1>4. f \in Families /\ n \in Numbers
  BY <1>3 DEF Packet, Numbers
<1>5. m \in MuxState /\ m.holds = Err
  BY DEF MuxState
<1> HIDE DEF m
<1>6. /\ given' \in [Families -> SUBSET Numbers]
      /\ \A g \in Families : given[g] \subseteq given'[g]
      /\ kind[f][n] = "stun" => n \in given'[f]
  <2>1. PICK decoded \in BOOLEAN :
          /\ given' = IF decoded THEN [given EXCEPT ![f] = @ \cup {n}] ELSE given
          /\ kind[f][n] = "stun" => decoded
    BY DEF Handles, Kind
  <2> QED BY <1>2, <1>4, <2>1
<1>7. /\ finished' \in [Families -> Seq(Numbers)]
      /\ finished'[f] = Append(finished[f], n)
      /\ \A g \in Families : g # f => finished'[g] = finished[g]
      /\ \A g \in Families : Given(g) => Given(g)'
  <2>1. kind' = kind /\ finished' = [finished EXCEPT ![f] = Append(@, n)] /\ f \in Families /\ n \in Numbers
    BY <1>1, <1>4
  <2> HIDE DEF f, n
  <2> QED BY <1>6, <2>1, FinishesGiven
<1>8. TypeOK' /\ ClosingInv'
  BY <1>1, <1>2, <1>5, <1>6, <1>7, MoveInv DEF routing
<1>9. HoldsInv'
  BY <1>1 DEF HoldsInv, Inv
<1>10. ASSUME NEW g \in Families PROVE Row(g)' = Row(g)
  <2>1. Of(g, m.holds) = <<>>
    BY <1>5, OfIs
  <2>2. CASE g # f
    <3>1. Of(g, p) = <<>>
      BY <1>3, <2>2, OfIs
    <3> QED BY <1>1, <1>7, <2>1, <2>2, <3>1 DEF Row
  <2>3. CASE g = f
    <3>1. Of(g, p) = <<n>>
      BY <1>3, <2>3, OfIs
    <3> DEFINE h == finished[g]
               r == Of(g, reader[g].holds)
               q == inbox[g]
    <3>2. h \in Seq(Numbers) /\ r \in Seq(Numbers) /\ q \in Seq(Numbers)
      BY RowTyped
    <3>3. Row(g)' = Append(h, n) \o <<>> \o r \o q
      BY <1>1, <1>7, <2>1, <2>3 DEF Row
    <3>4. Row(g) = h \o <<n>> \o r \o q
      BY <3>1 DEF Row
    <3>5. n \in Numbers
      BY <1>4
    <3> HIDE DEF h, r, q, n
    <3>6. Append(h, n) \o <<>> \o r \o q = h \o <<n>> \o r \o q
      BY <3>2, <3>5, RowStays
    <3> QED BY <3>3, <3>4, <3>6
  <2> QED BY <2>2, <2>3
<1>11. PacketsInOrder'
  <2>1. Alive' <=> Alive
    BY <1>1 DEF sockets, Alive
  <2> QED BY <1>1, <1>7, <1>10, <2>1, RowTyped, RowsInOrder
<1> QED BY <1>8, <1>9, <1>11 DEF Inv

\* A panic leaves no goroutine and no socket.
LEMMA GoneStep == ASSUME Inv, ProcessGone PROVE Inv'
<1> USE DEF Inv, ProcessGone
<1>1. reader' \in [Families -> Reader] /\ mux' \in MuxState /\ \A f \in Families : reader'[f].holds = Err
  BY DEF Reader, MuxState
<1>2. TypeOK'
  <2>1. /\ conn' \in [Families -> {"nil", "open", "closed"}]
        /\ writing' \in [Writers -> {"idle", "wait"} \cup Families]
    OBVIOUS
  <2> QED BY <1>1, <2>1 DEF TypeOK, Reader, MuxState
<1>3. HoldsInv' /\ ClosingInv'
  BY <1>1 DEF HoldsInv, ClosingInv
<1>4. PacketsInOrder'
  BY DEF PacketsInOrder
<1> QED BY <1>2, <1>3, <1>4

\* Listen starts the goroutines, which hold nothing yet.
LEMMA ListenReturnsStep == ASSUME Inv, ListenReturns PROVE Inv'
<1>1. /\ up = "down" /\ up' = "up" /\ updater' = "wait"
      /\ reader' = [f \in Families |-> [pc |-> IF conn[f] = "nil" THEN "off" ELSE "receive", holds |-> Err]]
      /\ mux' = [mux EXCEPT !.pc = "check"]
      /\ UNCHANGED <<listen, sockets, arrived, inbox, kind, finished, given, muxDone, writing>>
  BY DEF ListenReturns
<1>2. /\ reader \in [Families -> Reader] /\ mux \in MuxState
      /\ mux.pc = "off" /\ \A f \in Families : reader[f].pc = "off"
  BY <1>1 DEF Inv, TypeOK, Reader, MuxState, HoldsInv
<1>3. mux' \in MuxState /\ mux'.holds = Err /\ mux.holds = Err
  BY <1>1, <1>2, StatesTyped
<1>4. reader' \in [Families -> Reader] /\ \A f \in Families : reader'[f].holds = Err
  BY <1>1 DEF Reader
<1>5. \A f \in Families : reader[f].holds = Err
  BY <1>2, StatesTyped
<1>6. TypeOK'
  BY <1>1, <1>3, <1>4 DEF Inv, TypeOK, Reader, MuxState, sockets
<1>7. ClosingInv' /\ HoldsInv'
  BY <1>1, <1>4 DEF Inv, ClosingInv, HoldsInv, sockets
<1>8. PacketsInOrder'
  <2>1. \A g \in Families : Row(g)' = Row(g) /\ Given(g)' = Given(g)
    BY <1>1, <1>3, <1>4, <1>5 DEF Row, Given
  <2>2. Alive' <=> Alive
    BY <1>1 DEF sockets, Alive
  <2> QED BY <1>1, <2>1, <2>2, RowTyped, RowsInOrder
<1> QED BY <1>6, <1>7, <1>8 DEF Inv

\* Every step keeps the invariant.
LEMMA NextInv == Inv /\ [Next]_vars => Inv'
<1> SUFFICES ASSUME Inv, [Next]_vars PROVE Inv'
  OBVIOUS
<1>1. CASE Still
  BY <1>1, StillStep
<1>2. CASE ListenReturns
  BY <1>2, ListenReturnsStep
<1>3. CASE \E f \in Families : \/ Arrives(f) \/ Reads(f) \/ RecvfromFails(f) \/ ReaderStops(f)
                               \/ HandsOver(f)
  BY <1>3, ArrivesStep, RecvfromStep, ReceiveFailsStep, ReaderStopsStep, HandsOverStep DEF Reads
<1>4. CASE Mux \/ \E w \in Writers : SendtoNil(w)
  BY <1>4, MuxTurnsStep, HandlesStep, GoneStep DEF Mux, SlicePanics, SendtoNil
<1>5. CASE UNCHANGED vars
  <2>1. UNCHANGED <<listen, up, conn, ctxDone, toClose, arrived, inbox, reader, mux, kind, finished, given,
                    muxDone, updater, writing>>
    BY <1>5 DEF vars, sockets, packets, routing
  <2>2. TypeOK' /\ ClosingInv'
    BY <2>1 DEF Inv, TypeOK, ClosingInv
  <2>3. UNCHANGED packets /\ (Alive' <=> Alive)
    BY <2>1 DEF packets, Alive
  <2> QED BY <2>1, <2>2, <2>3, StillInv DEF Inv
<1> QED BY <1>1, <1>2, <1>3, <1>4, <1>5 DEF Next, Still, Writes, Sends

-----------------------------------------------------------------------------
(* The theorems *)

LEMMA InvHolds == Spec => []Inv
  BY InitInv, NextInv, PTL DEF Spec

\* Every variable keeps its type.
THEOREM SocketTypeCorrect == Spec => []TypeOK
<1>1. Inv => TypeOK
  BY DEF Inv
<1> QED BY <1>1, InvHolds, PTL

\* Until Close is called or the process is lost, however the two readers, the mux and the
\* kernel interleave, whichever receives fail and whatever packets do not decode, each
\* packet of a family is in exactly one place, ReadFromConn takes them in the order in
\* which they came, and gives every STUN message among them to HandleSTUNMessage.
THEOREM PacketsDelivered == Spec => []PacketsInOrder
<1>1. Inv => PacketsInOrder
  BY DEF Inv
<1> QED BY <1>1, InvHolds, PTL

\* Neither a Listen that failed, at any of its steps, nor a Close leaves a raw
\* socket open.
THEOREM SocketsClosed == Spec => []NothingLeftOpen
<1>1. Inv => NothingLeftOpen
  BY DEF Inv, ClosingInv, NothingLeftOpen
<1> QED BY <1>1, InvHolds, PTL
=============================================================================
