---------------------------- MODULE SignalProofs ----------------------------
(***************************************************************************)
(* Proofs about Signal, for any number of clients, tokens, handlers and    *)
(* rows.  The data race on the receive buffer is part of every proof; what *)
(* concerns who is listed assumes that the database fails no statement.    *)
(***************************************************************************)
EXTENDS Signal, TLAPS

-----------------------------------------------------------------------------
(* Types *)

\* The values the idle state is made of are well typed.
LEMMA IdleTyped == /\ NoMessage \in Message
                   /\ NoSrc \in Addr
                   /\ NoText \in Text
                   /\ NoFrame \in Frame
<1>1. NoMessage \in {p.msg : p \in Packets} /\ NoSrc \in {p.src : p \in Packets}
  <2>1. PICK p \in Packets : TRUE
    BY PacketsAssumption
  <2>2. (\E m \in {q.msg : q \in Packets} : TRUE) /\ (\E a \in {q.src : q \in Packets} : TRUE)
    BY <2>1
  <2> QED BY <2>2 DEF NoMessage, NoSrc
<1>2. NoMessage \in Message /\ NoSrc \in Addr
  BY <1>1, PacketsAssumption
<1> QED BY <1>2 DEF NoFrame, Frame, NoText, Text

\* Whatever json.Unmarshal makes of the contents it sees, and what is used of it, is a
\* request.
LEMMA DecodingsTyped ==
  ASSUME NEW seen \in SUBSET Text, NEW n \in Nat, NEW m \in Decodings(seen, n)
  PROVE  m \in Message /\ Used(m) \in Message /\ Used(m).type = m.type
<1>1. m \in Message
  <2>1. Whole(seen, n) \subseteq Message
    BY DEF Whole, Text
  <2>2. Assembled(seen) \subseteq Message
    <3>1. \A x \in seen : x.msg \in Message
      BY DEF Text
    <3> QED BY <3>1, KeyAssumption DEF Assembled, Message, Types
  <2> QED BY <2>1, <2>2 DEF Decodings
<1>2. CASE m.type = "login"
  BY <1>1, <1>2 DEF Used
<1>3. CASE m.type = "query"
  <2>1. Used(m) = [m EXCEPT !.key = EmptyKey, !.aip = Mangled]
    BY <1>3 DEF Used
  <2> QED BY <1>1, <2>1, KeyAssumption DEF Message
<1>4. CASE m.type \notin {"login", "query"}
  <2>1. Used(m) = [type |-> m.type, token |-> Mangled, client |-> Mangled, key |-> EmptyKey, aip |-> Mangled]
    BY <1>4 DEF Used
  <2> QED BY <1>1, <2>1, KeyAssumption DEF Message
<1> QED BY <1>2, <1>3, <1>4

\* What a datagram that is read does to the locals of the handlers.
LEMMA ReceiveFrames ==
  ASSUME TypeOK, NEW h \in Handlers, Receive(h)
  PROVE  \E p \in Packets :
           /\ buffer' = TextOf(p)
           /\ frame' \in [Handlers -> Frame]
           /\ frame'[h].n = p.len /\ frame'[h].src = p.src
           /\ \A g \in Handlers : g # h /\ pc[g] \in {"spawned", "decoding"} => ~frame'[g].own
           /\ \A g \in Handlers : g # h /\ pc[g] \notin {"spawned", "decoding"} => frame'[g] = frame[g]
<1>1. PICK p \in Packets :
        /\ buffer' = TextOf(p)
        /\ frame' = [g \in Handlers |->
                       IF g = h THEN [NoFrame EXCEPT !.n = p.len, !.src = p.src, !.own = TRUE]
                       ELSE IF pc[g] \in {"spawned", "decoding"} THEN Overwrites(frame[g], pc[g], TextOf(p))
                       ELSE frame[g]]
  BY DEF Receive
<1>2. p.msg \in Message /\ p.src \in Addr /\ p.len \in Nat /\ TextOf(p) \in Text
  BY PacketsAssumption DEF TextOf, Text
<1>3. /\ [NoFrame EXCEPT !.n = p.len, !.src = p.src, !.own = TRUE] \in Frame
      /\ [NoFrame EXCEPT !.n = p.len, !.src = p.src, !.own = TRUE].n = p.len
      /\ [NoFrame EXCEPT !.n = p.len, !.src = p.src, !.own = TRUE].src = p.src
  BY <1>2, IdleTyped DEF Frame
<1>4. ASSUME NEW g \in Handlers
      PROVE  Overwrites(frame[g], pc[g], TextOf(p)) \in Frame /\ ~Overwrites(frame[g], pc[g], TextOf(p)).own
  <2>1. frame[g] \in Frame
    BY DEF TypeOK
  <2> QED BY <1>2, <2>1 DEF Overwrites, Frame
<1>5. frame' \in [Handlers -> Frame]
  BY <1>1, <1>3, <1>4 DEF TypeOK
<1> QED BY <1>1, <1>3, <1>4, <1>5

\* Init establishes the types.
LEMMA InitTyped == Init => TypeOK
  BY IdleTyped DEF Init, TypeOK, PCs

\* Every step of the server preserves the types.
LEMMA NextTyped == TypeOK /\ [Next]_vars => TypeOK'
<1> SUFFICES ASSUME TypeOK, [Next]_vars PROVE TypeOK'
  OBVIOUS
<1> USE DEF TypeOK
<1>1. ASSUME NEW h \in Handlers, Receive(h) PROVE TypeOK'
  <2>1. PICK p \in Packets : buffer' = TextOf(p) /\ frame' \in [Handlers -> Frame]
    BY <1>1, ReceiveFrames
  <2>2. TextOf(p) \in Text
    BY PacketsAssumption DEF TextOf, Text
  <2> QED BY <1>1, <2>1, <2>2 DEF Receive, PCs
<1>2. ASSUME NEW h \in Handlers, BeginDecode(h) PROVE TypeOK'
  <2>1. frame' \in [Handlers -> Frame]
    BY <1>2 DEF BeginDecode, Frame
  <2> QED BY <1>2, <2>1 DEF BeginDecode, PCs
<1>3. ASSUME NEW h \in Handlers, EndDecode(h) PROVE TypeOK'
  <2>1. PICK m \in Decodings(frame[h].seen, frame[h].n) :
          /\ frame' = [frame EXCEPT ![h].msg = Used(m), ![h].seen = {}, ![h].n = 0]
          /\ pc' = [pc EXCEPT ![h] = NextPC(m.type)]
    BY <1>3 DEF EndDecode
  <2>2. frame[h].seen \in SUBSET Text /\ frame[h].n \in Nat
    BY DEF Frame
  <2>3. m \in Message /\ Used(m) \in Message
    BY <2>2, DecodingsTyped
  <2>4. NextPC(m.type) \in PCs
    BY <2>3 DEF Message, Types, NextPC, PCs
  <2>5. frame' \in [Handlers -> Frame]
    <3>1. [frame[h] EXCEPT !.msg = Used(m), !.seen = {}, !.n = 0] \in Frame
      BY <2>3 DEF Frame
    <3>2. frame' = [frame EXCEPT ![h] = [frame[h] EXCEPT !.msg = Used(m), !.seen = {}, !.n = 0]]
      BY <2>1
    <3> QED BY <3>1, <3>2
  <2> QED BY <1>3, <2>1, <2>4, <2>5 DEF EndDecode
<1>4. ASSUME NEW h \in Handlers, DecodeError(h) PROVE TypeOK'
  BY <1>4, IdleTyped DEF DecodeError, PCs
<1>5. ASSUME ProcessGone PROVE TypeOK'
  BY <1>5, IdleTyped DEF ProcessGone, PCs
<1>6. ASSUME NEW h \in Handlers, RegisterFind(h) PROVE TypeOK'
  <2>0. PICK found \in BOOLEAN : frame' = [frame EXCEPT ![h].found = found]
    <3>1. Listed(Ident(frame[h].msg)) \in BOOLEAN
      BY DEF Listed
    <3> QED BY <1>6, <3>1 DEF RegisterFind
  <2>1. frame' \in [Handlers -> Frame]
    BY <2>0 DEF Frame
  <2> QED BY <1>6, <2>1 DEF RegisterFind, PCs
<1>s. ASSUME NEW h \in Handlers, Spoils(frame[h]) PROVE spoilt' \subseteq Idents
  BY <1>s DEF Spoils, Frame, Message, Ident, Idents
<1>7. ASSUME NEW h \in Handlers, RegisterUpdate(h) PROVE TypeOK'
  <2>1. frame[h].msg \in Message /\ frame[h].src \in Addr
    BY DEF Frame
  <2>2. \A i \in DOMAIN db : Refreshed(db[i], frame[h].msg, frame[h].src) \in Row
    <3>1. ASSUME NEW i \in DOMAIN db PROVE Refreshed(db[i], frame[h].msg, frame[h].src) \in Row
      <4>1. db[i] \in Row
        OBVIOUS
      <4>2. (IF frame[h].msg.key = EmptyKey THEN db[i].key ELSE frame[h].msg.key) \in Key \cup {Mangled}
        BY <2>1, <4>1 DEF Row, Message
      <4> QED BY <2>1, <4>1, <4>2 DEF Refreshed, Row
    <3> QED BY <3>1
  <2>3. db' \in Seq(Row)
    BY <1>7, <2>2 DEF RegisterUpdate, Updated
  <2>4. spoilt' \subseteq Idents
    BY <1>7, <1>s DEF RegisterUpdate
  <2> QED BY <1>7, <2>3, <2>4 DEF RegisterUpdate, RegisterReturn, PCs
<1>8. ASSUME NEW h \in Handlers, RegisterCreate(h) PROVE TypeOK'
  <2>1. RowOf(frame[h].msg, frame[h].src) \in Row
    BY DEF Frame, RowOf, Row, Message
  <2>2. spoilt' \subseteq Idents
    BY <1>8, <1>s DEF RegisterCreate
  <2> QED BY <1>8, <2>1, <2>2 DEF RegisterCreate, RegisterReturn, PCs
<1>9. ASSUME NEW h \in Handlers, RegisterLost(h) PROVE TypeOK'
  BY <1>9 DEF RegisterLost, RegisterReturn, PCs
<1>10. ASSUME NEW h \in Handlers, QueryClients(h) PROVE TypeOK'
  <2>1. Others(frame[h].msg) \subseteq Row
    BY DEF Others
  <2>2. frame' \in [Handlers -> Frame]
    <3>1. PICK answer \in SUBSET Row : frame' = [frame EXCEPT ![h].answer = answer]
      BY <1>10, <2>1 DEF QueryClients
    <3> QED BY <3>1 DEF Frame
  <2> QED BY <1>10, <2>2 DEF QueryClients, PCs
<1>11. ASSUME NEW h \in Handlers, Reply(h) PROVE TypeOK'
  <2>1. Ident(frame[h].msg) \in Idents
    BY DEF Frame, Message, Ident, Idents
  <2> QED BY <1>11, <2>1, IdleTyped DEF Reply, PCs
<1>12. ASSUME Start PROVE TypeOK'
  <2>1. CASE db' = <<>> /\ spoilt' = {}
    <3>1. db' \in Seq(Row) /\ spoilt' \subseteq Idents
      BY <2>1
    <3> QED BY <1>12, <3>1 DEF Start
  <2>2. CASE UNCHANGED <<db, spoilt>>
    BY <1>12, <2>2 DEF Start
  <2> QED BY <1>12, <2>1, <2>2 DEF Start
<1>13. CASE UNCHANGED vars
  BY <1>13 DEF vars
<1> QED
  BY <1>1, <1>2, <1>3, <1>4, <1>5, <1>6, <1>7, <1>8, <1>9, <1>10, <1>11, <1>12, <1>13
     DEF Next, Step, DecodePanic, Crash

\* Every variable of the server keeps its type, whatever the clients send, the
\* shared buffer makes of it and the database fails.
THEOREM TypeCorrect == Spec => []TypeOK
<1> QED BY InitTyped, NextTyped, PTL DEF Spec
-----------------------------------------------------------------------------
(* The table *)

\* Only the holder of mu is between the lookup and the write of a registration.
LockInv == \A h \in Handlers : pc[h] = "lookup" => writer = h

\* What the holder found out about the table still holds.
LookupInv == \A h \in Handlers : pc[h] = "lookup" => (frame[h].found <=> Listed(Ident(frame[h].msg)))

\* A process that is not running has no goroutines.
DownInv == ~up => \A h \in Handlers : pc[h] = "idle"

\* The inductive invariant of the table.
TableInv == TypeOK /\ DownInv /\ LockInv /\ LookupInv /\ OneRowPerClient

\* Updating a row changes neither who is listed nor where.
LEMMA UpdateKeeps ==
  ASSUME TypeOK, NEW h \in Handlers, RegisterUpdate(h)
  PROVE  /\ DOMAIN db' = DOMAIN db
         /\ \A i \in DOMAIN db : Ident(db'[i]) = Ident(db[i])
<1>1. db' = [i \in DOMAIN db |-> IF Ident(db[i]) = Ident(frame[h].msg)
                                 THEN Refreshed(db[i], frame[h].msg, frame[h].src) ELSE db[i]]
  BY DEF RegisterUpdate, Updated
<1>2. ASSUME NEW i \in DOMAIN db PROVE Ident(db'[i]) = Ident(db[i])
  <2>1. db[i] \in Row
    BY DEF TypeOK
  <2>2. Ident(Refreshed(db[i], frame[h].msg, frame[h].src)) = Ident(db[i])
    BY <2>1 DEF Refreshed, Row, Ident
  <2> QED BY <1>1, <2>2
<1> QED BY <1>1, <1>2

\* Creating a row lists its client after the clients listed before.
LEMMA CreateAppends ==
  ASSUME TypeOK, NEW h \in Handlers, RegisterCreate(h)
  PROVE  /\ DOMAIN db = 1..Len(db)
         /\ DOMAIN db' = 1..(Len(db) + 1)
         /\ Len(db) \in Nat
         /\ \A i \in DOMAIN db : db'[i] = db[i]
         /\ Ident(db'[Len(db) + 1]) = Ident(frame[h].msg)
<1>1. RowOf(frame[h].msg, frame[h].src) \in Row
  BY DEF TypeOK, Frame, RowOf, Row, Message
<1>2. db' = Append(db, RowOf(frame[h].msg, frame[h].src))
  BY DEF RegisterCreate
<1>3. Ident(RowOf(frame[h].msg, frame[h].src)) = Ident(frame[h].msg)
  BY DEF RowOf, Ident
<1>4. db \in Seq(Row)
  BY DEF TypeOK
<1>5. db'[Len(db) + 1] = RowOf(frame[h].msg, frame[h].src)
  BY <1>1, <1>2, <1>4
<1> QED BY <1>1, <1>2, <1>3, <1>4, <1>5

\* A client that is listed stays listed until the server starts again.
LEMMA ListedStays ==
  ASSUME TypeOK, [Next]_vars, ~Start, NEW k, Listed(k)
  PROVE  Listed(k)'
<1>1. PICK i \in DOMAIN db : Ident(db[i]) = k
  BY DEF Listed
<1>2. ASSUME NEW h \in Handlers, RegisterUpdate(h) PROVE Listed(k)'
  BY <1>1, <1>2, UpdateKeeps DEF Listed
<1>3. ASSUME NEW h \in Handlers, RegisterCreate(h) PROVE Listed(k)'
  <2>1. i \in DOMAIN db' /\ db'[i] = db[i]
    BY <1>1, <1>3, CreateAppends
  <2>2. Ident(db'[i]) = k
    BY <1>1, <2>1
  <2> QED BY <2>1, <2>2 DEF Listed
<1>4. CASE db' = db
  BY <1>4 DEF Listed
<1> QED
  BY <1>2, <1>3, <1>4
     DEF Next, Step, Receive, BeginDecode, EndDecode, DecodeError, DecodePanic, ProcessGone, Crash,
         RegisterFind, RegisterLost, QueryClients, Reply, vars

\* Init establishes the invariant of the table.
LEMMA InitTable == Init => TableInv
  BY InitTyped DEF Init, TableInv, DownInv, LockInv, LookupInv, OneRowPerClient

\* Every step preserves it when no statement fails.
LEMMA NextTable ==
  ASSUME ~DbFaults, TableInv, [Next]_vars
  PROVE  TableInv'
<1> USE DEF TableInv
<1>0. TypeOK' /\ DownInv'
  <2>1. TypeOK'
    BY NextTyped
  <2>2. ASSUME NEW h \in Handlers, Receive(h) \/ Step(h) PROVE up /\ up'
    BY <2>2 DEF DownInv, Receive, Step, BeginDecode, EndDecode, DecodeError, RegisterFind,
                RegisterUpdate, RegisterCreate, RegisterLost, RegisterReturn, QueryClients, Reply, TypeOK
  <2>3. ASSUME ProcessGone PROVE DownInv'
    BY <2>3 DEF ProcessGone, DownInv
  <2>4. ASSUME Start PROVE DownInv'
    BY <2>4 DEF Start, DownInv
  <2>5. ASSUME UNCHANGED vars PROVE DownInv'
    BY <2>5 DEF vars, DownInv
  <2>6. DownInv'
    BY <2>2, <2>3, <2>4, <2>5 DEF Next, Crash, DecodePanic, DownInv
  <2> QED BY <2>1, <2>6
<1>a. ASSUME db' = db, writer' = writer,
             NEW h \in Handlers, pc' = [pc EXCEPT ![h] = pc'[h]], pc'[h] # "lookup",
             \A g \in Handlers : g # h /\ pc[g] = "lookup" => frame'[g] = frame[g]
      PROVE  TableInv'
  <2>1. \A g \in Handlers : pc'[g] = "lookup" => g # h /\ pc[g] = "lookup"
    BY <1>a DEF TypeOK
  <2>2. LockInv'
    BY <1>a, <2>1 DEF LockInv
  <2>3. LookupInv'
    BY <1>a, <2>1 DEF LookupInv, Listed
  <2>4. OneRowPerClient'
    BY <1>a DEF OneRowPerClient
  <2> QED BY <1>0, <2>2, <2>3, <2>4
<1>1. ASSUME NEW h \in Handlers, Receive(h) PROVE TableInv'
  <2>1. \A g \in Handlers : g # h /\ pc[g] = "lookup" => frame'[g] = frame[g]
    BY <1>1, ReceiveFrames
  <2> QED BY <1>1, <1>a, <2>1 DEF Receive, TypeOK
<1>2. ASSUME NEW h \in Handlers, BeginDecode(h) PROVE TableInv'
  BY <1>2, <1>a DEF BeginDecode, TypeOK
<1>3. ASSUME NEW h \in Handlers, EndDecode(h) PROVE TableInv'
  BY <1>3, <1>a DEF EndDecode, TypeOK, NextPC
<1>4. ASSUME NEW h \in Handlers, DecodeError(h) PROVE TableInv'
  BY <1>4, <1>a DEF DecodeError, TypeOK
<1>5. ASSUME ProcessGone PROVE TableInv'
  <2>1. LockInv' /\ LookupInv'
    BY <1>5 DEF ProcessGone, LockInv, LookupInv
  <2>2. OneRowPerClient'
    BY <1>5 DEF ProcessGone, OneRowPerClient
  <2> QED BY <1>0, <2>1, <2>2
<1>6. ASSUME NEW h \in Handlers, RegisterFind(h) PROVE TableInv'
  <2>1. \A g \in Handlers : pc'[g] = "lookup" <=> g = h
    BY <1>6, HandlersAssumption DEF RegisterFind, TypeOK, LockInv
  <2>2. LockInv'
    BY <1>6, <2>1 DEF RegisterFind, LockInv
  <2>3. frame' = [frame EXCEPT ![h].found = Listed(Ident(frame[h].msg))]
    BY <1>6 DEF RegisterFind
  <2>4. frame'[h].found = Listed(Ident(frame[h].msg)) /\ frame'[h].msg = frame[h].msg
    BY <2>3 DEF TypeOK, Frame
  <2>5. LookupInv'
    BY <1>6, <2>1, <2>4 DEF RegisterFind, LookupInv, Listed
  <2>6. OneRowPerClient'
    BY <1>6 DEF RegisterFind, OneRowPerClient
  <2> QED BY <1>0, <2>2, <2>5, <2>6
<1>b. ASSUME NEW h \in Handlers, pc[h] = "lookup", RegisterReturn(h)
      PROVE  \A g \in Handlers : pc'[g] # "lookup"
  <2>1. \A g \in Handlers : pc[g] = "lookup" => g = h
    BY <1>b DEF LockInv
  <2> QED BY <1>b, <2>1 DEF RegisterReturn, TypeOK
<1>7. ASSUME NEW h \in Handlers, RegisterUpdate(h) PROVE TableInv'
  <2>1. LockInv' /\ LookupInv'
    BY <1>7, <1>b DEF RegisterUpdate, LockInv, LookupInv
  <2>2. OneRowPerClient'
    BY <1>7, UpdateKeeps DEF OneRowPerClient
  <2> QED BY <1>0, <2>1, <2>2
<1>8. ASSUME NEW h \in Handlers, RegisterCreate(h) PROVE TableInv'
  <2>1. LockInv' /\ LookupInv'
    BY <1>8, <1>b DEF RegisterCreate, LockInv, LookupInv
  <2>2. \A i \in DOMAIN db : Ident(db[i]) # Ident(frame[h].msg)
    BY <1>8 DEF RegisterCreate, LookupInv, Listed
  <2>3. OneRowPerClient'
    BY <1>8, <2>2, CreateAppends DEF OneRowPerClient
  <2> QED BY <1>0, <2>1, <2>3
<1>9. ASSUME NEW h \in Handlers, RegisterLost(h) PROVE TableInv'
  BY <1>9 DEF RegisterLost
<1>10. ASSUME NEW h \in Handlers, QueryClients(h) PROVE TableInv'
  BY <1>10, <1>a DEF QueryClients, TypeOK
<1>11. ASSUME NEW h \in Handlers, Reply(h) PROVE TableInv'
  BY <1>11, <1>a DEF Reply, TypeOK
<1>12. ASSUME Start PROVE TableInv'
  <2>1. OneRowPerClient'
    BY <1>12 DEF Start, OneRowPerClient
  <2>2. \A g \in Handlers : pc[g] # "lookup"
    BY <1>12 DEF Start, DownInv
  <2> QED BY <1>0, <1>12, <2>1, <2>2 DEF Start, LockInv, LookupInv
<1>13. CASE UNCHANGED vars
  BY <1>0, <1>13 DEF vars, LockInv, LookupInv, OneRowPerClient, Listed
<1> QED
  BY <1>1, <1>2, <1>3, <1>4, <1>5, <1>6, <1>7, <1>8, <1>9, <1>10, <1>11, <1>12, <1>13
     DEF Next, Step, DecodePanic, Crash

\* Whatever logins run concurrently and whatever the shared buffer makes of them,
\* no client has two rows under its token.
THEOREM RowsUnique ==
  ASSUME ~DbFaults
  PROVE  Spec => []OneRowPerClient
<1>1. Init => TableInv
  BY InitTable
<1>2. TableInv /\ [Next]_vars => TableInv'
  BY NextTable
<1>3. TableInv => OneRowPerClient
  BY DEF TableInv
<1> QED BY <1>1, <1>2, <1>3, PTL DEF Spec
-----------------------------------------------------------------------------
(* What queries are answered *)

\* A handler is where the type of its request sends it.
DispatchInv ==
  \A h \in Handlers : /\ pc[h] \in {"login", "lookup"} => frame[h].msg.type = "login"
                      /\ pc[h] = "query" => frame[h].msg.type = "query"

\* A login is answered once its client is listed.
LoggedInv ==
  \A h \in Handlers : pc[h] = "reply" /\ frame[h].msg.type = "login" => Listed(Ident(frame[h].msg))

\* Whoever had a login answered is listed, until the process is gone.
AckedInv == (\A k \in acked : Listed(k)) /\ (~up => acked = {})

\* A handler knows of no answered login that was forgotten since.
KnownInv == \A h \in Handlers : known[h] \subseteq acked

\* The inductive invariant of the answers.
AnswerInv == TableInv /\ DispatchInv /\ LoggedInv /\ AckedInv /\ KnownInv /\ AckedIsAnswered

\* Init establishes the invariant of the answers.
LEMMA InitAnswer == Init => AnswerInv
  BY InitTable DEF Init, AnswerInv, DispatchInv, LoggedInv, AckedInv, KnownInv, AckedIsAnswered

\* A registration that returns has listed its client.
LEMMA RegisterLists ==
  ASSUME ~DbFaults, TableInv, NEW h \in Handlers, RegisterUpdate(h) \/ RegisterCreate(h)
  PROVE  Listed(Ident(frame[h].msg))'
<1> USE DEF TableInv
<1>0. frame' = frame
  BY DEF RegisterUpdate, RegisterCreate, RegisterReturn
<1>1. CASE RegisterUpdate(h)
  <2>1. PICK i \in DOMAIN db : Ident(db[i]) = Ident(frame[h].msg)
    BY <1>1 DEF RegisterUpdate, LookupInv, Listed
  <2>2. i \in DOMAIN db' /\ Ident(db'[i]) = Ident(frame[h].msg)
    BY <1>1, <2>1, UpdateKeeps
  <2> QED BY <1>0, <2>2 DEF Listed
<1>2. CASE RegisterCreate(h)
  <2>1. Len(db) + 1 \in DOMAIN db' /\ Ident(db'[Len(db) + 1]) = Ident(frame[h].msg)
    BY <1>2, CreateAppends
  <2> QED BY <1>0, <2>1 DEF Listed
<1> QED BY <1>1, <1>2

\* A query of the table reports everyone listed but the client that asks.
LEMMA QueryReports ==
  ASSUME ~DbFaults, AnswerInv, NEW h \in Handlers, QueryClients(h),
         NEW k \in known[h], k[1] = frame[h].msg.token, k[2] # frame[h].msg.client
  PROVE  \E r \in frame'[h].answer : Ident(r) = k
<1> USE DEF AnswerInv, TableInv
<1>1. frame' = [frame EXCEPT ![h].answer = Others(frame[h].msg)]
  BY DEF QueryClients
<1>2. frame'[h].answer = Others(frame[h].msg)
  BY <1>1 DEF TypeOK, Frame
<1>3. PICK i \in DOMAIN db : Ident(db[i]) = k
  BY DEF KnownInv, AckedInv, Listed
<1>4. db[i].token = k[1] /\ db[i].client = k[2]
  BY <1>3 DEF Ident
<1>5. db[i] \in Others(frame[h].msg)
  BY <1>4 DEF Others
<1> QED BY <1>2, <1>3, <1>5

\* Every step preserves the invariant of the answers when no statement fails.
LEMMA NextAnswer ==
  ASSUME ~DbFaults, AnswerInv, [Next]_vars
  PROVE  AnswerInv'
<1> USE DEF AnswerInv
<1>0. TableInv' /\ TypeOK /\ TypeOK' /\ DownInv /\ LookupInv
  BY NextTable DEF TableInv
<1>1. ASSUME NEW h \in Handlers, Receive(h) PROVE AnswerInv'
  <2>0. \A g \in Handlers : g # h /\ pc[g] \notin {"spawned", "decoding"} => frame'[g] = frame[g]
    BY <1>0, <1>1, ReceiveFrames
  <2>1. /\ \A g \in Handlers : g # h => pc'[g] = pc[g] /\ known'[g] = known[g]
        /\ \A g \in Handlers : g # h /\ pc[g] \notin {"spawned", "decoding"} => frame'[g] = frame[g]
        /\ pc'[h] = "spawned" /\ known'[h] = acked /\ db' = db /\ acked' = acked /\ up' = up
    BY <1>0, <1>1, <2>0 DEF Receive, TypeOK
  <2>2. DispatchInv' /\ LoggedInv'
    BY <2>1 DEF DispatchInv, LoggedInv, Listed
  <2>3. AckedInv' /\ KnownInv'
    BY <2>1 DEF AckedInv, KnownInv, Listed
  <2>4. AckedIsAnswered'
    BY <2>1 DEF AckedIsAnswered
  <2> QED BY <1>0, <2>2, <2>3, <2>4
<1>2. ASSUME NEW h \in Handlers,
             BeginDecode(h) \/ EndDecode(h) \/ DecodeError(h) \/ RegisterFind(h)
      PROVE  AnswerInv'
  <2>1. /\ \A g \in Handlers : g # h => pc'[g] = pc[g] /\ frame'[g] = frame[g]
        /\ \A g \in Handlers : known'[g] \subseteq known[g]
        /\ \A g \in Handlers : g # h => known'[g] = known[g]
        /\ db' = db /\ acked' = acked /\ up' = up
    BY <1>0, <1>2 DEF BeginDecode, EndDecode, DecodeError, RegisterFind, TypeOK
  <2>2. /\ pc'[h] \in {"login", "lookup"} => frame'[h].msg.type = "login"
        /\ pc'[h] = "query" => frame'[h].msg.type = "query"
        /\ pc'[h] = "reply" => frame'[h].msg.type \notin {"login", "query"}
    <3>1. CASE BeginDecode(h) \/ DecodeError(h)
      BY <1>0, <3>1 DEF BeginDecode, DecodeError, TypeOK
    <3>2. CASE EndDecode(h)
      <4>1. PICK m \in Decodings(frame[h].seen, frame[h].n) :
              /\ frame' = [frame EXCEPT ![h].msg = Used(m), ![h].seen = {}, ![h].n = 0]
              /\ pc' = [pc EXCEPT ![h] = NextPC(m.type)]
        BY <3>2 DEF EndDecode
      <4>2. frame'[h].msg = Used(m) /\ pc'[h] = NextPC(m.type)
        BY <1>0, <4>1 DEF TypeOK, Frame
      <4>3. Used(m).type = m.type
        BY <1>0, <4>1, DecodingsTyped DEF TypeOK, Frame
      <4> QED BY <4>2, <4>3 DEF NextPC
    <3>3. CASE RegisterFind(h)
      <4>1. PICK found : frame' = [frame EXCEPT ![h].found = found]
        BY <3>3 DEF RegisterFind
      <4>2. frame'[h].msg = frame[h].msg
        BY <1>0, <4>1 DEF TypeOK, Frame
      <4> QED BY <1>0, <3>3, <4>2 DEF RegisterFind, TypeOK, DispatchInv
    <3> QED BY <1>2, <3>1, <3>2, <3>3
  <2>3. DispatchInv' /\ LoggedInv'
    BY <2>1, <2>2 DEF DispatchInv, LoggedInv, Listed
  <2>4. AckedInv' /\ KnownInv'
    BY <2>1 DEF AckedInv, KnownInv, Listed
  <2>5. AckedIsAnswered'
    BY <2>1, <2>2 DEF AckedIsAnswered
  <2> QED BY <1>0, <2>3, <2>4, <2>5
<1>3. ASSUME ProcessGone PROVE AnswerInv'
  <2>1. DispatchInv' /\ LoggedInv' /\ AckedIsAnswered'
    BY <1>3 DEF ProcessGone, DispatchInv, LoggedInv, AckedIsAnswered
  <2>2. AckedInv' /\ KnownInv'
    BY <1>3 DEF ProcessGone, AckedInv, KnownInv
  <2> QED BY <1>0, <2>1, <2>2
<1>4. ASSUME NEW h \in Handlers, RegisterUpdate(h) \/ RegisterCreate(h) PROVE AnswerInv'
  <2>1. /\ \A g \in Handlers : g # h => pc'[g] = pc[g]
        /\ pc[h] = "lookup" /\ pc'[h] = "reply"
        /\ frame' = frame /\ known' = known /\ acked' = acked /\ up' = up
    BY <1>0, <1>4 DEF RegisterUpdate, RegisterCreate, RegisterReturn, TypeOK
  <2>2. frame[h].msg.type = "login"
    BY <2>1 DEF DispatchInv
  <2>3. DispatchInv' /\ AckedIsAnswered'
    BY <2>1, <2>2 DEF DispatchInv, AckedIsAnswered
  <2>4. ~Start
    BY <1>0, <2>1 DEF DownInv, Start
  <2>5. ASSUME NEW k, Listed(k) PROVE Listed(k)'
    BY <1>0, <2>4, <2>5, ListedStays
  <2>6. LoggedInv'
    <3>1. Listed(Ident(frame[h].msg))'
      BY <1>4, RegisterLists
    <3>2. ASSUME NEW g \in Handlers, g # h, pc[g] = "reply", frame[g].msg.type = "login"
          PROVE  Listed(Ident(frame[g].msg))'
      <4>1. Listed(Ident(frame[g].msg))
        BY <3>2 DEF LoggedInv
      <4>2. PICK k : k = Ident(frame[g].msg)
        OBVIOUS
      <4>3. Listed(k)'
        BY <2>5, <4>1, <4>2
      <4> QED BY <2>1, <4>2, <4>3 DEF Listed, Ident
    <3> QED BY <2>1, <3>1, <3>2 DEF LoggedInv
  <2>7. AckedInv' /\ KnownInv'
    <3>1. \A k \in acked : Listed(k)'
      BY <2>5 DEF AckedInv
    <3> QED BY <2>1, <3>1 DEF AckedInv, KnownInv
  <2> QED BY <1>0, <2>3, <2>6, <2>7
<1>5. ASSUME NEW h \in Handlers, RegisterLost(h) PROVE AnswerInv'
  BY <1>5 DEF RegisterLost
<1>6. ASSUME NEW h \in Handlers, QueryClients(h) PROVE AnswerInv'
  <2>1. /\ \A g \in Handlers : g # h => pc'[g] = pc[g] /\ frame'[g] = frame[g]
        /\ pc[h] = "query" /\ pc'[h] = "reply"
        /\ known' = known /\ db' = db /\ acked' = acked /\ up' = up
    BY <1>0, <1>6 DEF QueryClients, TypeOK
  <2>2. frame'[h].msg = frame[h].msg
    <3>1. PICK answer : frame' = [frame EXCEPT ![h].answer = answer]
      BY <1>6 DEF QueryClients
    <3> QED BY <1>0, <3>1 DEF TypeOK, Frame
  <2>3. frame[h].msg.type = "query"
    BY <2>1 DEF DispatchInv
  <2>4. DispatchInv' /\ LoggedInv'
    BY <2>1, <2>2, <2>3 DEF DispatchInv, LoggedInv, Listed
  <2>5. AckedInv' /\ KnownInv'
    BY <2>1 DEF AckedInv, KnownInv, Listed
  <2>6. AckedIsAnswered'
    <3>1. ASSUME NEW k \in known[h], k[1] = frame'[h].msg.token, k[2] # frame'[h].msg.client
          PROVE  \E r \in frame'[h].answer : Ident(r) = k
      BY <1>6, <2>2, <3>1, QueryReports
    <3> QED BY <2>1, <3>1 DEF AckedIsAnswered
  <2> QED BY <1>0, <2>4, <2>5, <2>6
<1>7. ASSUME NEW h \in Handlers, Reply(h) PROVE AnswerInv'
  <2>1. /\ \A g \in Handlers : g # h => pc'[g] = pc[g] /\ frame'[g] = frame[g] /\ known'[g] = known[g]
        /\ pc[h] = "reply" /\ pc'[h] = "idle" /\ known'[h] = {} /\ db' = db /\ up' = up
        /\ acked \subseteq acked'
        /\ \A k \in acked' : k \in acked \/ (frame[h].msg.type = "login" /\ k = Ident(frame[h].msg))
    BY <1>0, <1>7 DEF Reply, TypeOK
  <2>2. DispatchInv' /\ LoggedInv' /\ AckedIsAnswered'
    BY <2>1 DEF DispatchInv, LoggedInv, AckedIsAnswered, Listed
  <2>3. KnownInv'
    BY <2>1 DEF KnownInv
  <2>4. up
    BY <1>0, <2>1 DEF DownInv
  <2>5. \A k \in acked' : Listed(k)
    BY <2>1 DEF AckedInv, LoggedInv
  <2>6. AckedInv'
    BY <2>1, <2>4, <2>5 DEF AckedInv, Listed
  <2> QED BY <1>0, <2>2, <2>3, <2>6
<1>8. ASSUME Start PROVE AnswerInv'
  <2>1. acked = {} /\ \A g \in Handlers : pc[g] = "idle"
    BY <1>0, <1>8 DEF Start, AckedInv, DownInv
  <2>2. AckedInv' /\ KnownInv'
    BY <1>8, <2>1 DEF Start, AckedInv, KnownInv
  <2>3. DispatchInv' /\ LoggedInv' /\ AckedIsAnswered'
    BY <1>8, <2>1 DEF Start, DispatchInv, LoggedInv, AckedIsAnswered
  <2> QED BY <1>0, <2>2, <2>3
<1>9. ASSUME UNCHANGED vars PROVE AnswerInv'
  BY <1>0, <1>9 DEF vars, DispatchInv, LoggedInv, AckedInv, KnownInv, AckedIsAnswered, Listed
<1> QED
  BY <1>1, <1>2, <1>3, <1>4, <1>5, <1>6, <1>7, <1>8, <1>9 DEF Next, Step, DecodePanic, Crash

\* A registration that was answered for, of whichever client the handler decoded, is
\* reported by every query read later, for every number of handlers and however their
\* steps interleave.
THEOREM AnswersComplete ==
  ASSUME ~DbFaults
  PROVE  Spec => []AckedIsAnswered
<1>1. Init => AnswerInv
  BY InitAnswer
<1>2. AnswerInv /\ [Next]_vars => AnswerInv'
  BY NextAnswer
<1>3. AnswerInv => AckedIsAnswered
  BY DEF AnswerInv
<1> QED BY <1>1, <1>2, <1>3, PTL DEF Spec
-----------------------------------------------------------------------------
(* Refinement *)

\* The entries of the directory the table stands for.
Entries == {db[i] : i \in DOMAIN db}

\* A row that is updated is an entry that is registered again.
LEMMA UpdateRegisters ==
  ASSUME TableInv, NEW h \in Handlers, RegisterUpdate(h)
  PROVE  D!Register(RowOf(frame[h].msg, frame[h].src))
<1> DEFINE m == frame[h].msg
           src == frame[h].src
           e == RowOf(m, src)
           same == {o \in Entries : Ident(o) = Ident(m)}
<1>1. db' = [i \in DOMAIN db |-> IF Ident(db[i]) = Ident(m) THEN Refreshed(db[i], m, src) ELSE db[i]]
  BY DEF RegisterUpdate, Updated
<1>2. Entries' = {db'[i] : i \in DOMAIN db}
  BY <1>1 DEF Entries
<1>3. same # {}
  BY DEF RegisterUpdate, TableInv, LookupInv, Listed, Entries
<1>4. Entries' = (Entries \ same) \cup {Refreshed(o, m, src) : o \in same}
  BY <1>1, <1>2 DEF Entries
<1>5. D!Ident(e) = Ident(m) /\ \A o \in Entries : D!Ident(o) = Ident(o)
  BY DEF RowOf, Ident, D!Ident
<1>6. \A o : D!Refreshed(o, e) = Refreshed(o, m, src)
  BY DEF RowOf, Refreshed, D!Refreshed
<1>7. D!Same(e) = same
  BY <1>5 DEF D!Same, Entries
<1>8. Entries' = (Entries \ D!Same(e)) \cup {D!Refreshed(o, e) : o \in D!Same(e)}
  BY <1>4, <1>6, <1>7
<1> QED BY <1>3, <1>7, <1>8 DEF D!Register, Entries

\* A row that is created is an entry that is registered for the first time.
LEMMA CreateRegisters ==
  ASSUME TableInv, NEW h \in Handlers, RegisterCreate(h)
  PROVE  D!Register(RowOf(frame[h].msg, frame[h].src))
<1> DEFINE e == RowOf(frame[h].msg, frame[h].src)
<1>1. \A i \in DOMAIN db : Ident(db[i]) # Ident(frame[h].msg)
  BY DEF RegisterCreate, TableInv, LookupInv, Listed
<1>2. D!Same(e) = {}
  BY <1>1 DEF D!Same, D!Ident, Ident, RowOf
<1>3. db \in Seq(Row) /\ e \in Row /\ db' = Append(db, e)
  BY DEF RegisterCreate, TableInv, TypeOK, Frame, RowOf, Row, Message
<1>4. Entries' = Entries \cup {e}
  BY <1>3 DEF Entries
<1> QED BY <1>2, <1>4 DEF D!Register, Entries

\* The server implements the directory: whatever the handlers interleave, each
\* step replaces or adds one whole entry, empties the directory or leaves it alone.
THEOREM SignalImplementsDirectory ==
  ASSUME ~DbFaults
  PROVE  Spec => ImplementsDirectory
<1>1. Init => D!Init
  BY DEF Init, D!Init
<1>2. ASSUME TableInv, [Next]_vars PROVE [D!Next]_Entries
  <2>1. ASSUME NEW h \in Handlers, RegisterUpdate(h) \/ RegisterCreate(h) PROVE D!Next
    <3>1. RowOf(frame[h].msg, frame[h].src) \in D!Entry
      BY <1>2 DEF TableInv, TypeOK, Frame, RowOf, Message, D!Entry
    <3>2. D!Register(RowOf(frame[h].msg, frame[h].src))
      BY <1>2, <2>1, UpdateRegisters, CreateRegisters
    <3>3. PICK e \in D!Entry : e = RowOf(frame[h].msg, frame[h].src)
      BY <3>1
    <3>4. D!Register(e)
      BY <3>2, <3>3 DEF D!Register, D!Same
    <3> QED BY <3>4 DEF D!Next
  <2>2. ASSUME Start PROVE D!Next
    <3>1. {db'[i] : i \in DOMAIN db'} = {}
      BY <2>2 DEF Start
    <3> QED BY <3>1 DEF D!Next, D!Forget
  <2>3. ASSUME db' = db PROVE UNCHANGED Entries
    BY <2>3 DEF Entries
  <2> QED
    BY <1>2, <2>1, <2>2, <2>3
       DEF Next, Step, Receive, BeginDecode, EndDecode, DecodeError, DecodePanic, ProcessGone, Crash,
           RegisterFind, RegisterLost, QueryClients, Reply, vars
<1>3. Init => TableInv
  BY InitTable
<1>4. TableInv /\ [Next]_vars => TableInv'
  BY NextTable
<1> QED BY <1>1, <1>2, <1>3, <1>4, PTL DEF Spec, ImplementsDirectory, D!Spec, Entries
-----------------------------------------------------------------------------
(* Keys at their endpoints *)

\* A login has a key.
LoginsHaveKeys == \A p \in Packets : p.msg.type = "login" => p.msg.key # EmptyKey

\* A handler whose datagram was not overwritten decodes it from a buffer that holds
\* nothing else,
DecodesOwn(h) ==
  pc[h] \in {"spawned", "decoding"} /\ frame[h].own =>
    \E p \in Packets :
      /\ p.src = frame[h].src
      /\ (pc[h] = "spawned" => buffer = TextOf(p))
      /\ (pc[h] = "decoding" => frame[h].seen = {TextOf(p)})

\* and registers a login that came from its address.
RegistersOwn(h) ==
  pc[h] \in {"login", "lookup"} /\ frame[h].own =>
    \E p \in Packets : p.src = frame[h].src /\ p.msg = frame[h].msg /\ p.msg.type = "login"

\* The inductive invariant of the keys.
OriginInv ==
  /\ TypeOK
  /\ \A h \in Handlers : DecodesOwn(h) /\ RegistersOwn(h)
  /\ UndisturbedKeys

LEMMA InitOrigin == Init => OriginInv
  BY InitTyped DEF Init, OriginInv, DecodesOwn, RegistersOwn, UndisturbedKeys

\* A row that is updated, or created, has the key and the endpoint of one login, or its
\* client is spoilt.
LEMMA RowsFromLogins ==
  ASSUME LoginsHaveKeys, OriginInv, NEW h \in Handlers, RegisterUpdate(h) \/ RegisterCreate(h)
  PROVE  UndisturbedKeys'
<1> DEFINE m == frame[h].msg
           src == frame[h].src
<1>1. /\ pc[h] = "lookup" /\ Spoils(frame[h])
      /\ frame[h].own \in BOOLEAN /\ spoilt \subseteq spoilt' /\ TypeOK
  BY DEF OriginInv, TypeOK, Frame, RegisterUpdate, RegisterCreate, Spoils
<1> SUFFICES ASSUME NEW i \in DOMAIN db', Ident(db'[i]) \notin spoilt'
             PROVE  SentTogether(db'[i])
  BY DEF UndisturbedKeys, SentTogether, RowOf
<1>2. CASE i \in DOMAIN db /\ db'[i] = db[i]
  BY <1>1, <1>2 DEF OriginInv, UndisturbedKeys
<1>3. CASE ~frame[h].own /\ Ident(db'[i]) = Ident(m)
  BY <1>1, <1>3 DEF Spoils
<1>4. ASSUME frame[h].own PROVE \E p \in Packets : p.src = src /\ p.msg = m /\ p.msg.type = "login" /\ m.key # EmptyKey
  BY <1>1, <1>4 DEF OriginInv, RegistersOwn, LoginsHaveKeys
<1>5. CASE i \in DOMAIN db /\ Ident(db[i]) = Ident(m) /\ db'[i] = Refreshed(db[i], m, src)
  <2>1. PICK r \in Row : r = db[i]
    BY <1>1, <1>5 DEF TypeOK
  <2>2. r.token = m.token /\ r.client = m.client
    BY <1>5, <2>1 DEF Ident
  <2>3. r = [token |-> r.token, client |-> r.client, key |-> r.key, aip |-> r.aip, addr |-> r.addr]
    BY DEF Row
  <2>4. db'[i] = [token |-> m.token, client |-> m.client, key |-> IF m.key = EmptyKey THEN r.key ELSE m.key,
                  aip |-> r.aip, addr |-> src]
    BY <1>5, <2>1, <2>2, <2>3 DEF Refreshed
  <2>5. Ident(db'[i]) = Ident(m)
    BY <2>4 DEF Ident
  <2>6. CASE frame[h].own
    <3>1. PICK p \in Packets : p.src = src /\ p.msg = m /\ p.msg.type = "login" /\ m.key # EmptyKey
      BY <1>4, <2>6
    <3>2. db'[i] = [token |-> m.token, client |-> m.client, key |-> m.key, aip |-> r.aip, addr |-> src]
      BY <2>4, <3>1
    <3>3. RowOf(m, src) = [db'[i] EXCEPT !.aip = m.aip]
      BY <3>2 DEF RowOf
    <3> QED BY <3>1, <3>3 DEF SentTogether
  <2> QED BY <1>1, <1>3, <2>5, <2>6
<1>6. CASE db'[i] = RowOf(m, src)
  <2>1. Ident(db'[i]) = Ident(m)
    BY <1>6 DEF Ident, RowOf
  <2>2. CASE frame[h].own
    <3>1. PICK p \in Packets : p.src = src /\ p.msg = m /\ p.msg.type = "login" /\ m.key # EmptyKey
      BY <1>4, <2>2
    <3>2. RowOf(m, src) = [db'[i] EXCEPT !.aip = m.aip]
      BY <1>6 DEF RowOf
    <3> QED BY <3>1, <3>2 DEF SentTogether
  <2> QED BY <1>1, <1>3, <2>1, <2>2
<1>7. CASE RegisterUpdate(h)
  <2>1. db' = [j \in DOMAIN db |-> IF Ident(db[j]) = Ident(m) THEN Refreshed(db[j], m, src) ELSE db[j]]
    BY <1>7 DEF RegisterUpdate, Updated
  <2> QED BY <1>2, <1>5, <2>1
<1>8. CASE RegisterCreate(h)
  <2>1. db' = Append(db, RowOf(m, src)) /\ db \in Seq(Row)
    BY <1>1, <1>8 DEF RegisterCreate, TypeOK
  <2>2. (i \in DOMAIN db /\ db'[i] = db[i]) \/ db'[i] = RowOf(m, src)
    BY <2>1
  <2> QED BY <1>2, <1>6, <2>2
<1> QED BY <1>7, <1>8

\* Every step keeps the invariant.
LEMMA NextOrigin ==
  ASSUME LoginsHaveKeys, OriginInv, [Next]_vars
  PROVE  OriginInv'
<1>0. TypeOK /\ TypeOK'
  BY NextTyped DEF OriginInv
<1> DEFINE Rest(g) == DecodesOwn(g) /\ RegistersOwn(g)
<1>a. ASSUME NEW g \in Handlers, pc'[g] = pc[g], frame'[g] = frame[g], buffer' = buffer PROVE Rest(g)'
  BY <1>a DEF OriginInv, DecodesOwn, RegistersOwn
<1>b. ASSUME UNCHANGED <<db, spoilt>> PROVE UndisturbedKeys'
  BY <1>b DEF OriginInv, UndisturbedKeys, SentTogether
<1>c. ASSUME NEW h \in Handlers, \A g \in Handlers : g # h => pc'[g] = pc[g] /\ frame'[g] = frame[g],
             Rest(h)', buffer' = buffer, UndisturbedKeys'
      PROVE  OriginInv'
  BY <1>0, <1>a, <1>c DEF OriginInv
<1> HIDE DEF Rest
<1>1. ASSUME NEW h \in Handlers, Receive(h) PROVE OriginInv'
  <2>1. PICK p \in Packets :
          /\ buffer' = TextOf(p) /\ frame'[h].n = p.len /\ frame'[h].src = p.src
          /\ \A g \in Handlers : g # h /\ pc[g] \in {"spawned", "decoding"} => ~frame'[g].own
          /\ \A g \in Handlers : g # h /\ pc[g] \notin {"spawned", "decoding"} => frame'[g] = frame[g]
    BY <1>0, <1>1, ReceiveFrames
  <2>2. /\ \A g \in Handlers : g # h => pc'[g] = pc[g]
        /\ pc'[h] = "spawned" /\ UNCHANGED <<db, spoilt>>
    BY <1>0, <1>1 DEF Receive, TypeOK
  <2>3. Rest(h)'
    BY <2>1, <2>2 DEF Rest, DecodesOwn, RegistersOwn
  <2>4. ASSUME NEW g \in Handlers, g # h PROVE Rest(g)'
    <3>1. CASE pc[g] \in {"spawned", "decoding"}
      BY <2>1, <2>2, <2>4, <3>1 DEF Rest, DecodesOwn, RegistersOwn
    <3>2. CASE pc[g] \notin {"spawned", "decoding"}
      BY <2>1, <2>2, <2>4, <3>2 DEF Rest, DecodesOwn, RegistersOwn, OriginInv
    <3> QED BY <3>1, <3>2
  <2> QED BY <1>0, <1>b, <2>2, <2>3, <2>4 DEF OriginInv, Rest
<1>2. ASSUME NEW h \in Handlers, BeginDecode(h) PROVE OriginInv'
  <2>1. /\ \A g \in Handlers : g # h => pc'[g] = pc[g] /\ frame'[g] = frame[g]
        /\ pc[h] = "spawned" /\ pc'[h] = "decoding" /\ UNCHANGED <<buffer, db, spoilt>>
        /\ frame'[h].src = frame[h].src /\ frame'[h].own = frame[h].own /\ frame'[h].seen = {buffer}
    BY <1>0, <1>2 DEF BeginDecode, TypeOK, Frame
  <2>2. Rest(h)'
    BY <2>1 DEF Rest, DecodesOwn, RegistersOwn, OriginInv
  <2> QED BY <1>b, <1>c, <2>1, <2>2
<1>3. ASSUME NEW h \in Handlers, EndDecode(h) PROVE OriginInv'
  <2>1. PICK m \in Decodings(frame[h].seen, frame[h].n) :
          /\ frame' = [frame EXCEPT ![h].msg = Used(m), ![h].seen = {}, ![h].n = 0]
          /\ pc' = [pc EXCEPT ![h] = NextPC(m.type)]
    BY <1>3 DEF EndDecode
  <2>2. /\ \A g \in Handlers : g # h => pc'[g] = pc[g] /\ frame'[g] = frame[g]
        /\ pc[h] = "decoding" /\ pc'[h] = NextPC(m.type) /\ UNCHANGED <<buffer, db, spoilt>>
        /\ frame'[h].src = frame[h].src /\ frame'[h].own = frame[h].own /\ frame'[h].msg = Used(m)
    BY <1>0, <1>3, <2>1 DEF EndDecode, TypeOK, Frame
  <2>3. pc'[h] \in {"login", "query", "reply"} /\ (pc'[h] = "login" => m.type = "login" /\ Used(m) = m)
    BY <2>2 DEF NextPC, Used
  <2>4. RegistersOwn(h)'
    <3>1. CASE ~frame[h].own
      BY <2>2, <3>1 DEF RegistersOwn
    <3>2. CASE frame[h].own
      <4>1. PICK p \in Packets : p.src = frame[h].src /\ frame[h].seen = {TextOf(p)}
        BY <2>2, <3>2 DEF OriginInv, DecodesOwn
      <4>2. ~Overwritten(frame[h].seen)
        BY <4>1 DEF Overwritten
      <4>3. m \in Whole(frame[h].seen, frame[h].n)
        BY <2>1, <4>2 DEF Decodings
      <4>4. m = p.msg
        BY <4>1, <4>3 DEF Whole, TextOf
      <4> QED BY <2>2, <2>3, <4>1, <4>4 DEF RegistersOwn
    <3> QED BY <3>1, <3>2
  <2>5. Rest(h)'
    BY <2>3, <2>4 DEF Rest, DecodesOwn
  <2> QED BY <1>b, <1>c, <2>2, <2>5
<1>4. ASSUME NEW h \in Handlers, DecodeError(h) \/ Reply(h) PROVE OriginInv'
  <2>1. /\ \A g \in Handlers : g # h => pc'[g] = pc[g] /\ frame'[g] = frame[g]
        /\ pc'[h] = "idle" /\ UNCHANGED <<buffer, db, spoilt>>
    BY <1>0, <1>4 DEF DecodeError, Reply, TypeOK
  <2>2. Rest(h)'
    BY <2>1 DEF Rest, DecodesOwn, RegistersOwn
  <2> QED BY <1>b, <1>c, <2>1, <2>2
<1>5. ASSUME ProcessGone PROVE OriginInv'
  <2>1. \A g \in Handlers : pc'[g] = "idle"
    BY <1>5 DEF ProcessGone
  <2> QED BY <1>0, <1>5, <1>b, <2>1 DEF ProcessGone, OriginInv, DecodesOwn, RegistersOwn
<1>6. ASSUME NEW h \in Handlers, RegisterFind(h) PROVE OriginInv'
  <2>1. PICK found : frame' = [frame EXCEPT ![h].found = found]
    BY <1>6 DEF RegisterFind
  <2>2. /\ \A g \in Handlers : g # h => pc'[g] = pc[g] /\ frame'[g] = frame[g]
        /\ pc[h] = "login" /\ pc'[h] = "lookup" /\ UNCHANGED <<buffer, db, spoilt>>
        /\ frame'[h].own = frame[h].own /\ frame'[h].src = frame[h].src /\ frame'[h].msg = frame[h].msg
    BY <1>0, <1>6, <2>1 DEF RegisterFind, TypeOK, Frame
  <2>3. Rest(h)'
    BY <2>2 DEF Rest, DecodesOwn, RegistersOwn, OriginInv
  <2> QED BY <1>b, <1>c, <2>2, <2>3
<1>7. ASSUME NEW h \in Handlers, RegisterUpdate(h) \/ RegisterCreate(h) \/ RegisterLost(h) PROVE OriginInv'
  <2>1. /\ \A g \in Handlers : g # h => pc'[g] = pc[g]
        /\ pc'[h] = "reply" /\ UNCHANGED <<buffer, frame>>
    BY <1>0, <1>7 DEF RegisterUpdate, RegisterCreate, RegisterLost, RegisterReturn, TypeOK
  <2>2. UndisturbedKeys'
    <3>1. CASE RegisterLost(h)
      BY <1>b, <3>1 DEF RegisterLost
    <3> QED BY <1>7, <3>1, RowsFromLogins
  <2>3. Rest(h)'
    BY <2>1 DEF Rest, DecodesOwn, RegistersOwn
  <2> QED BY <1>c, <2>1, <2>2, <2>3
<1>8. ASSUME NEW h \in Handlers, QueryClients(h) PROVE OriginInv'
  <2>1. /\ \A g \in Handlers : g # h => pc'[g] = pc[g] /\ frame'[g] = frame[g]
        /\ pc'[h] = "reply" /\ UNCHANGED <<buffer, db, spoilt>>
    BY <1>0, <1>8 DEF QueryClients, TypeOK
  <2>2. Rest(h)'
    BY <2>1 DEF Rest, DecodesOwn, RegistersOwn
  <2> QED BY <1>b, <1>c, <2>1, <2>2
<1>9. ASSUME Start PROVE OriginInv'
  <2>1. UndisturbedKeys'
    <3>1. CASE db' = <<>>
      BY <3>1 DEF UndisturbedKeys
    <3>2. CASE UNCHANGED <<db, spoilt>>
      BY <1>b, <3>2
    <3> QED BY <1>9, <3>1, <3>2 DEF Start
  <2>2. \A g \in Handlers : Rest(g)'
    BY <1>9, <1>a DEF Start
  <2> QED BY <1>0, <2>1, <2>2 DEF OriginInv, Rest
<1>10. CASE UNCHANGED vars
  <2>1. UNCHANGED <<buffer, pc, frame, db, spoilt>>
    BY <1>10 DEF vars
  <2>2. \A g \in Handlers : Rest(g)'
    BY <1>a, <2>1
  <2> QED BY <1>0, <1>b, <2>1, <2>2 DEF OriginInv, Rest
<1> QED
  BY <1>1, <1>2, <1>3, <1>4, <1>5, <1>6, <1>7, <1>8, <1>9, <1>10
     DEF Next, Step, DecodePanic, Crash

\* What the run signal_race shows to fail is confined to the clients decoded from an
\* overwritten buffer: where logins have keys, every other listed key and endpoint
\* were sent together by the client they are listed for, whatever requests of
\* whatever lengths meet in the buffer and whatever the database fails.
THEOREM KeysAtEndpoints ==
  ASSUME LoginsHaveKeys
  PROVE  Spec => []UndisturbedKeys
<1>1. Init => OriginInv
  BY InitOrigin
<1>2. OriginInv /\ [Next]_vars => OriginInv'
  BY NextOrigin
<1>3. OriginInv => UndisturbedKeys
  BY DEF OriginInv
<1> QED BY <1>1, <1>2, <1>3, PTL DEF Spec
=============================================================================
