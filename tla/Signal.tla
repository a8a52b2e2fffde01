------------------------------- MODULE Signal -------------------------------
(***************************************************************************)
(* The signal server: signal/server/signal.go (the receive loop and the    *)
(* goroutine it starts per datagram) and signal/store (the peer table and  *)
(* its RWMutex).                                                           *)
(*                                                                         *)
(* The receive loop reads every datagram into ONE buffer and hands each    *)
(* goroutine a slice of it, so json.Unmarshal may see a later datagram, or *)
(* a mixture of several.  Decoding is two steps: between them a handler    *)
(* collects what the buffer holds, and the second step chooses among all   *)
(* that the two passes of json.Unmarshal can make of these contents.       *)
(***************************************************************************)
EXTENDS Naturals, Sequences

CONSTANTS
  Token, Client, Key, AllowedIP, Addr,
  EmptyKey,     \* a key string of length zero
  Mangled,      \* a string no client sent, spliced from several datagrams or left empty
  Packets,      \* what the clients send: [msg |-> Message, len |-> Nat, src |-> Addr]
  Handlers,     \* handleConnection goroutines (bounds how many run at once)
  NoOne,        \* no handler
  DbFaults,     \* TRUE: the database may fail a statement
  MaxRows,      \* bound on the length of the peer table
  MaxReceived   \* bound on the datagrams read

Types == {"login", "query", "keepalive"}

Message == [type : Types, token : Token \cup {Mangled}, client : Client \cup {Mangled},
            key : Key \cup {Mangled}, aip : AllowedIP \cup {Mangled}]

\* A request as it lies in the buffer: the length of its JSON text is the only thing
\* about the encoding that decides whether a slice cut for another request decodes.
Text == [msg : Message, len : Nat]

TextOf(p) == [msg |-> p.msg, len |-> p.len]

Row == [token : Token \cup {Mangled}, client : Client \cup {Mangled},
        key : Key \cup {Mangled}, aip : AllowedIP \cup {Mangled}, addr : Addr]

ASSUME PacketsAssumption == /\ Packets \subseteq [msg : Message, len : Nat, src : Addr]
                            /\ Packets # {}
ASSUME HandlersAssumption == NoOne \notin Handlers
ASSUME BoundsAssumption == DbFaults \in BOOLEAN /\ MaxRows \in Nat /\ MaxReceived \in Nat
ASSUME KeyAssumption == EmptyKey \in Key /\ EmptyKey # Mangled

VARIABLES
  up,           \* the process runs
  buffer,       \* the datagram last read into the shared buffer
  pc,           \* where each handler is
  frame,        \* its locals
  writer,       \* the handler that holds mu for writing
  db,           \* the peer table, in the order the rows were created
  acked,        \* history: identities whose login was answered since start
  known,        \* history: acked when the handler's datagram was read
  spoilt,       \* history: identities registered by a handler that lost its datagram
  received      \* how many datagrams were read, for the bound

vars == <<up, buffer, pc, frame, writer, db, acked, known, spoilt, received>>

PCs == {"idle", "spawned", "decoding", "login", "lookup", "query", "reply"}

Ident(r) == <<r.token, r.client>>

NoMessage == CHOOSE m \in {p.msg : p \in Packets} : TRUE
NoSrc     == CHOOSE a \in {p.src : p \in Packets} : TRUE
NoText    == [msg |-> NoMessage, len |-> 0]

\* The locals of a goroutine that has not been started.
NoFrame == [n |-> 0, src |-> NoSrc, own |-> FALSE, seen |-> {}, msg |-> NoMessage,
            found |-> FALSE, answer |-> {}]

\* n: the length of its datagram; seen: what the buffer has held while it decodes;
\* own (history): the buffer has held its own datagram only, since that was read.
Frame == [n : Nat, src : Addr, own : BOOLEAN, seen : SUBSET Text, msg : Message,
          found : BOOLEAN, answer : SUBSET Row]

Idents == (Token \cup {Mangled}) \X (Client \cup {Mangled})

TypeOK ==
  /\ up \in BOOLEAN
  /\ buffer \in Text
  /\ pc \in [Handlers -> PCs]
  /\ frame \in [Handlers -> Frame]
  /\ writer \in Handlers \cup {NoOne}
  /\ db \in Seq(Row)
  /\ acked \subseteq Idents
  /\ known \in [Handlers -> SUBSET Idents]
  /\ spoilt \subseteq Idents
  /\ received \in Nat

Init ==
  /\ up = TRUE
  /\ buffer = NoText
  /\ pc = [h \in Handlers |-> "idle"]
  /\ frame = [h \in Handlers |-> NoFrame]
  /\ writer = NoOne
  /\ db = <<>>
  /\ acked = {}
  /\ known = [h \in Handlers |-> {}]
  /\ spoilt = {}
  /\ received = 0

-----------------------------------------------------------------------------
(* Receiving and decoding *)

\* What the arrival of text in the shared buffer means to the handler of f.
Overwrites(f, at, text) ==
  [f EXCEPT !.own = FALSE, !.seen = IF at = "decoding" THEN f.seen \cup {text} ELSE f.seen]

\* Run: one turn of the receive loop.
Receive(h) ==
  /\ up
  /\ pc[h] = "idle"
  /\ received < MaxReceived
  /\ \E p \in Packets :
       /\ buffer' = TextOf(p)
       /\ frame' = [g \in Handlers |->
                      IF g = h THEN [NoFrame EXCEPT !.n = p.len, !.src = p.src, !.own = TRUE]
                      ELSE IF pc[g] \in {"spawned", "decoding"} THEN Overwrites(frame[g], pc[g], TextOf(p))
                      ELSE frame[g]]
  /\ pc' = [pc EXCEPT ![h] = "spawned"]
  /\ known' = [known EXCEPT ![h] = acked]
  /\ received' = received + 1
  /\ UNCHANGED <<up, writer, db, acked, spoilt>>

\* json.Unmarshal starts reading the shared buffer.
BeginDecode(h) ==
  /\ pc[h] = "spawned"
  /\ frame' = [frame EXCEPT ![h].seen = {buffer}]
  /\ pc' = [pc EXCEPT ![h] = "decoding"]
  /\ UNCHANGED <<up, buffer, writer, db, acked, known, spoilt, received>>

\* The bytes changed under json.Unmarshal.
Overwritten(seen) == \E a, b \in seen : a # b

\* One request, in a buffer that stays as it is, and cut at its own length; at any
\* other length the object is truncated or has trailing bytes, a syntax error.
Whole(seen, n) == {x.msg : x \in {y \in seen : seen = {y} /\ y.len = n}}

\* What can be read from a buffer that changes: the syntax check makes one pass over
\* the slice and the decoder a second, which stops at the end of the object and
\* looks at no trailing bytes, so requests of every length may contribute.  A field
\* is that of any of the requests, or a mixture, or missing; a type that is neither
\* of the two known ones stands for all the others.
Assembled(seen) ==
  [type   : {x.msg.type : x \in seen} \cup {"keepalive"},
   token  : {x.msg.token : x \in seen} \cup {Mangled},
   client : {x.msg.client : x \in seen} \cup {Mangled},
   key    : {x.msg.key : x \in seen} \cup {Mangled, EmptyKey},
   aip    : {x.msg.aip : x \in seen} \cup {Mangled}]

\* What json.Unmarshal may return for the n bytes of its slice.
Decodings(seen, n) == IF Overwritten(seen) THEN Assembled(seen) ELSE Whole(seen, n)

\* Only a buffer that stays as it is, and holds one whole request, cannot fail.
MayFail(seen, n) == Whole(seen, n) = {}

NextPC(type) == CASE type = "login" -> "login"
                  [] type = "query" -> "query"
                  [] OTHER -> "reply"

\* What the handler of its type reads of a request.
Used(m) == CASE m.type = "login" -> m
             [] m.type = "query" -> [m EXCEPT !.key = EmptyKey, !.aip = Mangled]
             [] OTHER -> [type |-> m.type, token |-> Mangled, client |-> Mangled,
                          key |-> EmptyKey, aip |-> Mangled]

\* handleConnection: the request is decoded and dispatched on its type; a type
\* without a handler is answered with an empty datagram, and so is a body that is no
\* object.
EndDecode(h) ==
  /\ pc[h] = "decoding"
  /\ \E m \in Decodings(frame[h].seen, frame[h].n) :
       /\ frame' = [frame EXCEPT ![h].msg = Used(m), ![h].seen = {}, ![h].n = 0]
       /\ pc' = [pc EXCEPT ![h] = NextPC(m.type)]
  /\ UNCHANGED <<up, buffer, writer, db, acked, known, spoilt, received>>

\* handleConnection: a decoding error ends the goroutine without a reply.
DecodeError(h) ==
  /\ pc[h] = "decoding"
  /\ MayFail(frame[h].seen, frame[h].n)
  /\ pc' = [pc EXCEPT ![h] = "idle"]
  /\ frame' = [frame EXCEPT ![h] = NoFrame]
  /\ known' = [known EXCEPT ![h] = {}]
  /\ UNCHANGED <<up, buffer, writer, db, acked, spoilt, received>>

\* Every goroutine of the process disappears with it.
ProcessGone ==
  /\ up' = FALSE
  /\ pc' = [g \in Handlers |-> "idle"]
  /\ frame' = [g \in Handlers |-> NoFrame]
  /\ writer' = NoOne
  /\ acked' = {}
  /\ known' = [g \in Handlers |-> {}]
  /\ UNCHANGED <<buffer, db, spoilt, received>>

\* encoding/json panics when the bytes that passed its syntax check have changed
\* when they are decoded; nothing recovers the panic.
DecodePanic(h) ==
  /\ pc[h] = "decoding"
  /\ Overwritten(frame[h].seen)
  /\ ProcessGone

-----------------------------------------------------------------------------
(* The store *)

Listed(k) == \E i \in DOMAIN db : Ident(db[i]) = k

\* Mutant of RegisterFind: Register does not take the lock.
RegisterFindUnlocked(h) ==
  /\ pc[h] = "login"
  /\ writer' = h
  /\ frame' = [frame EXCEPT ![h].found = Listed(Ident(frame[h].msg))]
  /\ pc' = [pc EXCEPT ![h] = "lookup"]
  /\ UNCHANGED <<up, buffer, db, acked, known, spoilt, received>>

\* store.Register up to the loop over the rows of the token; the error of Find is
\* dropped, and a failed Find leaves the list of rows empty.
RegisterFind(h) ==
  /\ pc[h] = "login"
  /\ writer = NoOne
  /\ writer' = h
  /\ \E found \in {Listed(Ident(frame[h].msg))} \cup (IF DbFaults THEN {FALSE} ELSE {}) :
       frame' = [frame EXCEPT ![h].found = found]
  /\ pc' = [pc EXCEPT ![h] = "lookup"]
  /\ UNCHANGED <<up, buffer, db, acked, known, spoilt, received>>

\* The columns store.Register hands to Updates, which skips zero values.
Refreshed(old, m, src) ==
  [old EXCEPT !.key = IF m.key = EmptyKey THEN old.key ELSE m.key, !.addr = src]

\* Mutant of Updated: the update selects by token only.
UpdatedWholeToken(m, src) ==
  [i \in DOMAIN db |-> IF db[i].token = m.token THEN Refreshed(db[i], m, src) ELSE db[i]]

\* History: f's registration is of what it decoded after its datagram was overwritten.
Spoils(f) == spoilt' = IF f.own THEN spoilt ELSE spoilt \cup {Ident(f.msg)}

Updated(m, src) ==
  [i \in DOMAIN db |-> IF Ident(db[i]) = Ident(m) THEN Refreshed(db[i], m, src) ELSE db[i]]

\* Mutant of RowOf: the address the client gave for itself is listed.
RowOfLocalAddress(m, src) ==
  [token |-> m.token, client |-> m.client, key |-> m.key, aip |-> m.aip, addr |-> m.aip]

RowOf(m, src) == [token |-> m.token, client |-> m.client, key |-> m.key, aip |-> m.aip, addr |-> src]

\* Mutant of RegisterReturn: the lock is not released.
RegisterReturnLocked(h) ==
  /\ UNCHANGED writer
  /\ pc' = [pc EXCEPT ![h] = "reply"]
  /\ UNCHANGED <<up, buffer, frame, acked, known, received>>

\* The deferred Unlock of store.Register, and the return to handleConnection.
RegisterReturn(h) ==
  /\ writer' = NoOne
  /\ pc' = [pc EXCEPT ![h] = "reply"]
  /\ UNCHANGED <<up, buffer, frame, acked, known, received>>

\* store.Register: the client is listed, its row is updated.
RegisterUpdate(h) ==
  /\ pc[h] = "lookup"
  /\ frame[h].found
  /\ db' = Updated(frame[h].msg, frame[h].src)
  /\ Spoils(frame[h])
  /\ RegisterReturn(h)

\* Mutant of RegisterCreate: the loop over the token's rows returns at its end, so
\* only the first client of a token gets a row.
RegisterCreateFirst(h) ==
  /\ pc[h] = "lookup"
  /\ ~frame[h].found
  /\ Len(db) < MaxRows
  /\ db' = IF db = <<>> THEN <<RowOf(frame[h].msg, frame[h].src)>> ELSE db
  /\ Spoils(frame[h])
  /\ RegisterReturn(h)

\* store.Register: the client is not listed, a row is created.
RegisterCreate(h) ==
  /\ pc[h] = "lookup"
  /\ ~frame[h].found
  /\ Len(db) < MaxRows
  /\ db' = Append(db, RowOf(frame[h].msg, frame[h].src))
  /\ Spoils(frame[h])
  /\ RegisterReturn(h)

\* store.Register: Updates or Create fails, and its error is dropped.
RegisterLost(h) ==
  /\ DbFaults
  /\ pc[h] = "lookup"
  /\ UNCHANGED <<db, spoilt>>
  /\ RegisterReturn(h)

\* store.GetClients: one Find under the read lock.
Others(m) == {r \in {db[i] : i \in DOMAIN db} : r.token = m.token /\ r.client # m.client}

QueryClients(h) ==
  /\ pc[h] = "query"
  /\ writer = NoOne
  /\ \E answer \in {Others(frame[h].msg)} \cup (IF DbFaults THEN {{}} ELSE {}) :
       frame' = [frame EXCEPT ![h].answer = answer]
  /\ pc' = [pc EXCEPT ![h] = "reply"]
  /\ UNCHANGED <<up, buffer, writer, db, acked, known, spoilt, received>>

\* handleConnection: the response goes to the handler's own remote address.
Reply(h) ==
  /\ pc[h] = "reply"
  /\ acked' = IF frame[h].msg.type = "login" THEN acked \cup {Ident(frame[h].msg)} ELSE acked
  /\ pc' = [pc EXCEPT ![h] = "idle"]
  /\ frame' = [frame EXCEPT ![h] = NoFrame]
  /\ known' = [known EXCEPT ![h] = {}]
  /\ UNCHANGED <<up, buffer, writer, db, spoilt, received>>

-----------------------------------------------------------------------------
(* The process *)

\* The process is killed; the table is on disk and survives.
Crash == up /\ ProcessGone

\* store.init empties the table before Run listens; the error of Delete is dropped,
\* and the server then starts with the rows of the process before it.
Start ==
  /\ ~up
  /\ up' = TRUE
  /\ \/ db' = <<>> /\ spoilt' = {}
     \/ DbFaults /\ UNCHANGED <<db, spoilt>>
  /\ UNCHANGED <<buffer, pc, frame, writer, acked, known, received>>

Step(h) ==
  \/ BeginDecode(h) \/ EndDecode(h) \/ DecodeError(h)
  \/ RegisterFind(h) \/ RegisterUpdate(h) \/ RegisterCreate(h) \/ RegisterLost(h)
  \/ QueryClients(h) \/ Reply(h)

Next ==
  \/ \E h \in Handlers : Receive(h) \/ Step(h) \/ DecodePanic(h)
  \/ Crash
  \/ Start

Spec == Init /\ [][Next]_vars

\* The Go scheduler runs every goroutine, and sync.RWMutex lets no waiter starve:
\* a handler that can take the lock again and again takes it.
Fairness == \A h \in Handlers : SF_vars(Step(h))

FairSpec == Spec /\ Fairness

-----------------------------------------------------------------------------
(* Properties *)

\* store.Register finds out whether a client is listed and then creates or
\* updates: whatever logins run concurrently, a client never gets a second row
\* under its token.
OneRowPerClient == \A i, j \in DOMAIN db : Ident(db[i]) = Ident(db[j]) => i = j

\* A registration that was answered for is reported by every query whose datagram is
\* read later, whichever client it was made for: handleConnection replies only once
\* Register is done, and no restart comes between without ending the query.  The
\* client registered is the one decoded from the shared buffer, which need not be the
\* one that gets the reply (see KeyAtItsEndpoint).
AckedIsAnswered ==
  \A h \in Handlers : pc[h] = "reply" /\ frame[h].msg.type = "query" =>
    \A k \in known[h] : k[1] = frame[h].msg.token /\ k[2] # frame[h].msg.client =>
      \E r \in frame[h].answer : Ident(r) = k

\* Every goroutine of the server ends, whatever the others hold and whether or
\* not the database fails: no login or query waits for the store's lock forever.
HandlersReturn == \A h \in Handlers : pc[h] # "idle" ~> pc[h] = "idle"

SentTogether(r) ==
  \E p \in Packets : /\ p.msg.type = "login"
                      /\ RowOf(p.msg, p.src) = [r EXCEPT !.aip = p.msg.aip]

\* The exchange the server exists for: a listed key and endpoint were sent
\* together, by the client they are listed for.
KeyAtItsEndpoint == \A i \in DOMAIN db : SentTogether(db[i])

\* The damage of an overwritten buffer stays with the client that was decoded from
\* it: every other listed key and endpoint were sent together, by the client they are
\* listed for, whatever else the handlers decode, the database fails or a restart
\* leaves in the table.
UndisturbedKeys ==
  \A i \in DOMAIN db : Ident(db[i]) \notin spoilt => SentTogether(db[i])

\* The table as a directory.
D == INSTANCE Directory WITH
       Token <- Token \cup {Mangled}, Client <- Client \cup {Mangled}, Key <- Key \cup {Mangled},
       AllowedIP <- AllowedIP \cup {Mangled}, dir <- {db[i] : i \in DOMAIN db}

\* The server with its concurrent handlers, its lock and its crashes implements
\* the directory: every step is one whole registration, a restart or nothing.
ImplementsDirectory == D!Spec
=============================================================================
