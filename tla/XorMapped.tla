----------------------------- MODULE XorMapped -----------------------------
(***************************************************************************)
(* Discovery of the address a STUN server sees us under:                   *)
(* iface/bind/udp_mux_universal.go, GetXORMappedAddr, sendSTUN and the     *)
(* handling of the response, around the map xorMappedMap of pending and    *)
(* answered requests.  Callers of GetXORMappedAddr run concurrently with   *)
(* each other and with the goroutines that read the shared socket.         *)
(*                                                                         *)
(* An xorMapped object outlives its place in the map: callers keep its     *)
(* channel and, on a hit, the object itself.  Objects are therefore named. *)
(***************************************************************************)
EXTENDS Naturals

CONSTANTS
  Servers,      \* STUN server addresses
  Mapped,       \* mapped addresses the servers may report
  Callers,      \* goroutines in GetXORMappedAddr
  Readers,      \* goroutines that read the shared socket
  Objects,      \* names of xorMapped objects, reused once nothing refers to them
  None          \* nil

ASSUME NoneAssumption == None \notin Objects \cup Mapped \cup Servers

VARIABLES
  xorMappedMap, \* the entry of each server, or None
  owner,        \* the server each object was created for
  addr,         \* the mapped address of each object, None while pending
  closed,       \* objects whose waitAddrReceived is closed
  stale,        \* objects whose expiresAt has passed
  pc,           \* where each caller is
  server,       \* the server it asks about
  obj,          \* the object it waits for or has found
  result,       \* what it returned: an address, or None with an error
  reader,       \* the response each reader has recognised, <<server, address>>, or None;
                \* the address is None where its attribute cannot be parsed
  asked,        \* history: servers a request was sent to
  told          \* history: <<server, address>> pairs read from the socket

vars == <<xorMappedMap, owner, addr, closed, stale, pc, server, obj, result, reader, asked, told>>
objects == <<owner, addr, closed, stale>>

PCs == {"idle", "hit", "send", "wait", "returned"}

TypeOK ==
  /\ xorMappedMap \in [Servers -> Objects \cup {None}]
  /\ owner \in [Objects -> Servers \cup {None}]
  /\ addr \in [Objects -> Mapped \cup {None}]
  /\ closed \subseteq Objects
  /\ stale \subseteq Objects
  /\ pc \in [Callers -> PCs]
  /\ server \in [Callers -> Servers \cup {None}]
  /\ obj \in [Callers -> Objects \cup {None}]
  /\ result \in [Callers -> Mapped \cup {None}]
  /\ reader \in [Readers -> (Servers \X (Mapped \cup {None})) \cup {None}]
  /\ asked \subseteq Servers
  /\ told \subseteq Servers \X Mapped

Init ==
  /\ xorMappedMap = [s \in Servers |-> None]
  /\ owner = [o \in Objects |-> None]
  /\ addr = [o \in Objects |-> None]
  /\ closed = {}
  /\ stale = {}
  /\ pc = [c \in Callers |-> "idle"]
  /\ server = [c \in Callers |-> None]
  /\ obj = [c \in Callers |-> None]
  /\ result = [c \in Callers |-> None]
  /\ reader = [r \in Readers |-> None]
  /\ asked = {}
  /\ told = {}

-----------------------------------------------------------------------------
(* GetXORMappedAddr *)

\* closeWaiters closes the channel unless it is closed already.
CloseWaiters(o) == closed' = closed \cup {o}

\* Mutant of Lookup: an expired entry is dropped without closing its channel.
LookupDropsOnly(c, s) ==
  LET o == xorMappedMap[s] IN
  /\ pc[c] = "idle"
  /\ server' = [server EXCEPT ![c] = s]
  /\ xorMappedMap' = IF o \in stale THEN [xorMappedMap EXCEPT ![s] = None] ELSE xorMappedMap
  /\ IF o # None /\ o \notin stale /\ addr[o] # None
     THEN pc' = [pc EXCEPT ![c] = "hit"] /\ obj' = [obj EXCEPT ![c] = o]
     ELSE pc' = [pc EXCEPT ![c] = "send"] /\ UNCHANGED obj
  /\ UNCHANGED <<owner, addr, closed, stale, result, reader, asked, told>>

\* The first critical section: an entry that is answered and not too old is a
\* hit; an expired one is closed and dropped; a pending one is kept.
Lookup(c, s) ==
  LET o == xorMappedMap[s] IN
  /\ pc[c] = "idle"
  /\ server' = [server EXCEPT ![c] = s]
  /\ IF o \in stale
     THEN /\ CloseWaiters(o)
          /\ xorMappedMap' = [xorMappedMap EXCEPT ![s] = None]
     ELSE UNCHANGED <<closed, xorMappedMap>>
  /\ IF o # None /\ o \notin stale /\ addr[o] # None
     THEN pc' = [pc EXCEPT ![c] = "hit"] /\ obj' = [obj EXCEPT ![c] = o]
     ELSE pc' = [pc EXCEPT ![c] = "send"] /\ UNCHANGED obj
  /\ UNCHANGED <<owner, addr, stale, result, reader, asked, told>>

Return(c, a) ==
  /\ pc' = [pc EXCEPT ![c] = "returned"]
  /\ result' = [result EXCEPT ![c] = a]
  /\ obj' = [obj EXCEPT ![c] = None]

\* The hit is read after the unlock: whatever the object holds by then.
ReturnHit(c) ==
  /\ pc[c] = "hit"
  /\ Return(c, addr[obj[c]])
  /\ UNCHANGED <<xorMappedMap, objects, server, reader, asked, told>>

\* Nothing refers to the object.
Unused(o) == /\ \A s \in Servers : xorMappedMap[s] # o
             /\ \A c \in Callers : obj[c] # o

\* sendSTUN finds the entry of the server or creates a pending one.
Entry(s, o) ==
  IF xorMappedMap[s] # None
  THEN o = xorMappedMap[s] /\ UNCHANGED <<xorMappedMap, objects>>
  ELSE /\ Unused(o)
       /\ owner' = [owner EXCEPT ![o] = s]
       /\ addr' = [addr EXCEPT ![o] = None]
       /\ closed' = closed \ {o}
       /\ stale' = stale \ {o}
       /\ xorMappedMap' = [xorMappedMap EXCEPT ![s] = o]

\* sendSTUN: the request is written, and the caller waits on the entry's channel.
SendSTUN(c) ==
  /\ pc[c] = "send"
  /\ \E o \in Objects :
       /\ Entry(server[c], o)
       /\ obj' = [obj EXCEPT ![c] = o]
  /\ asked' = asked \cup {server[c]}
  /\ pc' = [pc EXCEPT ![c] = "wait"]
  /\ UNCHANGED <<server, result, reader, told>>

\* sendSTUN: building or writing the request fails; the entry stays in the map.
SendFails(c) ==
  /\ pc[c] = "send"
  /\ \E o \in Objects : Entry(server[c], o)
  /\ Return(c, None)
  /\ UNCHANGED <<server, reader, asked, told>>

\* The channel is closed: the caller looks its server up once more.  The entry
\* may be another one than the one it waited for, or gone.
Wake(c) ==
  /\ pc[c] = "wait"
  /\ obj[c] \in closed
  /\ LET o == xorMappedMap[server[c]] IN Return(c, IF o = None THEN None ELSE addr[o])
  /\ UNCHANGED <<xorMappedMap, objects, server, reader, asked, told>>

\* The deadline passes first.
Timeout(c) ==
  /\ pc[c] = "wait"
  /\ Return(c, None)
  /\ UNCHANGED <<xorMappedMap, objects, server, reader, asked, told>>

\* The goroutine goes on to its next request.
Again(c) ==
  /\ pc[c] = "returned"
  /\ pc' = [pc EXCEPT ![c] = "idle"]
  /\ server' = [server EXCEPT ![c] = None]
  /\ result' = [result EXCEPT ![c] = None]
  /\ UNCHANGED <<xorMappedMap, objects, obj, reader, asked, told>>

-----------------------------------------------------------------------------
(* The response *)

\* isXORMappedResponse: a server that was asked answers, perhaps late and more
\* than once; without an entry the message goes to the muxed connections instead.
\* A response that is lost is one that no reader ever takes.  Only the presence of
\* the address attribute is looked at here, so it may turn out not to parse.
Recognise(r, s, a) ==
  /\ reader[r] = None
  /\ s \in asked
  /\ told' = IF a = None THEN told ELSE told \cup {<<s, a>>}
  /\ reader' = [reader EXCEPT ![r] = IF xorMappedMap[s] # None THEN <<s, a>> ELSE None]
  /\ UNCHANGED <<xorMappedMap, objects, pc, server, obj, result, asked>>

\* What handleXORMappedResponse leaves alone.
AfterResponse(r) ==
  /\ reader' = [reader EXCEPT ![r] = None]
  /\ UNCHANGED <<xorMappedMap, owner, stale, pc, server, obj, result, asked, told>>

\* Mutant of HandleResponse: the response is taken for every pending entry.
HandleResponseForAll(r) ==
  /\ reader[r] # None
  /\ LET all == {xorMappedMap[s] : s \in Servers} \ {None} IN
       /\ addr' = [o \in Objects |-> IF o \in all THEN reader[r][2] ELSE addr[o]]
       /\ closed' = closed \cup all
  /\ AfterResponse(r)

\* Mutant of HandleResponse: the address is stored and nobody is woken.
HandleResponseSilently(r) ==
  /\ reader[r] # None
  /\ LET o == xorMappedMap[reader[r][1]] IN
       addr' = IF o = None THEN addr ELSE [addr EXCEPT ![o] = reader[r][2]]
  /\ UNCHANGED closed
  /\ AfterResponse(r)

\* handleXORMappedResponse, in a critical section of its own: the entry may have
\* been dropped or replaced meanwhile, and no transaction is compared.  Where GetFrom
\* fails nothing is stored and nobody is woken.
HandleResponse(r) ==
  /\ reader[r] # None
  /\ LET o == xorMappedMap[reader[r][1]] IN
       IF o = None \/ reader[r][2] = None THEN UNCHANGED <<addr, closed>>
       ELSE /\ addr' = [addr EXCEPT ![o] = reader[r][2]]
            /\ CloseWaiters(o)
  /\ AfterResponse(r)

\* XORMappedAddrCacheTTL has passed since the entry was created.
Expire(s) ==
  /\ xorMappedMap[s] \notin stale \cup {None}
  /\ stale' = stale \cup {xorMappedMap[s]}
  /\ UNCHANGED <<xorMappedMap, owner, addr, closed, pc, server, obj, result, reader, asked, told>>

-----------------------------------------------------------------------------
Progress(c) == ReturnHit(c) \/ SendSTUN(c) \/ SendFails(c) \/ Wake(c)

Next ==
  \/ \E c \in Callers : \/ \E s \in Servers : Lookup(c, s)
                        \/ Progress(c) \/ Timeout(c) \/ Again(c)
  \/ \E r \in Readers : \/ \E s \in Servers, a \in Mapped \cup {None} : Recognise(r, s, a)
                        \/ HandleResponse(r)
  \/ \E s \in Servers : Expire(s)

Spec == Init /\ [][Next]_vars

\* Goroutines that can run are scheduled.  No fairness of Timeout: a response must
\* do without it.
Fairness == /\ \A c \in Callers : WF_vars(Progress(c))
            /\ \A r \in Readers : WF_vars(HandleResponse(r))

FairSpec == Spec /\ Fairness

-----------------------------------------------------------------------------
(* Properties *)

\* A caller never waits for a channel that nobody can close any more: the object
\* it waits for is in the map, where the next response finds it, or its channel
\* is closed.  GetXORMappedAddr closes the waiters of every entry it drops.
NoForgottenWaiter ==
  \A c \in Callers : pc[c] = "wait" => obj[c] \in closed \/ xorMappedMap[server[c]] = obj[c]

\* An address that is returned was reported by the server that was asked, although
\* a hit is read outside the lock and a late response fills a newer entry.
ReturnedWasReported ==
  \A c \in Callers : result[c] # None => <<server[c], result[c]>> \in told

\* A waiter whose server's answer reached handleXORMappedResponse, with an address that
\* can be parsed, returns without the help of its deadline, even if the entry was
\* replaced in between or other answers did not parse.
AnsweredWaiterReturns ==
  \A c \in Callers :
    (\E r \in Readers : /\ pc[c] = "wait"
                         /\ reader[r] # None
                         /\ reader[r][1] = server[c] /\ reader[r][2] # None)
      ~> pc[c] # "wait"
=============================================================================
