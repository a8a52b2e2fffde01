-------------------------- MODULE XorMappedProofs --------------------------
(***************************************************************************)
(* Proofs about XorMapped, for any number of servers, callers, readers and *)
(* objects.                                                                *)
(***************************************************************************)
EXTENDS XorMapped, TLAPS

\* An entry was created for its server, so no object is the entry of two.
MapInv == \A s \in Servers : xorMappedMap[s] # None => owner[xorMappedMap[s]] = s

\* An address an object holds, or a reader is about to store, was reported by the
\* server it belongs to.
AddrInv == /\ \A o \in Objects : addr[o] # None => <<owner[o], addr[o]>> \in told
           /\ \A r \in Readers : reader[r] # None /\ reader[r][2] # None => reader[r] \in told

\* A caller asks one server and holds an object created for it.
CallerInv ==
  \A c \in Callers :
    /\ pc[c] \in {"hit", "send", "wait"} => server[c] \in Servers
    /\ pc[c] \in {"hit", "wait"} => obj[c] \in Objects /\ owner[obj[c]] = server[c]
    /\ pc[c] # "returned" => result[c] = None

\* A hit is never a nil address without an error.
HitHasAddress == \A c \in Callers : pc[c] = "hit" => addr[obj[c]] # None

\* The inductive invariant.
Inv == /\ TypeOK /\ MapInv /\ AddrInv /\ CallerInv
       /\ NoForgottenWaiter /\ ReturnedWasReported /\ HitHasAddress

USE NoneAssumption

\* Init establishes the invariant.
LEMMA InitInv == Init => Inv
  BY DEF Init, Inv, TypeOK, PCs, MapInv, AddrInv, CallerInv, NoForgottenWaiter, ReturnedWasReported,
         HitHasAddress

\* Finding or creating the entry of a server disturbs nobody else's object.
LEMMA EntryInv ==
  ASSUME Inv, NEW s \in Servers, NEW o \in Objects, Entry(s, o), UNCHANGED <<told, reader>>
  PROVE  /\ MapInv' /\ AddrInv'
         /\ owner'[o] = s /\ xorMappedMap'[s] = o
         /\ \A t \in Servers : xorMappedMap[t] # None => xorMappedMap'[t] = xorMappedMap[t]
         /\ \A c \in Callers : obj[c] \in Objects =>
              /\ owner'[obj[c]] = owner[obj[c]] /\ addr'[obj[c]] = addr[obj[c]]
              /\ obj[c] \in closed => obj[c] \in closed'
         /\ owner' \in [Objects -> Servers \cup {None}] /\ addr' \in [Objects -> Mapped \cup {None}]
         /\ closed' \subseteq Objects /\ stale' \subseteq Objects
         /\ xorMappedMap' \in [Servers -> Objects \cup {None}]
<1> USE DEF Inv
<1>1. CASE xorMappedMap[s] # None
  BY <1>1 DEF Entry, MapInv, AddrInv, TypeOK, objects
<1>2. CASE xorMappedMap[s] = None
  <2>1. /\ \A t \in Servers : xorMappedMap[t] # o
        /\ \A c \in Callers : obj[c] # o
        /\ owner' = [owner EXCEPT ![o] = s]
        /\ addr' = [addr EXCEPT ![o] = None]
        /\ closed' = closed \ {o} /\ stale' = stale \ {o}
        /\ xorMappedMap' = [xorMappedMap EXCEPT ![s] = o]
    BY <1>2 DEF Entry, Unused
  <2>2. MapInv'
    BY <2>1 DEF MapInv, TypeOK
  <2>3. AddrInv'
    BY <2>1 DEF AddrInv, TypeOK
  <2>4. \A t \in Servers : xorMappedMap[t] # None => xorMappedMap'[t] = xorMappedMap[t]
    BY <1>2, <2>1 DEF TypeOK
  <2> QED BY <2>1, <2>2, <2>3, <2>4 DEF TypeOK
<1> QED BY <1>1, <1>2

\* Every step preserves the invariant.
LEMMA NextInv == Inv /\ [Next]_vars => Inv'
<1> SUFFICES ASSUME Inv, [Next]_vars PROVE Inv'
  OBVIOUS
<1> USE DEF Inv
<1>1. ASSUME NEW c \in Callers, NEW s \in Servers, Lookup(c, s) PROVE Inv'
  <2>0. /\ pc[c] = "idle" /\ server' = [server EXCEPT ![c] = s]
        /\ UNCHANGED <<owner, addr, stale, result, reader, asked, told>>
    BY <1>1 DEF Lookup
  <2>1. /\ xorMappedMap' \in [Servers -> Objects \cup {None}] /\ closed \subseteq closed'
        /\ closed' \subseteq Objects
        /\ \A t \in Servers : t # s => xorMappedMap'[t] = xorMappedMap[t]
        /\ xorMappedMap'[s] = xorMappedMap[s] \/ (xorMappedMap'[s] = None /\ xorMappedMap[s] \in closed')
    BY <1>1 DEF Lookup, CloseWaiters, TypeOK
  <2>2. MapInv' /\ AddrInv'
    BY <2>0, <2>1 DEF MapInv, AddrInv
  <2>3. CASE xorMappedMap[s] # None /\ xorMappedMap[s] \notin stale /\ addr[xorMappedMap[s]] # None
    <3>1. pc' = [pc EXCEPT ![c] = "hit"] /\ obj' = [obj EXCEPT ![c] = xorMappedMap[s]]
      BY <1>1, <2>3 DEF Lookup
    <3>2. TypeOK'
      BY <2>0, <2>1, <2>3, <3>1 DEF TypeOK, PCs
    <3>3. CallerInv' /\ ReturnedWasReported' /\ HitHasAddress'
      BY <2>0, <2>3, <3>1 DEF CallerInv, ReturnedWasReported, HitHasAddress, MapInv, TypeOK
    <3>4. NoForgottenWaiter'
      BY <2>0, <2>1, <3>1 DEF NoForgottenWaiter, CallerInv, TypeOK
    <3> QED BY <2>2, <3>2, <3>3, <3>4
  <2>4. CASE ~(xorMappedMap[s] # None /\ xorMappedMap[s] \notin stale /\ addr[xorMappedMap[s]] # None)
    <3>1. pc' = [pc EXCEPT ![c] = "send"] /\ obj' = obj
      BY <1>1, <2>4 DEF Lookup
    <3>2. TypeOK'
      BY <2>0, <2>1, <3>1 DEF TypeOK, PCs
    <3>3. CallerInv' /\ ReturnedWasReported' /\ HitHasAddress'
      BY <2>0, <3>1 DEF CallerInv, ReturnedWasReported, HitHasAddress, TypeOK
    <3>4. NoForgottenWaiter'
      BY <2>0, <2>1, <3>1 DEF NoForgottenWaiter, CallerInv, TypeOK
    <3> QED BY <2>2, <3>2, <3>3, <3>4
  <2> QED BY <2>3, <2>4
<1>a. ASSUME NEW c \in Callers, NEW a, Return(c, a), a # None => a \in Mapped /\ <<server[c], a>> \in told,
             UNCHANGED <<xorMappedMap, objects, server, reader, asked, told>>
      PROVE  Inv'
  <2>1. TypeOK'
    BY <1>a DEF Return, TypeOK, PCs, objects
  <2>2. MapInv' /\ AddrInv'
    BY <1>a DEF MapInv, AddrInv, objects
  <2>3. CallerInv' /\ NoForgottenWaiter' /\ ReturnedWasReported' /\ HitHasAddress'
    BY <1>a DEF CallerInv, NoForgottenWaiter, ReturnedWasReported, HitHasAddress, Return, TypeOK, objects
  <2> QED BY <2>1, <2>2, <2>3
<1>2. ASSUME NEW c \in Callers, ReturnHit(c) PROVE Inv'
  <2>1. obj[c] \in Objects /\ owner[obj[c]] = server[c]
    BY <1>2 DEF ReturnHit, CallerInv
  <2>2. addr[obj[c]] # None => addr[obj[c]] \in Mapped /\ <<server[c], addr[obj[c]]>> \in told
    BY <2>1 DEF AddrInv, TypeOK
  <2> QED BY <1>2, <1>a, <2>2 DEF ReturnHit
<1>3. ASSUME NEW c \in Callers, SendSTUN(c) PROVE Inv'
  <2>1. PICK o \in Objects : Entry(server[c], o) /\ obj' = [obj EXCEPT ![c] = o]
    BY <1>3 DEF SendSTUN
  <2>2. server[c] \in Servers /\ UNCHANGED <<server, result, reader, told>>
        /\ pc' = [pc EXCEPT ![c] = "wait"] /\ asked' = asked \cup {server[c]}
    BY <1>3 DEF SendSTUN, CallerInv
  <2>3. /\ MapInv' /\ AddrInv'
        /\ owner'[o] = server[c] /\ xorMappedMap'[server[c]] = o
        /\ \A t \in Servers : xorMappedMap[t] # None => xorMappedMap'[t] = xorMappedMap[t]
        /\ \A d \in Callers : obj[d] \in Objects =>
             /\ owner'[obj[d]] = owner[obj[d]] /\ addr'[obj[d]] = addr[obj[d]]
             /\ obj[d] \in closed => obj[d] \in closed'
        /\ owner' \in [Objects -> Servers \cup {None}] /\ addr' \in [Objects -> Mapped \cup {None}]
        /\ closed' \subseteq Objects /\ stale' \subseteq Objects
        /\ xorMappedMap' \in [Servers -> Objects \cup {None}]
    BY <2>1, <2>2, EntryInv
  <2>4. TypeOK'
    BY <2>1, <2>2, <2>3 DEF TypeOK, PCs
  <2>5. CallerInv' /\ ReturnedWasReported' /\ HitHasAddress'
    <3>1. CallerInv'
      <4> SUFFICES ASSUME NEW d \in Callers
                   PROVE  /\ pc'[d] \in {"hit", "send", "wait"} => server'[d] \in Servers
                          /\ pc'[d] \in {"hit", "wait"} => obj'[d] \in Objects /\ owner'[obj'[d]] = server'[d]
                          /\ pc'[d] # "returned" => result'[d] = None
        BY DEF CallerInv
      <4>0. pc[c] = "send"
        BY <1>3 DEF SendSTUN
      <4>1. CASE d = c
        BY <4>0, <4>1, <2>1, <2>2, <2>3 DEF CallerInv, TypeOK
      <4>2. CASE d # c
        BY <4>2, <2>1, <2>2, <2>3 DEF CallerInv, TypeOK
      <4> QED BY <4>1, <4>2
    <3>2. ReturnedWasReported'
      BY <2>2 DEF ReturnedWasReported
    <3>3. \A d \in Callers : pc'[d] = "hit" => d # c /\ pc[d] = "hit" /\ obj'[d] = obj[d]
      BY <2>1, <2>2 DEF TypeOK
    <3>4. HitHasAddress'
      BY <2>3, <3>3 DEF HitHasAddress, CallerInv
    <3> QED BY <3>1, <3>2, <3>4
  <2>6. NoForgottenWaiter'
    BY <2>1, <2>2, <2>3 DEF CallerInv, NoForgottenWaiter, TypeOK
  <2> QED BY <2>3, <2>4, <2>5, <2>6
<1>4. ASSUME NEW c \in Callers, SendFails(c) PROVE Inv'
  <2>1. PICK o \in Objects : Entry(server[c], o)
    BY <1>4 DEF SendFails
  <2>2. server[c] \in Servers /\ UNCHANGED <<server, reader, asked, told>> /\ Return(c, None)
    BY <1>4 DEF SendFails, CallerInv
  <2>3. /\ MapInv' /\ AddrInv'
        /\ \A t \in Servers : xorMappedMap[t] # None => xorMappedMap'[t] = xorMappedMap[t]
        /\ \A d \in Callers : obj[d] \in Objects =>
             /\ owner'[obj[d]] = owner[obj[d]] /\ addr'[obj[d]] = addr[obj[d]]
             /\ obj[d] \in closed => obj[d] \in closed'
        /\ owner' \in [Objects -> Servers \cup {None}] /\ addr' \in [Objects -> Mapped \cup {None}]
        /\ closed' \subseteq Objects /\ stale' \subseteq Objects
        /\ xorMappedMap' \in [Servers -> Objects \cup {None}]
    BY <2>1, <2>2, EntryInv
  <2>4. TypeOK'
    BY <2>2, <2>3 DEF Return, TypeOK, PCs
  <2>5. CallerInv' /\ ReturnedWasReported' /\ HitHasAddress'
    BY <2>2, <2>3 DEF Return, CallerInv, ReturnedWasReported, HitHasAddress, TypeOK
  <2>6. NoForgottenWaiter'
    BY <2>2, <2>3 DEF Return, CallerInv, NoForgottenWaiter, TypeOK
  <2> QED BY <2>3, <2>4, <2>5, <2>6
<1>5. ASSUME NEW c \in Callers, Wake(c) PROVE Inv'
  <2> DEFINE o == xorMappedMap[server[c]]
             a == IF o = None THEN None ELSE addr[o]
  <2>1. server[c] \in Servers
    BY <1>5 DEF Wake, CallerInv
  <2>2. a # None => a \in Mapped /\ <<server[c], a>> \in told
    BY <2>1 DEF MapInv, AddrInv, TypeOK
  <2>3. Return(c, a) /\ UNCHANGED <<xorMappedMap, objects, server, reader, asked, told>>
    BY <1>5 DEF Wake
  <2> QED BY <1>a, <2>2, <2>3
<1>6. ASSUME NEW c \in Callers, Timeout(c) PROVE Inv'
  BY <1>6, <1>a DEF Timeout
<1>7. ASSUME NEW c \in Callers, Again(c) PROVE Inv'
  <2>1. TypeOK'
    BY <1>7 DEF Again, TypeOK, PCs, objects
  <2>2. MapInv' /\ AddrInv'
    BY <1>7 DEF Again, MapInv, AddrInv, objects
  <2>3. CallerInv' /\ NoForgottenWaiter' /\ ReturnedWasReported' /\ HitHasAddress'
    BY <1>7 DEF Again, CallerInv, NoForgottenWaiter, ReturnedWasReported, HitHasAddress, TypeOK, objects
  <2> QED BY <2>1, <2>2, <2>3
<1>8. ASSUME NEW r \in Readers, NEW s \in Servers, NEW a \in Mapped \cup {None}, Recognise(r, s, a) PROVE Inv'
  <2>1. TypeOK'
    BY <1>8 DEF Recognise, TypeOK, objects
  <2>2. MapInv' /\ AddrInv'
    BY <1>8 DEF Recognise, MapInv, AddrInv, TypeOK, objects
  <2>3. CallerInv' /\ NoForgottenWaiter' /\ ReturnedWasReported' /\ HitHasAddress'
    BY <1>8 DEF Recognise, CallerInv, NoForgottenWaiter, ReturnedWasReported, HitHasAddress, objects
  <2> QED BY <2>1, <2>2, <2>3
<1>9. ASSUME NEW r \in Readers, HandleResponse(r) PROVE Inv'
  <2>1. PICK s \in Servers, a \in Mapped \cup {None} :
          reader[r] = <<s, a>> /\ (a # None => <<s, a>> \in told)
    <3>1. reader[r] \in Servers \X (Mapped \cup {None}) /\ (reader[r][2] # None => reader[r] \in told)
      BY <1>9 DEF HandleResponse, AfterResponse, TypeOK, AddrInv
    <3>2. reader[r] = <<reader[r][1], reader[r][2]>> /\ reader[r][1] \in Servers /\ reader[r][2] \in Mapped \cup {None}
      BY <3>1
    <3> QED BY <3>1, <3>2
  <2>2. /\ closed \subseteq closed' /\ closed' \subseteq Objects
        /\ \A p \in Objects : addr'[p] = addr[p] \/ (p = xorMappedMap[s] /\ addr'[p] = a /\ a # None)
        /\ addr' \in [Objects -> Mapped \cup {None}]
    BY <1>9, <2>1 DEF HandleResponse, AfterResponse, CloseWaiters, TypeOK
  <2>3. /\ reader' = [reader EXCEPT ![r] = None]
        /\ UNCHANGED <<xorMappedMap, owner, stale, pc, server, obj, result, asked, told>>
    BY <1>9 DEF HandleResponse, AfterResponse
  <2>4. TypeOK'
    BY <2>2, <2>3 DEF TypeOK
  <2>5. MapInv' /\ NoForgottenWaiter'
    BY <2>2, <2>3 DEF MapInv, NoForgottenWaiter
  <2>6. AddrInv'
    BY <2>1, <2>2, <2>3 DEF AddrInv, MapInv, TypeOK
  <2>7. CallerInv' /\ ReturnedWasReported'
    BY <2>3 DEF CallerInv, ReturnedWasReported
  <2>8. HitHasAddress'
    BY <2>2, <2>3 DEF HitHasAddress, CallerInv, TypeOK
  <2> QED BY <2>4, <2>5, <2>6, <2>7, <2>8
<1>10. ASSUME NEW s \in Servers, Expire(s) PROVE Inv'
  <2>1. TypeOK'
    BY <1>10 DEF Expire, TypeOK
  <2>2. MapInv' /\ AddrInv'
    BY <1>10 DEF Expire, MapInv, AddrInv
  <2>3. CallerInv' /\ NoForgottenWaiter' /\ ReturnedWasReported' /\ HitHasAddress'
    BY <1>10 DEF Expire, CallerInv, NoForgottenWaiter, ReturnedWasReported, HitHasAddress
  <2> QED BY <2>1, <2>2, <2>3
<1>11. ASSUME UNCHANGED vars PROVE Inv'
  BY <1>11 DEF vars, TypeOK, MapInv, AddrInv, CallerInv, NoForgottenWaiter, ReturnedWasReported,
               HitHasAddress
<1> QED
  BY <1>1, <1>2, <1>3, <1>4, <1>5, <1>6, <1>7, <1>8, <1>9, <1>10, <1>11 DEF Next, Progress

\* Every variable of the discovery keeps its type.
THEOREM XorTypeCorrect == Spec => []TypeOK
<1>1. Inv => TypeOK
  BY DEF Inv
<1> QED BY InitInv, NextInv, <1>1, PTL DEF Spec

\* No caller of GetXORMappedAddr waits for a channel nobody can close any more,
\* for any number of callers, servers, expiries and late responses.
THEOREM NoWaiterForgotten == Spec => []NoForgottenWaiter
<1>1. Inv => NoForgottenWaiter
  BY DEF Inv
<1> QED BY InitInv, NextInv, <1>1, PTL DEF Spec

\* An address is only ever returned for the server that reported it, and a hit is
\* never nil.
THEOREM ReturnsReported == Spec => [](ReturnedWasReported /\ HitHasAddress)
<1>1. Inv => ReturnedWasReported /\ HitHasAddress
  BY DEF Inv
<1> QED BY InitInv, NextInv, <1>1, PTL DEF Spec
=============================================================================
