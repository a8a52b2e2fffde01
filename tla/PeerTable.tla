----------------------------- MODULE PeerTable -----------------------------
(***************************************************************************)
(* What a WireGuard interface promises those who configure it: a table of  *)
(* peers with their endpoints, and for every prefix at most one peer it is *)
(* routed to.  Each request changes the table at once or not at all.       *)
(*                                                                         *)
(* WGConfigurer.tla shows that both configurers of the iface package       *)
(* implement it.                                                           *)
(***************************************************************************)
CONSTANTS Keys, Nets, Endpoints,
          None          \* no peer, or a peer without endpoint

VARIABLES peers,        \* the public keys of the peers
          endpoint,     \* where each of them is reached
          owner         \* the peer each prefix is routed to

vars == <<peers, endpoint, owner>>

Owned(k) == {n \in Nets : owner[n] = k}

\* A peer gets an endpoint, if one is given, and one prefix instead of those it had.
Update(k, n, e) ==
  /\ peers' = peers \cup {k}
  /\ endpoint' = IF e = None THEN endpoint ELSE [endpoint EXCEPT ![k] = e]
  /\ owner' = [m \in Nets |-> IF m = n THEN k ELSE IF owner[m] = k THEN None ELSE owner[m]]

Remove(k) ==
  /\ peers' = peers \ {k}
  /\ endpoint' = [endpoint EXCEPT ![k] = None]
  /\ owner' = [m \in Nets |-> IF owner[m] = k THEN None ELSE owner[m]]

\* A peer gets one more prefix; a key that is no peer may become one by it.
Add(k, n) ==
  /\ peers' = peers \cup {k}
  /\ owner' = [owner EXCEPT ![n] = k]
  /\ UNCHANGED endpoint

\* A peer loses this prefix and nothing else.
RemoveNet(k, n) ==
  /\ n \in Owned(k)
  /\ owner' = [owner EXCEPT ![n] = None]
  /\ UNCHANGED <<peers, endpoint>>

\* WireGuard follows a peer that sends from a new address.
Roam(k, e) ==
  /\ k \in peers
  /\ endpoint' = [endpoint EXCEPT ![k] = e]
  /\ UNCHANGED <<peers, owner>>

\* The interface is made anew, or goes.
Reset ==
  /\ peers' = {}
  /\ endpoint' = [k \in Keys |-> None]
  /\ owner' = [n \in Nets |-> None]

Init ==
  /\ peers = {}
  /\ endpoint = [k \in Keys |-> None]
  /\ owner = [n \in Nets |-> None]

Next ==
  \/ Reset
  \/ \E k \in Keys :
       \/ Remove(k)
       \/ \E n \in Nets : Add(k, n) \/ RemoveNet(k, n) \/ \E e \in Endpoints \cup {None} : Update(k, n, e)
       \/ \E e \in Endpoints : Roam(k, e)

Spec == Init /\ [][Next]_vars
=============================================================================
