----------------------------- MODULE Directory -----------------------------
(***************************************************************************)
(* What the signal server promises its clients: a directory with one entry *)
(* per (token, client), replaced atomically by a registration and emptied  *)
(* by a restart of the server.  A registration of a known client changes   *)
(* its key and endpoint and keeps the allowed IP it first announced.       *)
(*                                                                         *)
(* Signal.tla shows that signal/server and signal/store implement it.      *)
(***************************************************************************)
CONSTANTS Token, Client, Key, AllowedIP, Addr,
          EmptyKey      \* the zero value of a WireGuard key string

VARIABLE dir            \* the set of current entries

Entry == [token : Token, client : Client, key : Key, aip : AllowedIP, addr : Addr]

\* An entry is identified by the token and the client that registered it.
Ident(e) == <<e.token, e.client>>

\* gorm's Updates(struct) leaves a column alone when the new value is zero.
Refreshed(old, new) ==
  [old EXCEPT !.key  = IF new.key = EmptyKey THEN old.key ELSE new.key,
              !.addr = new.addr]

Same(e) == {o \in dir : Ident(o) = Ident(e)}

Register(e) ==
  dir' = IF Same(e) = {} THEN dir \cup {e}
         ELSE (dir \ Same(e)) \cup {Refreshed(o, e) : o \in Same(e)}

Forget == dir' = {}

Init == dir = {}

Next == Forget \/ \E e \in Entry : Register(e)

Spec == Init /\ [][Next]_dir
=============================================================================
