------------------------------ MODULE MCSignal ------------------------------
(* Instances of Signal for TLC.  The two logins of MCPackets have one length, *)
(* as the clients' requests have when their names are equally long.           *)
EXTENDS Signal, TLC

CONSTANTS t, A, B, ka, kb, a1, b1, h1, h2

MCToken  == {t}
MCClient == {A, B}
MCKey    == {ka, kb, EmptyKey}
MCIP     == {Mangled}     \* one value: no property of these runs looks at the allowed IPs
MCAddr   == {a1, b1}

LoginMsg(c, k) == [type |-> "login", token |-> t, client |-> c, key |-> k, aip |-> Mangled]
QueryMsg(c)    == [type |-> "query", token |-> t, client |-> c, key |-> EmptyKey, aip |-> Mangled]
Sent(m, n, a)  == [msg |-> m, len |-> n, src |-> a]

\* Two clients log in, with requests of one length, and one queries.
MCPackets == {Sent(LoginMsg(A, ka), 9, a1), Sent(LoginMsg(B, kb), 9, b1), Sent(QueryMsg(B), 5, b1)}

\* Requests of different lengths: two clients log in, one queries and sends what the
\* server has no handler for.
MCLengthsDiffer == {Sent(LoginMsg(A, ka), 9, a1), Sent(LoginMsg(B, kb), 8, b1), Sent(QueryMsg(B), 5, b1),
                    Sent([QueryMsg(B) EXCEPT !.type = "keepalive"], 6, b1)}

MCHandlers2 == {h1, h2}

Symmetry == Permutations(Handlers)
=============================================================================
