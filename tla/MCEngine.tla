------------------------------ MODULE MCEngine ------------------------------
(* Instances of Engine for TLC. *)
EXTENDS Engine

CONSTANTS A, B, k1, k2, e1, e2, e3, i1, i2, i3

At(c, k, e) == [client |-> c, key |-> k, ep |-> e]

\* A client that moves and comes back with a new key, and another client that was
\* given a copy of its first key.
MCMoving == {At(A, k1, e1), At(A, k1, e2), At(A, k2, e2), At(B, k1, e3)}

\* One answer is too long: A's first endpoint and B's are written with more digits.
MCShort == {r \in SUBSET MCMoving : ~({At(A, k1, e1), At(B, k1, e3)} \subseteq r)}
=============================================================================
