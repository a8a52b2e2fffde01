-------------------------- MODULE MCSharedSocket ---------------------------
(* The instance of SharedSocket for TLC.  No symmetry: it checks liveness too. *)
EXTENDS SharedSocket

CONSTANTS w1, w2

\* Up to two packets of each family.
Come(v4a, v4b, v6a, v6b) == [f \in Families |-> IF f = "v4" THEN <<v4a, v4b>> ELSE <<v6a, v6b>>]

\* A packet after one that is dropped, and a packet of each family.
MCTraffic == {Come("nolayers", "stun", "none", "none"), Come("long", "none", "cut", "none")}
=============================================================================
