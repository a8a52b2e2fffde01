---------------------------- MODULE MCXorMapped ----------------------------
(* The instance of XorMapped for TLC.  No symmetry: it checks liveness too. *)
EXTENDS XorMapped
CONSTANTS c1, c2, r1, s1, s2, m1, o1, o2, o3
=============================================================================
