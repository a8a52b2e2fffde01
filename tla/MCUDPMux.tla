------------------------------ MODULE MCUDPMux ------------------------------
(* Instances of UDPMux for TLC.  No symmetry: liveness is checked too. *)
EXTENDS UDPMux
CONSTANTS u1, u2, a1, a2, c1, c2, w1, h1
=============================================================================
