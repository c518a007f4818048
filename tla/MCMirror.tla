------------------------------ MODULE MCMirror ------------------------------
(* Mirror for model checking. *)
EXTENDS Mirror, TLC
CONSTANTS port1, port2, port3, pkt1, pkt2, pkt3
=============================================================================
