------------------------------- MODULE MCPcap -------------------------------
(* Pcap for model checking. *)
EXTENDS Pcap, TLC
=============================================================================
