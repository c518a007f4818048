---------------------------- MODULE MCForwarder -----------------------------
(* Two ports, one of them without an ethdev: every forwarder and merger     *)
(* configuration over them, in any order, against a worker that never stops.*)
EXTENDS Forwarder

MCPorts == {"phy0", "ring0"}
MCAttached == {"ring0"}
MCTagging == {"ring0"}
=============================================================================
