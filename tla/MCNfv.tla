-------------------------------- MODULE MCNfv -------------------------------
(* Nfv for model checking. *)
EXTENDS Nfv, TLC
CONSTANTS phy0, ring0, vhost0
MCPhy == <<phy0>>
=============================================================================
