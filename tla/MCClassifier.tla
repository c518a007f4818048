---------------------------- MODULE MCClassifier ----------------------------
(* Classifier for model checking: two ports, the addresses that the tables  *)
(* tell apart, and two packets for a buffer of two.                         *)
EXTENDS Classifier, TLC

CONSTANTS port1, port2, pkt1, pkt2

MCMacs == {"default", "bcast"}
MCAttrs == {[vid |-> 10, mac |-> m] : m \in MCMacs}
             \union {[vid |-> 4095, mac |-> "default"]}
MCMulticast == {"bcast"}
Symm == Permutations({pkt1, pkt2}) \union Permutations({port1, port2})
=============================================================================
