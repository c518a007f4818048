----------------------------- MODULE MCVfWorker -----------------------------
(* VfWorker for model checking: a master, two slaves, two component names   *)
(* and one port.                                                            *)
EXTENDS VfWorker, TLC

CONSTANTS comp1, comp2, port1

MCSlaves == {1, 2}
MCNames == {comp1, comp2}
Symm == Permutations({comp1, comp2})
=============================================================================
