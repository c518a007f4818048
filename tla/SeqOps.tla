------------------------------- MODULE SeqOps -------------------------------
(***************************************************************************)
(* The few operators on sequences that the modules with proofs need.       *)
(* SequencesExt has them too, but it also brings Bags, TLC and a hundred   *)
(* definitions into every proof obligation of a module that extends it.    *)
(***************************************************************************)
EXTENDS Integers, Sequences, FiniteSets, Functions

(* e is an element of s. *)
Contains(s, e) == \E i \in 1 .. Len(s) : s[i] = e

(* s without its i-th element. *)
RemoveAt(s, i) == SubSeq(s, 1, i - 1) \o SubSeq(s, i + 1, Len(s))

(* The elements of the finite set S in some order, each once. *)
SetToSeq(S) == CHOOSE s \in [1 .. Cardinality(S) -> S] : IsInjective(s)

(* The sequences of ss one after the other. *)
FlattenSeq(ss) ==
  LET upTo[n \in 1 .. Len(ss)] == IF n = 1 THEN ss[n] ELSE upTo[n - 1] \o ss[n]
  IN  IF ss = <<>> THEN <<>> ELSE upTo[Len(ss)]
=============================================================================
