---------------------------- MODULE MCRunStream ----------------------------
(* Finite instances of RunStream for TLC. *)
EXTENDS RunStream, TLC

StreamSymmetry == Permutations(Streams)
=============================================================================
