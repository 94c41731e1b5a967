--------------------------- MODULE MCRunExecutor ---------------------------
(* Finite instances of RunExecutor for TLC. *)
EXTENDS RunExecutor, TLC

NoMishaps == [m \in Mishaps |-> 0]
OneEach == [m \in Mishaps |-> 1]
\* No store call fails: the other mishaps already reach every waiting state.
NoFault == [OneEach EXCEPT !["fault"] = 0]
OneCancel == [NoMishaps EXCEPT !["cancel"] = 1]

RunSymmetry == Permutations(Calls) \cup Permutations(Runs)
=============================================================================
