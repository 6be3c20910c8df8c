--------------------------- MODULE MCGeneration ---------------------------
(* Generation with two requests whose assets match each other.             *)
EXTENDS Generation, TLC

AllAlike == [j \in Job |-> Job]
EachItsOwn == [j \in Job |-> {j}]

Interchangeable == Permutations(Job) \cup Permutations(Pid)
=============================================================================
