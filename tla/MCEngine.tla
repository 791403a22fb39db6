------------------------------ MODULE MCEngine ------------------------------
(* Two threads that share the engines. *)
EXTENDS Engine, TLC

Symmetry == Permutations(Thread) \cup Permutations(Handle) \cup Permutations(Str)
==============================================================================
