------------------------------- MODULE MCHooks -------------------------------
(* TLC instance of Hooks.  Threads and implementations are interchangeable. *)
EXTENDS Hooks, TLC

Symmetry == Permutations(Thread) \cup Permutations(Impl)
=============================================================================
