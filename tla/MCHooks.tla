------------------------------ MODULE MCHooks ------------------------------
(* Instances of Hooks for TLC. *)
EXTENDS Hooks, TLC

\* Callers and hooks are interchangeable.
Symmetry == Permutations(Calls) \cup Permutations(HookFuncs)

=============================================================================
