------------------------------ MODULE MCRacer ------------------------------
(* Instances of Racer for TLC. *)
EXTENDS Racer, TLC

\* Legs' goroutines, identities of transports and callers are interchangeable.
Symmetry == Permutations(Requests) \cup Permutations(TransportIds)
              \cup Permutations(Calls)

=============================================================================
