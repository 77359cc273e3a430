--------------------------- MODULE MCRoundTripper ---------------------------
(* Instances of RoundTripper for TLC. *)
EXTENDS RoundTripper, TLC

\* Requests and the identities of transports are interchangeable.
Symmetry == Permutations(Requests) \cup Permutations(TransportIds)

=============================================================================
