--------------------------- MODULE TransportCache ---------------------------
(***************************************************************************)
(* What the transport cache of tls-client promises its callers, with no    *)
(* locks, dials or handshakes in it.                                       *)
(*                                                                         *)
(* An address holds at most one transport.  A transport enters the cache   *)
(* once, at an address that has none, and leaves it once, removed by a     *)
(* caller that holds that very transport; it is never replaced in place    *)
(* and never comes back.  A caller keeps the transport it looked up for as *)
(* long as its request is in flight, cached or not.                        *)
(***************************************************************************)
CONSTANTS
  Addrs,       \* cache keys, "host:port"
  Callers,     \* requests that use the cache concurrently
  Transports,  \* identities a transport can have
  None         \* no transport, not one of Transports

VARIABLES
  entry,  \* entry[a]: the transport cached for address a
  held    \* held[r]: the transport request r is using

vars == <<entry, held>>

\* A transport nobody refers to any more is garbage, its identity may return.
Unreferenced(t) ==
  /\ \A a \in Addrs : entry[a] # t
  /\ \A r \in Callers : held[r] # t

Init ==
  /\ entry = [a \in Addrs |-> None]
  /\ held = [r \in Callers |-> None]

\* A transport is built for an address that has none, by the request needing it.
Install(r, a, t) ==
  /\ held[r] = None
  /\ entry[a] = None
  /\ Unreferenced(t)
  /\ entry' = [entry EXCEPT ![a] = t]
  /\ held' = [held EXCEPT ![r] = t]

\* A request finds a transport cached.
Lookup(r, a) ==
  /\ held[r] = None
  /\ entry[a] # None
  /\ held' = [held EXCEPT ![r] = entry[a]]
  /\ UNCHANGED entry

\* Only a holder of a transport removes it, and only while it is the one cached.
Evict(r, a) ==
  /\ held[r] # None
  /\ entry[a] = held[r]
  /\ entry' = [entry EXCEPT ![a] = None]
  /\ UNCHANGED held

\* The request is over.
Release(r) ==
  /\ held[r] # None
  /\ held' = [held EXCEPT ![r] = None]
  /\ UNCHANGED entry

Next ==
  \E r \in Callers :
    \/ \E a \in Addrs :
         \/ \E t \in Transports : Install(r, a, t)
         \/ Lookup(r, a)
         \/ Evict(r, a)
    \/ Release(r)

Spec == Init /\ [][Next]_vars

=============================================================================
