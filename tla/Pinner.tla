------------------------------- MODULE Pinner -------------------------------
(***************************************************************************)
(* Certificate pinning (pinner.go).  The pins of every client of the       *)
(* process go into one store, certificatePinStorage, a hpkp.MemStorage.    *)
(*                                                                         *)
(* A host name is the sequence of its labels; a pin is the key of a        *)
(* certificate.  The pins a client is given are a set of entries, one for  *)
(* each key of its map: "*.e" is [host |-> <<"e">>, sub |-> TRUE, ...].    *)
(***************************************************************************)
EXTENDS Naturals, Sequences

CONSTANTS
  PinHosts,  \* host names in the keys of the maps
  None

VARIABLE certificatePinStorage  \* the entry of a host name, or None

\* The parent of a host name is it without its first labels.
Parents(host) ==
  {SubSeq(host, i, Len(host)) : i \in 2 .. Len(host)}

\* MemStorage.Lookup: the entry of the host, or of the nearest parent that
\* includes its subdomains.
Lookup(host) ==
  LET Pinned(h) == h \in PinHosts /\ certificatePinStorage[h] # None
      covers == {p \in Parents(host) :
                   Pinned(p) /\ certificatePinStorage[p].sub}
  IN  IF Pinned(host) THEN certificatePinStorage[host]
      ELSE IF covers = {} THEN None
      ELSE certificatePinStorage[
             CHOOSE p \in covers : \A q \in covers : Len(q) <= Len(p)]

\* Faulty variant: "*." is cut off the key and forgotten.
RegisterPins_NoSubdomains(e) ==
  certificatePinStorage' =
    [certificatePinStorage EXCEPT ![e.host] = [pins |-> e.pins, sub |-> FALSE]]

\* One round of init: an entry is stored unless the pins found for its host are
\* the same list already.
RegisterPins(e) ==
  LET pinnedHost == Lookup(e.host)
  IN  certificatePinStorage' =
        IF pinnedHost # None /\ pinnedHost.pins = e.pins
        THEN certificatePinStorage
        ELSE [certificatePinStorage EXCEPT
                ![e.host] = [pins |-> e.pins, sub |-> e.sub]]

\* Pin: a client with pins of its own accepts a certificate with this key for
\* the host if the store has no pins for the host or has this one.
Pin(own, host, key) ==
  LET pinnedHost == Lookup(host)
  IN  own # {} /\ pinnedHost # None =>
        \E i \in DOMAIN pinnedHost.pins : pinnedHost.pins[i] = key

\* The pins a client itself was given for a host.
OwnPins(own, host) ==
  UNION {{e.pins[i] : i \in DOMAIN e.pins} :
           e \in {f \in own : \/ f.host = host
                              \/ f.sub /\ f.host \in Parents(host)}}

=============================================================================
