----------------------------- MODULE Socks5Quic -----------------------------
(***************************************************************************)
(* QUIC through a SOCKS5 proxy (socks5_udp.go).  The dialer of             *)
(* newSOCKS5QUICDialer opens a UDP socket, negotiates a UDP association on *)
(* a TCP control connection, resolves the target, dials QUIC over the      *)
(* wrapped socket, and ties socket, control connection and QUIC transport  *)
(* to the life of the QUIC connection.                                     *)
(*                                                                         *)
(* The module follows one dial after another; dials share nothing but a    *)
(* pool of scratch buffers.                                                *)
(***************************************************************************)
EXTENDS Naturals, Sequences, FiniteSets

CONSTANTS
  Credentials,    \* what the proxy URL holds: subset of {"none", "fit", "long"}
  ProxyFamily,    \* 4 or 6, the family of the proxy's own address
  Datagrams,      \* datagrams that reach the local socket
  Payloads,       \* sizes of the packets QUIC sends
  MaxArrivals,    \* bound on the datagrams that arrive in one dial
  None

maxSocks5UDPPacketSize == 65535
maxSocks5UDPHeaderSize == 22

ASSUME SocksAssumption ==
  /\ Credentials \subseteq {"none", "fit", "long"}
  /\ ProxyFamily \in {4, 6}
  /\ Payloads \subseteq Nat
  /\ MaxArrivals \in Nat
  /\ None \notin Nat
  /\ \A g \in Datagrams :   \* who sent it, and what its header says
       /\ g.src \in {"relay", "relay-other-port", "stranger"}
       /\ g.frag \in 0 .. 255 /\ g.atyp \in 0 .. 255
       /\ g.len \in Nat /\ g.len <= maxSocks5UDPPacketSize

\* What a lookup returns: the families of one or two addresses.
Lookups == {<<f>> : f \in {4, 6}} \cup {<<f, g>> : f, g \in {4, 6}}

VARIABLES
  pc,         \* where the dial is
  auth,       \* the credentials of the proxy URL
  udpConn,    \* whether the local UDP socket is open
  control,    \* whether the control connection is open
  deadline,   \* whether the control connection has a deadline
  reader,     \* whether the QUIC transport's read goroutine runs
  relay,      \* family of the relay's address
  lookup,     \* what resolving the target returned
  target,     \* family of the address dialled
  arrived,    \* datagrams that reached the socket, oldest first
  read,       \* how many of them have been read
  delivered,  \* payloads ReadFrom has returned to QUIC
  sent        \* the last packet given to WriteTo and what became of it

addrVars == <<relay, lookup, target>>
packetVars == <<arrived, read, delivered, sent>>
resourceVars == <<udpConn, control, deadline, reader>>
vars == <<pc, auth, addrVars, packetVars, resourceVars>>

Negotiating == {"greeting", "auth", "reply"}
Dialled == {"quic", "open", "ended"}
States ==
  {"idle", "connect", "resolve", "release"} \cup Negotiating \cup Dialled

Init ==
  /\ pc = "idle"
  /\ auth \in Credentials
  /\ udpConn = FALSE /\ control = FALSE /\ deadline = FALSE /\ reader = FALSE
  /\ relay = None /\ lookup = << >> /\ target = None
  /\ arrived = << >> /\ read = 0 /\ delivered = << >> /\ sent = None

\* What is open is closed, and the dial, or the connection, is over.
ReleaseAll ==
  /\ pc' = "idle"
  /\ udpConn' = FALSE /\ control' = FALSE /\ deadline' = FALSE
  /\ reader' = FALSE

-----------------------------------------------------------------------------
(* socks5UDPAssociate and its two handshakes *)

\* The dialer parses the URL and opens the local socket.
ListenUDP(a) ==
  /\ pc = "idle"
  /\ pc' = "connect"
  /\ auth' = a
  /\ udpConn' = TRUE
  /\ relay' = None /\ lookup' = << >> /\ target' = None
  /\ arrived' = << >> /\ read' = 0 /\ delivered' = << >> /\ sent' = None
  /\ UNCHANGED <<control, deadline, reader>>

\* Faulty variant: the negotiation has no deadline.
ConnectControl_NoDeadline ==
  /\ pc = "connect"
  /\ control' = TRUE
  /\ pc' = "greeting"
  /\ UNCHANGED <<auth, addrVars, packetVars, udpConn, deadline, reader>>

\* The control connection is made and given a deadline; the methods are sent.
ConnectControl ==
  /\ pc = "connect"
  /\ control' = TRUE /\ deadline' = TRUE
  /\ pc' = "greeting"
  /\ UNCHANGED <<auth, addrVars, packetVars, udpConn, reader>>

\* Faulty variant: the local socket stays open.
AssociateFails_LeavesSocket ==
  /\ pc \in {"connect"} \cup Negotiating
  /\ pc' = "idle"
  /\ control' = FALSE /\ deadline' = FALSE
  /\ UNCHANGED <<auth, addrVars, packetVars, udpConn, reader>>

\* The proxy cannot be reached, hangs up or refuses: the deferred Close ends
\* the control connection and the dialer closes the local socket.
AssociateFails ==
  /\ pc \in {"connect"} \cup Negotiating
  /\ ReleaseAll
  /\ UNCHANGED <<auth, addrVars, packetVars>>

\* The deadline of the negotiation passes.
NegotiationTimesOut ==
  /\ pc \in Negotiating
  /\ deadline
  /\ AssociateFails

\* The proxy selects a method; credentials that do not fit in a length byte are
\* not sent.
SelectMethod(m) ==
  /\ pc = "greeting"
  /\ \/ /\ m = "no-auth"
        /\ pc' = "reply"
        /\ UNCHANGED <<auth, addrVars, packetVars, resourceVars>>
     \/ /\ m = "password" /\ auth = "fit"
        /\ pc' = "auth"
        /\ UNCHANGED <<auth, addrVars, packetVars, resourceVars>>
     \/ /\ m = "password" /\ auth # "fit"
        /\ AssociateFails

AcceptCredentials ==
  /\ pc = "auth"
  /\ pc' = "reply"
  /\ UNCHANGED <<auth, addrVars, packetVars, resourceVars>>

\* The proxy announces its relay; for an unspecified BND.ADDR, family 0, the
\* proxy's own address is taken.  The deadline is dropped.
Reply(bnd) ==
  /\ pc = "reply"
  /\ relay' = IF bnd = 0 THEN ProxyFamily ELSE bnd
  /\ deadline' = FALSE
  /\ pc' = "resolve"
  /\ UNCHANGED <<auth, lookup, target, packetVars, udpConn, control, reader>>

-----------------------------------------------------------------------------
(* newSOCKS5QUICDialer after the association *)

\* Faulty variant: the resolver's first choice.
pickIPAddr_First(ips, prefer) == ips[1]

\* The first address of the family of prefer, or else the first one.
pickIPAddr(ips, prefer) ==
  IF \E i \in 1 .. Len(ips) : ips[i] = prefer THEN prefer ELSE ips[1]

ResolveFails ==
  /\ pc = "resolve"
  /\ ReleaseAll
  /\ UNCHANGED <<auth, addrVars, packetVars>>

\* The target is resolved; DialEarly starts the transport's read goroutine.
DialEarly(ips) ==
  /\ pc = "resolve"
  /\ lookup' = ips
  /\ target' = pickIPAddr(ips, relay)
  /\ reader' = TRUE
  /\ pc' = "quic"
  /\ UNCHANGED <<auth, relay, packetVars, udpConn, control, deadline>>

QuicDialFails ==
  /\ pc = "quic"
  /\ ReleaseAll
  /\ UNCHANGED <<auth, addrVars, packetVars>>

\* The connection is returned, and a goroutine waits for its end.
QuicConnected ==
  /\ pc = "quic"
  /\ pc' = "open"
  /\ UNCHANGED <<auth, addrVars, packetVars, resourceVars>>

\* The connection is closed, by either side or for being idle.
ConnectionEnds ==
  /\ pc = "open"
  /\ pc' = "ended"
  /\ UNCHANGED <<auth, addrVars, packetVars, resourceVars>>

\* The goroutine closes the transport, which does not own its Conn, and then
\* the Conn: local socket and control connection.
CloseTransport ==
  /\ pc = "ended"
  /\ reader' = FALSE
  /\ pc' = "release"
  /\ UNCHANGED <<auth, addrVars, packetVars, udpConn, control, deadline>>

ClosePacketConn ==
  /\ pc = "release"
  /\ ReleaseAll
  /\ UNCHANGED <<auth, addrVars, packetVars>>

-----------------------------------------------------------------------------
(* socks5PacketConn *)

\* A datagram reaches the local socket, which anybody can send to.
Arrive(g) ==
  /\ udpConn
  /\ Len(arrived) < MaxArrivals
  /\ arrived' = Append(arrived, g)
  /\ UNCHANGED <<pc, auth, addrVars, read, delivered, sent, resourceVars>>

\* decodeSocks5UDPHeader: the offset of the payload, None for an error.
decodeSocks5UDPHeader(g) ==
  LET offset == IF g.atyp = 1 THEN 4 + 4 + 2 ELSE 4 + 16 + 2
  IN IF \/ g.len < 4
        \/ g.frag # 0
        \/ g.atyp \notin {1, 4}
        \/ g.len < offset
       THEN None
       ELSE offset

\* Faulty variant: the sender is not checked.
ReadFrom_Anybody ==
  LET g == arrived[read + 1]
      offset == decodeSocks5UDPHeader(g)
  IN /\ reader
     /\ read < Len(arrived)
     /\ read' = read + 1
     /\ delivered' = IF offset = None THEN delivered
                     ELSE Append(delivered, g.len - offset)
     /\ UNCHANGED <<pc, auth, addrVars, arrived, sent, resourceVars>>

\* One turn of ReadFrom's loop: a stray datagram is dropped, the payload of any
\* other one is returned.
ReadFrom ==
  LET g == arrived[read + 1]
      offset == decodeSocks5UDPHeader(g)
  IN /\ reader
     /\ read < Len(arrived)
     /\ read' = read + 1
     /\ delivered' = IF g.src = "stranger" \/ offset = None THEN delivered
                     ELSE Append(delivered, g.len - offset)
     /\ UNCHANGED <<pc, auth, addrVars, arrived, sent, resourceVars>>

\* encodeSocks5UDPHeader: the length of the header for the target.
encodeSocks5UDPHeader(family) == IF family = 4 THEN 4 + 4 + 2 ELSE 4 + 16 + 2

fits(n) == n <= maxSocks5UDPPacketSize - maxSocks5UDPHeaderSize

\* The payload is copied behind the header into a buffer of the maximal size.
WriteTo(n) ==
  LET room == maxSocks5UDPPacketSize - encodeSocks5UDPHeader(target)
      copied == IF n <= room THEN n ELSE room
  IN /\ pc \in {"quic", "open"}
     /\ sent' = [given |-> n, accepted |-> IF fits(n) THEN copied ELSE None]
     /\ UNCHANGED <<pc, auth, addrVars, arrived, read, delivered, resourceVars>>

-----------------------------------------------------------------------------

Proxy ==
  \/ \E m \in {"no-auth", "password"} : SelectMethod(m)
  \/ AcceptCredentials
  \/ \E bnd \in {4, 6, 0} : Reply(bnd)

Goroutines ==
  \/ ConnectControl
  \/ NegotiationTimesOut
  \/ ResolveFails
  \/ \E ips \in Lookups : DialEarly(ips)
  \/ QuicDialFails
  \/ QuicConnected
  \/ CloseTransport
  \/ ClosePacketConn

Next ==
  \/ \E a \in Credentials : ListenUDP(a)
  \/ Proxy
  \/ AssociateFails
  \/ Goroutines
  \/ ConnectionEnds
  \/ \E g \in Datagrams : Arrive(g)
  \/ ReadFrom
  \/ \E n \in Payloads : WriteTo(n)

\* The connect, the lookup and the QUIC dial end by the context's deadline and
\* the negotiation by its own; the proxy may stay silent.
Spec == Init /\ [][Next]_vars /\ WF_vars(Goroutines)

-----------------------------------------------------------------------------
(* Properties *)

\* Types of the dialer's state.
TypeOK ==
  /\ pc \in States
  /\ auth \in Credentials
  /\ udpConn \in BOOLEAN /\ control \in BOOLEAN
  /\ deadline \in BOOLEAN /\ reader \in BOOLEAN
  /\ relay \in {4, 6, None} /\ target \in {4, 6, None}
  /\ lookup \in Lookups \cup {<< >>}
  /\ arrived \in Seq(Datagrams) /\ read \in 0 .. Len(arrived)
  /\ delivered \in Seq(Nat)
  /\ sent \in {None} \cup [given : Payloads, accepted : Payloads \cup {None}]

\* The association lives exactly as long as its connection.  Whichever step
\* fails, the socket, the control connection and the reader are gone after it
\* ("Without this, every HTTP/3 connection through the proxy would leak ...");
\* and while the connection lives the control connection is open, nothing is
\* about to close it, and the reader has survived every datagram a stranger or
\* the proxy has sent.
AssociationLasts ==
  /\ pc = "idle" => ~(udpConn \/ control \/ deadline \/ reader)
  /\ pc \in {"quic", "open"} => udpConn /\ control /\ ~deadline /\ reader

\* Datagrams that QUIC should see.
WellFormed(g) ==
  /\ g.src # "stranger" /\ g.frag = 0
  /\ \/ g.atyp = 1 /\ g.len >= 10
     \/ g.atyp = 4 /\ g.len >= 22

\* Those among the first n that have arrived, by their position.
Heard(n) == {i \in 1 .. n : WellFormed(arrived[i])}

\* QUIC sees the relay's well-formed datagrams, without their headers, in the
\* order they came, and nothing else: the n-th of them that has been read is the
\* n-th packet delivered.  And a packet that WriteTo accepts goes out whole.
PacketsAreCarried ==
  /\ Len(delivered) = Cardinality(Heard(read))
  /\ \A i \in Heard(read) :
       delivered[Cardinality(Heard(i))] =
         arrived[i].len - (IF arrived[i].atyp = 1 THEN 10 ELSE 22)
  /\ sent # None => sent.accepted \in {None, sent.given}

\* The address dialled is of the relay's family if the lookup found one: "The
\* relay of a SOCKS5 proxy that only speaks IPv4 cannot forward to an IPv6
\* target".
FamilyMatches ==
  target # None /\ target # relay =>
    \A i \in 1 .. Len(lookup) : lookup[i] # relay

\* A dial ends, however silent the proxy: "without a deadline a silent proxy
\* would block the QUIC dial forever".
DialEnds == pc = "connect" ~> pc \in {"idle", "open"}

=============================================================================
