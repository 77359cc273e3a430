---------------------------- MODULE Socks5Proofs ----------------------------
(***************************************************************************)
(* Proofs about Socks5Quic, for any datagrams, any number of them and any  *)
(* sequence of dials.                                                      *)
(*                                                                         *)
(* What is held follows from where the dial is, and what QUIC has got from *)
(* how far the socket has been read: the n-th well-formed datagram is the  *)
(* n-th packet.  The second needs some facts about counting.               *)
(***************************************************************************)
EXTENDS Socks5Quic, FiniteSetTheorems, TLAPS

\* What is open at each point of a dial.
Held ==
  /\ udpConn <=> pc # "idle"
  /\ control <=> pc \notin {"idle", "connect"}
  /\ deadline <=> pc \in Negotiating
  /\ reader <=> pc \in Dialled

\* Nothing has been chosen before the lookup.
NotYetResolved ==
  pc \in {"connect", "resolve"} \cup Negotiating => target = None

IInv ==
  /\ TypeOK
  /\ Held
  /\ NotYetResolved
  /\ FamilyMatches
  /\ PacketsAreCarried

-----------------------------------------------------------------------------
(* Counting datagrams *)

\* A prefix has finitely many well-formed datagrams, and its last one is the
\* only one that the prefix before it lacks.
LEMMA HeardCount ==
  ASSUME NEW n \in Nat
  PROVE  /\ IsFiniteSet(Heard(n)) /\ Cardinality(Heard(n)) \in Nat
         /\ WellFormed(arrived[n + 1]) =>
              Cardinality(Heard(n + 1)) = Cardinality(Heard(n)) + 1
         /\ ~WellFormed(arrived[n + 1]) => Heard(n + 1) = Heard(n)
<1>1. IsFiniteSet(1 .. n)
  BY FS_Interval
<1>2. Heard(n) \subseteq 1 .. n
  BY DEF Heard
<1>3. IsFiniteSet(Heard(n)) /\ Cardinality(Heard(n)) \in Nat
  BY <1>1, <1>2, FS_Subset, FS_CardinalityType
<1>4. n + 1 \notin Heard(n)
  BY <1>2
<1>5. ASSUME WellFormed(arrived[n + 1])
      PROVE  Cardinality(Heard(n + 1)) = Cardinality(Heard(n)) + 1
  <2>1. Heard(n + 1) = Heard(n) \cup {n + 1}
    BY <1>5 DEF Heard
  <2> QED
    BY <1>3, <1>4, <2>1, FS_AddElement
<1>6. ~WellFormed(arrived[n + 1]) => Heard(n + 1) = Heard(n)
  BY DEF Heard
<1> QED
  BY <1>3, <1>5, <1>6

\* The rank of a datagram among those of a prefix is a position in a sequence
\* with one element for each of them.
LEMMA HeardRank ==
  ASSUME NEW n \in Nat, NEW i \in Heard(n)
  PROVE  Cardinality(Heard(i)) \in 1 .. Cardinality(Heard(n))
<1>1. i \in Nat /\ Heard(i) \subseteq Heard(n) /\ i \in Heard(i)
  BY DEF Heard
<1>2. IsFiniteSet(Heard(n)) /\ Cardinality(Heard(n)) \in Nat
  BY HeardCount
<1>3. /\ Cardinality(Heard(i)) \in Nat
      /\ Cardinality(Heard(i)) <= Cardinality(Heard(n))
  BY <1>1, <1>2, FS_Subset, FS_CardinalityType
<1>4. Cardinality(Heard(i)) # 0
  BY <1>1, <1>2, FS_Subset, FS_EmptySet
<1> QED
  BY <1>2, <1>3, <1>4

\* The header that decodeSocks5UDPHeader finds on a well-formed datagram of the
\* relay; any other one is an error or comes from a stranger.
LEMMA DecodeHeader ==
  ASSUME NEW g \in Datagrams
  PROVE  /\ WellFormed(g) =>
              /\ g.src # "stranger" /\ decodeSocks5UDPHeader(g) # None
              /\ decodeSocks5UDPHeader(g) = IF g.atyp = 1 THEN 10 ELSE 22
              /\ g.len - decodeSocks5UDPHeader(g) \in Nat
         /\ ~WellFormed(g) =>
              g.src = "stranger" \/ decodeSocks5UDPHeader(g) = None
<1>1. g.len \in Nat /\ None # 10 /\ None # 22
  BY SocksAssumption
<1>2. CASE g.atyp = 1
  BY <1>1, <1>2 DEF WellFormed, decodeSocks5UDPHeader
<1>3. CASE g.atyp = 4
  BY <1>1, <1>3 DEF WellFormed, decodeSocks5UDPHeader
<1>4. CASE g.atyp \notin {1, 4}
  BY <1>4 DEF WellFormed, decodeSocks5UDPHeader
<1> QED
  BY <1>2, <1>3, <1>4

\* pickIPAddr returns one of the addresses, and one of the preferred family if
\* there is any.
LEMMA PickIPAddr ==
  ASSUME NEW ips \in Lookups, NEW prefer
  PROVE  /\ pickIPAddr(ips, prefer) \in {4, 6}
         /\ pickIPAddr(ips, prefer) # prefer =>
              \A i \in 1 .. Len(ips) : ips[i] # prefer
BY DEF Lookups, pickIPAddr

-----------------------------------------------------------------------------
(* The invariant *)

\* The dialer starts with nothing open.
LEMMA InitInv == Init => IInv
<1> SUFFICES ASSUME Init PROVE IInv
  OBVIOUS
<1>1. TypeOK
  <2>1. pc \in States /\ lookup \in Lookups \cup {<< >>}
    BY DEF Init, States
  <2>2. arrived \in Seq(Datagrams) /\ delivered \in Seq(Nat)
    BY DEF Init
  <2>3. read \in 0 .. Len(arrived)
    BY DEF Init
  <2> QED
    BY <2>1, <2>2, <2>3 DEF Init, TypeOK
<1>2. Heard(0) = {}
  BY DEF Heard
<1>3. PacketsAreCarried
  BY <1>2, FS_EmptySet DEF Init, PacketsAreCarried
<1>4. Held /\ NotYetResolved /\ FamilyMatches
  BY DEF Init, Held, NotYetResolved, FamilyMatches, Negotiating, Dialled
<1> QED
  BY <1>1, <1>3, <1>4 DEF IInv

\* The method that the proxy selects is the next step or the end of the dial.
LEMMA MethodSelected ==
  ASSUME NEW m \in {"no-auth", "password"}, SelectMethod(m)
  PROVE  \/ /\ pc = "greeting" /\ pc' \in {"auth", "reply"}
            /\ UNCHANGED <<auth, addrVars, packetVars, resourceVars>>
         \/ AssociateFails
BY DEF SelectMethod

\* WriteTo takes a packet whole or not at all: what fits under the limit also
\* fits behind the longer header.
LEMMA WrittenWhole ==
  ASSUME NEW n \in Payloads, WriteTo(n)
  PROVE  \E a \in {None, n} : sent' = [given |-> n, accepted |-> a]
<1> DEFINE room == maxSocks5UDPPacketSize - encodeSocks5UDPHeader(target)
<1>1. n \in Nat
  BY SocksAssumption
<1>2. fits(n) => n <= room
  BY <1>1 DEF fits, maxSocks5UDPPacketSize, maxSocks5UDPHeaderSize,
              encodeSocks5UDPHeader
<1> HIDE DEF room
<1>3. sent' = [given |-> n,
               accepted |-> IF fits(n) THEN IF n <= room THEN n ELSE room
                                       ELSE None]
  BY DEF WriteTo, room
<1> QED
  BY <1>2, <1>3

\* Every step keeps the types.
LEMMA StepType ==
  TypeOK /\ [Next]_vars => TypeOK'
<1> SUFFICES ASSUME TypeOK, [Next]_vars
             PROVE  TypeOK'
  OBVIOUS
<1> USE SocksAssumption
    DEF TypeOK, States, Negotiating, Dialled, ReleaseAll,
        addrVars, packetVars, resourceVars
<1>1. ASSUME NEW a \in Credentials, ListenUDP(a)
      PROVE  TypeOK'
  BY <1>1 DEF ListenUDP
<1>2. ASSUME NEW m \in {"no-auth", "password"}, SelectMethod(m)
      PROVE  TypeOK'
  <2>1. CASE AssociateFails
    BY <2>1 DEF AssociateFails
  <2> QED
    BY <1>2, <2>1, MethodSelected
<1>3. CASE AcceptCredentials
  BY <1>3 DEF AcceptCredentials
<1>4. ASSUME NEW bnd \in {4, 6, 0}, Reply(bnd)
      PROVE  TypeOK'
  BY <1>4, ZenonT(60) DEF Reply
<1>5. CASE AssociateFails
  BY <1>5 DEF AssociateFails
<1>6. CASE ConnectControl
  BY <1>6 DEF ConnectControl
<1>7. CASE NegotiationTimesOut
  BY <1>7 DEF NegotiationTimesOut, AssociateFails
<1>8. CASE ResolveFails
  BY <1>8 DEF ResolveFails
<1>9. ASSUME NEW ips \in Lookups, DialEarly(ips)
      PROVE  TypeOK'
  BY <1>9, PickIPAddr DEF DialEarly
<1>10. CASE QuicDialFails
  BY <1>10 DEF QuicDialFails
<1>11. CASE QuicConnected
  BY <1>11 DEF QuicConnected
<1>12. CASE CloseTransport
  BY <1>12 DEF CloseTransport
<1>13. CASE ClosePacketConn
  BY <1>13 DEF ClosePacketConn
<1>14. CASE ConnectionEnds
  BY <1>14 DEF ConnectionEnds
<1>15. ASSUME NEW g \in Datagrams, Arrive(g)
       PROVE  TypeOK'
  BY <1>15 DEF Arrive
<1>16. CASE ReadFrom
  BY <1>16, DecodeHeader DEF ReadFrom
<1>17. ASSUME NEW n \in Payloads, WriteTo(n)
       PROVE  TypeOK'
  <2>1. sent' \in [given : Payloads, accepted : Payloads \cup {None}]
    BY <1>17, WrittenWhole
  <2> QED
    BY <1>17, <2>1 DEF WriteTo
<1>18. CASE UNCHANGED vars
  BY <1>18 DEF vars
<1> QED
  BY <1>1, <1>2, <1>3, <1>4, <1>5, <1>6, <1>7, <1>8, <1>9, <1>10, <1>11,
     <1>12, <1>13, <1>14, <1>15, <1>16, <1>17, <1>18
     DEF Next, Proxy, Goroutines

\* Every step opens and closes what its place in the dial asks for.
LEMMA StepHeld ==
  Held /\ [Next]_vars => Held'
<1> SUFFICES ASSUME Held, [Next]_vars
             PROVE  Held'
  OBVIOUS
<1> USE DEF Held, Negotiating, Dialled, ReleaseAll,
        addrVars, packetVars, resourceVars
<1>1. ASSUME NEW a \in Credentials, ListenUDP(a)
      PROVE  Held'
  BY <1>1 DEF ListenUDP
<1>2. ASSUME NEW m \in {"no-auth", "password"}, SelectMethod(m)
      PROVE  Held'
  <2>1. CASE AssociateFails
    BY <2>1 DEF AssociateFails
  <2> QED
    BY <1>2, <2>1, MethodSelected
<1>3. CASE AcceptCredentials
  BY <1>3 DEF AcceptCredentials
<1>4. ASSUME NEW bnd \in {4, 6, 0}, Reply(bnd)
      PROVE  Held'
  BY <1>4 DEF Reply
<1>5. CASE AssociateFails
  BY <1>5 DEF AssociateFails
<1>6. CASE ConnectControl
  BY <1>6 DEF ConnectControl
<1>7. CASE NegotiationTimesOut
  BY <1>7 DEF NegotiationTimesOut, AssociateFails
<1>8. CASE ResolveFails
  BY <1>8 DEF ResolveFails
<1>9. ASSUME NEW ips \in Lookups, DialEarly(ips)
      PROVE  Held'
  BY <1>9 DEF DialEarly
<1>10. CASE QuicDialFails
  BY <1>10 DEF QuicDialFails
<1>11. CASE QuicConnected
  BY <1>11 DEF QuicConnected
<1>12. CASE CloseTransport
  BY <1>12 DEF CloseTransport
<1>13. CASE ClosePacketConn
  BY <1>13 DEF ClosePacketConn
<1>14. CASE ConnectionEnds
  BY <1>14 DEF ConnectionEnds
<1>15. ASSUME NEW g \in Datagrams, Arrive(g)
       PROVE  Held'
  BY <1>15 DEF Arrive
<1>16. CASE ReadFrom
  BY <1>16 DEF ReadFrom
<1>17. ASSUME NEW n \in Payloads, WriteTo(n)
       PROVE  Held'
  BY <1>17 DEF WriteTo
<1>18. CASE UNCHANGED vars
  BY <1>18 DEF vars
<1> QED
  BY <1>1, <1>2, <1>3, <1>4, <1>5, <1>6, <1>7, <1>8, <1>9, <1>10, <1>11,
     <1>12, <1>13, <1>14, <1>15, <1>16, <1>17, <1>18
     DEF Next, Proxy, Goroutines

\* The relay is known before the target is chosen and stays the same after.
LEMMA StepFamily ==
  NotYetResolved /\ FamilyMatches /\ [Next]_vars =>
    (NotYetResolved /\ FamilyMatches)'
<1> SUFFICES ASSUME NotYetResolved, FamilyMatches, [Next]_vars
             PROVE  (NotYetResolved /\ FamilyMatches)'
  OBVIOUS
<1> USE DEF NotYetResolved, FamilyMatches, Negotiating, ReleaseAll,
        addrVars, packetVars, resourceVars
<1>1. ASSUME NEW a \in Credentials, ListenUDP(a)
      PROVE  (NotYetResolved /\ FamilyMatches)'
  BY <1>1 DEF ListenUDP
<1>2. ASSUME NEW m \in {"no-auth", "password"}, SelectMethod(m)
      PROVE  (NotYetResolved /\ FamilyMatches)'
  <2>1. CASE AssociateFails
    BY <2>1 DEF AssociateFails
  <2> QED
    BY <1>2, <2>1, MethodSelected
<1>3. CASE AcceptCredentials
  BY <1>3 DEF AcceptCredentials
<1>4. ASSUME NEW bnd \in {4, 6, 0}, Reply(bnd)
      PROVE  (NotYetResolved /\ FamilyMatches)'
  BY <1>4 DEF Reply
<1>5. CASE AssociateFails
  BY <1>5 DEF AssociateFails
<1>6. CASE ConnectControl
  BY <1>6 DEF ConnectControl
<1>7. CASE NegotiationTimesOut
  BY <1>7 DEF NegotiationTimesOut, AssociateFails
<1>8. CASE ResolveFails
  BY <1>8 DEF ResolveFails
<1>9. ASSUME NEW ips \in Lookups, DialEarly(ips)
      PROVE  (NotYetResolved /\ FamilyMatches)'
  BY <1>9, PickIPAddr DEF DialEarly
<1>10. CASE QuicDialFails
  BY <1>10 DEF QuicDialFails
<1>11. CASE QuicConnected
  BY <1>11 DEF QuicConnected
<1>12. CASE CloseTransport
  BY <1>12 DEF CloseTransport
<1>13. CASE ClosePacketConn
  BY <1>13 DEF ClosePacketConn
<1>14. CASE ConnectionEnds
  BY <1>14 DEF ConnectionEnds
<1>15. ASSUME NEW g \in Datagrams, Arrive(g)
       PROVE  (NotYetResolved /\ FamilyMatches)'
  BY <1>15 DEF Arrive
<1>16. CASE ReadFrom
  BY <1>16 DEF ReadFrom
<1>17. ASSUME NEW n \in Payloads, WriteTo(n)
       PROVE  (NotYetResolved /\ FamilyMatches)'
  BY <1>17 DEF WriteTo
<1>18. CASE UNCHANGED vars
  BY <1>18 DEF vars
<1> QED
  BY <1>1, <1>2, <1>3, <1>4, <1>5, <1>6, <1>7, <1>8, <1>9, <1>10, <1>11,
     <1>12, <1>13, <1>14, <1>15, <1>16, <1>17, <1>18
     DEF Next, Proxy, Goroutines

\* Every step keeps what QUIC has got in line with what has been read.
LEMMA StepPackets ==
  TypeOK /\ PacketsAreCarried /\ [Next]_vars => PacketsAreCarried'
<1> SUFFICES ASSUME TypeOK, PacketsAreCarried, [Next]_vars
             PROVE  PacketsAreCarried'
  OBVIOUS
<1> USE DEF addrVars, packetVars, resourceVars
<1>1. ASSUME NEW a \in Credentials, ListenUDP(a)
      PROVE  PacketsAreCarried'
  <2>1. Heard(0)' = {}
    BY DEF Heard
  <2> QED
    BY <1>1, <2>1, FS_EmptySet DEF ListenUDP, PacketsAreCarried
<1>2. ASSUME NEW g \in Datagrams, Arrive(g)
      PROVE  PacketsAreCarried'
  <2>1. \A n \in 0 .. read : Heard(n)' = Heard(n)
    BY <1>2 DEF Arrive, Heard, TypeOK, WellFormed
  <2>2. \A i \in Heard(read) : i \in 0 .. read /\ arrived'[i] = arrived[i]
    BY <1>2 DEF Arrive, Heard, TypeOK
  <2>3. read \in 0 .. read
    BY DEF TypeOK
  <2> QED
    BY <1>2, <2>1, <2>2, <2>3 DEF Arrive, PacketsAreCarried
<1>3. CASE ReadFrom
  <2> DEFINE g == arrived[read + 1]
             size(i) ==
               arrived[i].len - (IF arrived[i].atyp = 1 THEN 10 ELSE 22)
             rank(i) == Cardinality(Heard(i))
  <2>1. read \in Nat /\ read + 1 \in 1 .. Len(arrived) /\ g \in Datagrams
    BY <1>3 DEF ReadFrom, TypeOK
  <2>2. read' = read + 1 /\ \A n : Heard(n)' = Heard(n)
    BY <1>3 DEF ReadFrom, Heard, WellFormed
  <2>3. /\ rank(read) \in Nat /\ Len(delivered) = rank(read)
        /\ \A i \in Heard(read) : rank(i) \in 1 .. rank(read)
    BY <2>1, HeardCount, HeardRank DEF PacketsAreCarried
  <2>4. CASE WellFormed(g)
    <3>1. delivered' = Append(delivered, size(read + 1))
      BY <1>3, <2>1, <2>4, DecodeHeader DEF ReadFrom
    <3>2. size(read + 1) \in Nat
      BY <2>1, <2>4, DecodeHeader
    <3>3. rank(read + 1) = rank(read) + 1
      BY <2>1, <2>4, HeardCount
    <3>4. Heard(read + 1) = Heard(read) \cup {read + 1}
      BY <2>1, <2>4 DEF Heard
    <3>5. \A i \in Heard(read + 1) : delivered'[rank(i)] = size(i)
      BY <2>3, <3>1, <3>2, <3>3, <3>4 DEF PacketsAreCarried, TypeOK
    <3>6. Len(delivered') = rank(read + 1)
      BY <2>3, <3>1, <3>2, <3>3, SMTT(30) DEF TypeOK
    <3> QED
      BY <1>3, <2>2, <3>5, <3>6 DEF ReadFrom, PacketsAreCarried
  <2>5. CASE ~WellFormed(g)
    <3>1. delivered' = delivered
      BY <1>3, <2>1, <2>5, DecodeHeader DEF ReadFrom
    <3>2. Heard(read + 1) = Heard(read)
      BY <2>1, <2>5, HeardCount
    <3> QED
      BY <1>3, <2>2, <3>1, <3>2 DEF ReadFrom, PacketsAreCarried
  <2> QED
    BY <2>4, <2>5
<1>4. ASSUME NEW n \in Payloads, WriteTo(n)
      PROVE  PacketsAreCarried'
  <2>1. sent'.accepted \in {None, sent'.given}
    BY <1>4, WrittenWhole
  <2> QED
    BY <1>4, <2>1 DEF WriteTo, PacketsAreCarried, Heard, WellFormed
<1>5. CASE UNCHANGED packetVars
  BY <1>5 DEF PacketsAreCarried, Heard, WellFormed
<1> QED
  BY <1>1, <1>2, <1>3, <1>4, <1>5
     DEF Next, Proxy, Goroutines, SelectMethod, AcceptCredentials, Reply,
         AssociateFails, ConnectControl, NegotiationTimesOut, ResolveFails,
         DialEarly, QuicDialFails, QuicConnected, CloseTransport,
         ClosePacketConn, ConnectionEnds, vars

-----------------------------------------------------------------------------
(* The theorems *)

\* The inductive invariant holds in every reachable state.
THEOREM Invariance == Spec => []IInv
<1>1. IInv /\ [Next]_vars => IInv'
  BY StepType, StepHeld, StepFamily, StepPackets DEF IInv
<1> QED
  BY InitInv, <1>1, PTL DEF Spec

\* The dialer's state is of its type.
THEOREM TypeCorrect == Spec => []TypeOK
<1>1. IInv => TypeOK
  BY DEF IInv
<1> QED
  BY Invariance, <1>1, PTL

\* Whichever step of a dial fails nothing stays open, and while a connection
\* lives its socket, its control connection and its reader do.
THEOREM AssociationLastsAsLong == Spec => []AssociationLasts
<1>1. IInv => AssociationLasts
  BY DEF IInv, Held, AssociationLasts, Negotiating, Dialled
<1> QED
  BY Invariance, <1>1, PTL

\* Whatever arrives, from the relay or from strangers, QUIC gets the relay's
\* well-formed datagrams in their order, and WriteTo sends a packet whole or
\* refuses it.
THEOREM EveryPacketIsCarried == Spec => []PacketsAreCarried
<1>1. IInv => PacketsAreCarried
  BY DEF IInv
<1> QED
  BY Invariance, <1>1, PTL

\* The address dialled is of the relay's family if the lookup found one.
THEOREM TargetFamilyMatches == Spec => []FamilyMatches
<1>1. IInv => FamilyMatches
  BY DEF IInv
<1> QED
  BY Invariance, <1>1, PTL

=============================================================================
