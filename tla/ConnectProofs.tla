---------------------------- MODULE ConnectProofs ----------------------------
(***************************************************************************)
(* Proofs about ConnectDialer, for any number of dials and connections.    *)
(*                                                                         *)
(* Closing a tunnel over HTTP/2 leaves its connection open, so somebody    *)
(* else has to know it.  That is the cache, or it has been forgotten       *)
(* there: the invariant follows a connection from the dial that made it    *)
(* into the cache, out of it, and through the tunnels that borrow it.      *)
(***************************************************************************)
EXTENDS ConnectDialer, TLAPS

\* The cache holds HTTP/2 connections only, and every dial speaks the protocol
\* that was negotiated on its connection.
SpeaksItsProtocol ==
  /\ cached # None => proto[cached] = "h2"
  /\ \A d \in Dials :
       /\ pc[d] \in {"reuse", "http2", "store"} => proto[raw[d]] = "h2"
       /\ pc[d] = "http1" => proto[raw[d]] # "h2"

\* Only HTTP/2 connections have several users.
SharedIsHttp2 ==
  \A d, e \in Dials :
    d # e /\ raw[d] = raw[e] /\ raw[d] # None => proto[raw[d]] = "h2"

\* A borrowed connection, and one under a tunnel over HTTP/2, is the cached one
\* or was.
BorrowedIsKnown ==
  \A d \in Dials :
    pc[d] \in {"reuse", "tunnel"} /\ proto[raw[d]] = "h2" =>
      raw[d] = cached \/ raw[d] \in replaced

IInv ==
  /\ TypeOK
  /\ SpeaksItsProtocol
  /\ SharedIsHttp2
  /\ BorrowedIsKnown
  /\ NothingLeftOpen

-----------------------------------------------------------------------------

\* The dialer starts with nothing cached and nothing open.
LEMMA InitInv == Init => IInv
<1> SUFFICES ASSUME Init PROVE IInv
  OBVIOUS
<1>1. (CHOOSE p \in Protocols : TRUE) \in Protocols
  BY ConnectAssumption
<1>2. TypeOK
  BY <1>1, ConnectAssumption DEF Init, TypeOK, States
<1>3. SpeaksItsProtocol /\ SharedIsHttp2 /\ BorrowedIsKnown
  BY DEF Init, SpeaksItsProtocol, SharedIsHttp2, BorrowedIsKnown
<1>4. NothingLeftOpen
  BY DEF Init, NothingLeftOpen
<1> QED
  BY <1>2, <1>3, <1>4 DEF IInv

\* Every step keeps the types.
LEMMA StepType ==
  TypeOK /\ [Next]_vars =>
    TypeOK'
<1> SUFFICES ASSUME TypeOK, [Next]_vars
             PROVE  TypeOK'
  OBVIOUS
<1> USE ConnectAssumption
    DEF TypeOK, States,
        Goto, Fail, ReturnTunnel, CloseRaw, connVars
<1>1. ASSUME NEW d \in Dials, DialContext(d)
      PROVE  TypeOK'
  BY <1>1 DEF DialContext
<1>2. ASSUME NEW d \in Dials, TakeCached(d)
      PROVE  TypeOK'
  BY <1>2 DEF TakeCached
<1>3. ASSUME NEW d \in Dials, SkipCached(d)
      PROVE  TypeOK'
  BY <1>3 DEF SkipCached
<1>4. ASSUME NEW d \in Dials, DialFails(d)
      PROVE  TypeOK'
  BY <1>4 DEF DialFails
<1>5. ASSUME NEW d \in Dials, NEW c \in Conns, NEW p \in Protocols,
             DialProxy(d, c, p)
      PROVE  TypeOK'
  BY <1>5 DEF DialProxy, Free
<1>6. ASSUME NEW d \in Dials, Http1Accepts(d)
      PROVE  TypeOK'
  BY <1>6 DEF Http1Accepts
<1>7. ASSUME NEW d \in Dials, Http1Fails(d)
      PROVE  TypeOK'
  BY <1>7 DEF Http1Fails
<1>8. ASSUME NEW d \in Dials, Http1TimesOut(d)
      PROVE  TypeOK'
  BY <1>8 DEF Http1TimesOut
<1>9. ASSUME NEW d \in Dials, Http2Accepts(d)
      PROVE  TypeOK'
  BY <1>9 DEF Http2Accepts
<1>10. ASSUME NEW d \in Dials, Http2Fails(d)
       PROVE  TypeOK'
  BY <1>10 DEF Http2Fails
<1>11. ASSUME NEW d \in Dials, StoreConn(d)
       PROVE  TypeOK'
  BY <1>11 DEF StoreConn
<1>12. ASSUME NEW d \in Dials, CloseTunnel(d)
       PROVE  TypeOK'
  BY <1>12 DEF CloseTunnel
<1>13. ASSUME NEW c \in Conns, ProxyCloses(c)
       PROVE  TypeOK'
  BY <1>13 DEF ProxyCloses, dialVars
<1>14. CASE UNCHANGED vars
  BY <1>14 DEF vars, dialVars
<1> QED
  BY <1>1, <1>2, <1>3, <1>4, <1>5, <1>6, <1>7, <1>8, <1>9, <1>10, <1>11, <1>12,
     <1>13, <1>14 DEF Next, DialStep

\* A connection keeps its protocol while anybody refers to it, and nobody speaks
\* another one on it.
LEMMA StepProtocol ==
  TypeOK /\ SpeaksItsProtocol /\ [Next]_vars =>
    SpeaksItsProtocol'
<1> SUFFICES ASSUME TypeOK, SpeaksItsProtocol, [Next]_vars
             PROVE  SpeaksItsProtocol'
  OBVIOUS
<1> USE ConnectAssumption
    DEF TypeOK, SpeaksItsProtocol,
        Goto, Fail, ReturnTunnel, CloseRaw, connVars
<1>1. ASSUME NEW d \in Dials, DialContext(d)
      PROVE  SpeaksItsProtocol'
  BY <1>1 DEF DialContext
<1>2. ASSUME NEW d \in Dials, TakeCached(d)
      PROVE  SpeaksItsProtocol'
  BY <1>2 DEF TakeCached
<1>3. ASSUME NEW d \in Dials, SkipCached(d)
      PROVE  SpeaksItsProtocol'
  BY <1>3 DEF SkipCached
<1>4. ASSUME NEW d \in Dials, DialFails(d)
      PROVE  SpeaksItsProtocol'
  BY <1>4 DEF DialFails
<1>5. ASSUME NEW d \in Dials, NEW c \in Conns, NEW p \in Protocols,
             DialProxy(d, c, p)
      PROVE  SpeaksItsProtocol'
  BY <1>5 DEF DialProxy, Free
<1>6. ASSUME NEW d \in Dials, Http1Accepts(d)
      PROVE  SpeaksItsProtocol'
  BY <1>6 DEF Http1Accepts
<1>7. ASSUME NEW d \in Dials, Http1Fails(d)
      PROVE  SpeaksItsProtocol'
  BY <1>7 DEF Http1Fails
<1>8. ASSUME NEW d \in Dials, Http1TimesOut(d)
      PROVE  SpeaksItsProtocol'
  BY <1>8 DEF Http1TimesOut
<1>9. ASSUME NEW d \in Dials, Http2Accepts(d)
      PROVE  SpeaksItsProtocol'
  BY <1>9 DEF Http2Accepts
<1>10. ASSUME NEW d \in Dials, Http2Fails(d)
       PROVE  SpeaksItsProtocol'
  BY <1>10 DEF Http2Fails
<1>11. ASSUME NEW d \in Dials, StoreConn(d)
       PROVE  SpeaksItsProtocol'
  BY <1>11 DEF StoreConn
<1>12. ASSUME NEW d \in Dials, CloseTunnel(d)
       PROVE  SpeaksItsProtocol'
  BY <1>12 DEF CloseTunnel
<1>13. ASSUME NEW c \in Conns, ProxyCloses(c)
       PROVE  SpeaksItsProtocol'
  BY <1>13 DEF ProxyCloses, dialVars
<1>14. CASE UNCHANGED vars
  BY <1>14 DEF vars, dialVars
<1> QED
  BY <1>1, <1>2, <1>3, <1>4, <1>5, <1>6, <1>7, <1>8, <1>9, <1>10, <1>11, <1>12,
     <1>13, <1>14 DEF Next, DialStep

\* A dial gets a connection nobody has, or the cached one.
LEMMA StepShared ==
  TypeOK /\ SpeaksItsProtocol /\ SharedIsHttp2 /\ [Next]_vars =>
    SharedIsHttp2'
<1> SUFFICES ASSUME TypeOK, SpeaksItsProtocol, SharedIsHttp2, [Next]_vars
             PROVE  SharedIsHttp2'
  OBVIOUS
<1> USE ConnectAssumption
    DEF TypeOK, SpeaksItsProtocol, SharedIsHttp2,
        Goto, Fail, ReturnTunnel, CloseRaw, connVars
<1>1. ASSUME NEW d \in Dials, DialContext(d)
      PROVE  SharedIsHttp2'
  BY <1>1 DEF DialContext
<1>2. ASSUME NEW d \in Dials, TakeCached(d)
      PROVE  SharedIsHttp2'
  BY <1>2 DEF TakeCached
<1>3. ASSUME NEW d \in Dials, SkipCached(d)
      PROVE  SharedIsHttp2'
  BY <1>3 DEF SkipCached
<1>4. ASSUME NEW d \in Dials, DialFails(d)
      PROVE  SharedIsHttp2'
  BY <1>4 DEF DialFails
<1>5. ASSUME NEW d \in Dials, NEW c \in Conns, NEW p \in Protocols,
             DialProxy(d, c, p)
      PROVE  SharedIsHttp2'
  BY <1>5 DEF DialProxy, Free
<1>6. ASSUME NEW d \in Dials, Http1Accepts(d)
      PROVE  SharedIsHttp2'
  BY <1>6 DEF Http1Accepts
<1>7. ASSUME NEW d \in Dials, Http1Fails(d)
      PROVE  SharedIsHttp2'
  BY <1>7 DEF Http1Fails
<1>8. ASSUME NEW d \in Dials, Http1TimesOut(d)
      PROVE  SharedIsHttp2'
  BY <1>8 DEF Http1TimesOut
<1>9. ASSUME NEW d \in Dials, Http2Accepts(d)
      PROVE  SharedIsHttp2'
  BY <1>9 DEF Http2Accepts
<1>10. ASSUME NEW d \in Dials, Http2Fails(d)
       PROVE  SharedIsHttp2'
  BY <1>10 DEF Http2Fails
<1>11. ASSUME NEW d \in Dials, StoreConn(d)
       PROVE  SharedIsHttp2'
  BY <1>11 DEF StoreConn
<1>12. ASSUME NEW d \in Dials, CloseTunnel(d)
       PROVE  SharedIsHttp2'
  BY <1>12 DEF CloseTunnel
<1>13. ASSUME NEW c \in Conns, ProxyCloses(c)
       PROVE  SharedIsHttp2'
  BY <1>13 DEF ProxyCloses, dialVars
<1>14. CASE UNCHANGED vars
  BY <1>14 DEF vars, dialVars
<1> QED
  BY <1>1, <1>2, <1>3, <1>4, <1>5, <1>6, <1>7, <1>8, <1>9, <1>10, <1>11, <1>12,
     <1>13, <1>14 DEF Next, DialStep

\* What leaves the cache is replaced, and HTTP/2 tunnels begin in the cache.
LEMMA StepBorrowed ==
  TypeOK /\ SpeaksItsProtocol /\ BorrowedIsKnown /\ [Next]_vars =>
    BorrowedIsKnown'
<1> SUFFICES ASSUME TypeOK, SpeaksItsProtocol, BorrowedIsKnown, [Next]_vars
             PROVE  BorrowedIsKnown'
  OBVIOUS
<1> USE ConnectAssumption
    DEF TypeOK, SpeaksItsProtocol, BorrowedIsKnown,
        Goto, Fail, ReturnTunnel, CloseRaw, connVars
<1>1. ASSUME NEW d \in Dials, DialContext(d)
      PROVE  BorrowedIsKnown'
  BY <1>1 DEF DialContext
<1>2. ASSUME NEW d \in Dials, TakeCached(d)
      PROVE  BorrowedIsKnown'
  BY <1>2 DEF TakeCached
<1>3. ASSUME NEW d \in Dials, SkipCached(d)
      PROVE  BorrowedIsKnown'
  BY <1>3 DEF SkipCached
<1>4. ASSUME NEW d \in Dials, DialFails(d)
      PROVE  BorrowedIsKnown'
  BY <1>4 DEF DialFails
<1>5. ASSUME NEW d \in Dials, NEW c \in Conns, NEW p \in Protocols,
             DialProxy(d, c, p)
      PROVE  BorrowedIsKnown'
  BY <1>5 DEF DialProxy, Free
<1>6. ASSUME NEW d \in Dials, Http1Accepts(d)
      PROVE  BorrowedIsKnown'
  BY <1>6 DEF Http1Accepts
<1>7. ASSUME NEW d \in Dials, Http1Fails(d)
      PROVE  BorrowedIsKnown'
  BY <1>7 DEF Http1Fails
<1>8. ASSUME NEW d \in Dials, Http1TimesOut(d)
      PROVE  BorrowedIsKnown'
  BY <1>8 DEF Http1TimesOut
<1>9. ASSUME NEW d \in Dials, Http2Accepts(d)
      PROVE  BorrowedIsKnown'
  BY <1>9 DEF Http2Accepts
<1>10. ASSUME NEW d \in Dials, Http2Fails(d)
       PROVE  BorrowedIsKnown'
  BY <1>10 DEF Http2Fails
<1>11. ASSUME NEW d \in Dials, StoreConn(d)
       PROVE  BorrowedIsKnown'
  BY <1>11 DEF StoreConn
<1>12. ASSUME NEW d \in Dials, CloseTunnel(d)
       PROVE  BorrowedIsKnown'
  BY <1>12 DEF CloseTunnel
<1>13. ASSUME NEW c \in Conns, ProxyCloses(c)
       PROVE  BorrowedIsKnown'
  BY <1>13 DEF ProxyCloses, dialVars
<1>14. CASE UNCHANGED vars
  BY <1>14 DEF vars, dialVars
<1> QED
  BY <1>1, <1>2, <1>3, <1>4, <1>5, <1>6, <1>7, <1>8, <1>9, <1>10, <1>11, <1>12,
     <1>13, <1>14 DEF Next, DialStep

\* Whoever lets go of a connection closes it or leaves it to the cache.
LEMMA StepOpen ==
  TypeOK /\ BorrowedIsKnown /\ NothingLeftOpen /\ [Next]_vars =>
    NothingLeftOpen'
<1> SUFFICES ASSUME TypeOK, BorrowedIsKnown, NothingLeftOpen, [Next]_vars
             PROVE  NothingLeftOpen'
  OBVIOUS
<1> USE ConnectAssumption
    DEF TypeOK, BorrowedIsKnown, NothingLeftOpen,
        Goto, Fail, ReturnTunnel, CloseRaw, connVars
<1>1. ASSUME NEW d \in Dials, DialContext(d)
      PROVE  NothingLeftOpen'
  BY <1>1 DEF DialContext
<1>2. ASSUME NEW d \in Dials, TakeCached(d)
      PROVE  NothingLeftOpen'
  BY <1>2 DEF TakeCached
<1>3. ASSUME NEW d \in Dials, SkipCached(d)
      PROVE  NothingLeftOpen'
  BY <1>3 DEF SkipCached
<1>4. ASSUME NEW d \in Dials, DialFails(d)
      PROVE  NothingLeftOpen'
  BY <1>4 DEF DialFails
<1>5. ASSUME NEW d \in Dials, NEW c \in Conns, NEW p \in Protocols,
             DialProxy(d, c, p)
      PROVE  NothingLeftOpen'
  BY <1>5 DEF DialProxy, Free
<1>6. ASSUME NEW d \in Dials, Http1Accepts(d)
      PROVE  NothingLeftOpen'
  BY <1>6 DEF Http1Accepts
<1>7. ASSUME NEW d \in Dials, Http1Fails(d)
      PROVE  NothingLeftOpen'
  BY <1>7 DEF Http1Fails
<1>8. ASSUME NEW d \in Dials, Http1TimesOut(d)
      PROVE  NothingLeftOpen'
  BY <1>8 DEF Http1TimesOut
<1>9. ASSUME NEW d \in Dials, Http2Accepts(d)
      PROVE  NothingLeftOpen'
  BY <1>9 DEF Http2Accepts
<1>10. ASSUME NEW d \in Dials, Http2Fails(d)
       PROVE  NothingLeftOpen'
  BY <1>10 DEF Http2Fails
<1>11. ASSUME NEW d \in Dials, StoreConn(d)
       PROVE  NothingLeftOpen'
  BY <1>11 DEF StoreConn
<1>12. ASSUME NEW d \in Dials, CloseTunnel(d)
       PROVE  NothingLeftOpen'
  BY <1>12 DEF CloseTunnel
<1>13. ASSUME NEW c \in Conns, ProxyCloses(c)
       PROVE  NothingLeftOpen'
  BY <1>13 DEF ProxyCloses, dialVars
<1>14. CASE UNCHANGED vars
  BY <1>14 DEF vars, dialVars
<1> QED
  BY <1>1, <1>2, <1>3, <1>4, <1>5, <1>6, <1>7, <1>8, <1>9, <1>10, <1>11, <1>12,
     <1>13, <1>14 DEF Next, DialStep

\* Every step keeps the invariant.
LEMMA StepInv == IInv /\ [Next]_vars => IInv'
BY StepType, StepProtocol, StepShared, StepBorrowed, StepOpen DEF IInv

-----------------------------------------------------------------------------

\* The invariant of the dialer.
THEOREM Invariance == Spec => []IInv
BY InitInv, StepInv, PTL DEF Spec

\* The dialer's state keeps its types, and a dial has a connection exactly while
\* it uses one.
THEOREM TypeCorrect == Spec => []TypeOK
<1>1. IInv => TypeOK
  BY DEF IInv
<1> QED
  BY Invariance, <1>1, PTL

\* No failing path of DialContext leaves its connection open, whoever else uses
\* the cached connection, breaks it or replaces it meanwhile.
THEOREM NothingIsLeftOpen == Spec => []NothingLeftOpen
<1>1. IInv => NothingLeftOpen
  BY DEF IInv
<1> QED
  BY Invariance, <1>1, PTL

\* A dial d that closes the connection of e's tunnel shares it over HTTP/2.
Alone ==
  \A d, e \in Dials :
    d # e /\ DialStep(d) /\ pc[e] = "tunnel" /\ raw[e] \in open
      /\ raw[e] \notin open' => proto[raw[e]] = "h2"

\* A dial takes the connection away from another tunnel only over HTTP/2: it
\* closes no connection but its own, and HTTP/1 connections are not shared.
THEOREM Http1TunnelsStayAlone == Spec => Http1TunnelsAreAlone
<1>1. ASSUME IInv, NEW d \in Dials, DialStep(d)
      PROVE  open \ {raw[d]} \subseteq open'
  BY <1>1 DEF DialStep, TakeCached, SkipCached, DialFails, DialProxy,
              Http1Accepts, Http1Fails, Http1TimesOut, Http2Accepts, Http2Fails,
              StoreConn, CloseRaw, connVars
<1>2. IInv => Alone
  <2> SUFFICES ASSUME IInv, NEW d \in Dials, NEW e \in Dials, d # e,
                      DialStep(d), raw[e] \in open, raw[e] \notin open'
               PROVE  proto[raw[e]] = "h2"
    BY DEF Alone
  <2>1. raw[e] = raw[d]
    BY <1>1
  <2> QED
    BY <2>1, ConnectAssumption DEF IInv, TypeOK, SharedIsHttp2
<1>3. IInv /\ [Next]_vars => [Alone]_vars
  BY <1>2
<1> QED
  BY Invariance, <1>3, PTL DEF Spec, Http1TunnelsAreAlone, Alone

=============================================================================
