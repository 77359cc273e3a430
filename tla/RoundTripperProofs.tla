------------------------- MODULE RoundTripperProofs -------------------------
(***************************************************************************)
(* Proofs about RoundTripper, for any addresses, any number of concurrent  *)
(* requests and any server behaviour: the types, that getTransport never   *)
(* panics, and that the cache implements TransportCache; that all of it    *)
(* holds for a client that races, since Racer uses the round tripper; and  *)
(* that races are bounded and calls survive a protocol change.             *)
(***************************************************************************)
EXTENDS Racer, TLAPS

-----------------------------------------------------------------------------
(* The inductive invariant *)

SetupStates == {"setup", "setupHandshake"}

HoldingStates == {"send", "changed", "dropKind", "closeIdle"} \cup DialStates

\* Who holds the two mutexes is what the program counters say.
LocksMatch ==
  \A r \in Requests :
    /\ cachedTransportsLck = r <=> pc[r] \in SetupStates \cup {"panicked"}
    /\ rtLck = r <=> pc[r] \in {"setupHandshake", "handshake"}

\* A request refers to a transport exactly from lookup to return.
HoldsTransport ==
  \A r \in Requests : tr[r] # None <=> pc[r] \in HoldingStates

\* During a setup dial nothing is cached for its address.
SetupIsFirst ==
  \A r \in Requests :
    pc[r] \in SetupStates => cachedTransports[addr[r]] = None

\* A dial that found the stash empty, and the drop it may lead to, know that
\* the stash stays empty while their transport is the one cached: it is filled
\* only together with a new transport.
StashStaysEmpty ==
  \A r \in Requests :
    /\ pc[r] \in {"handshake", "changed"}
    /\ cachedTransports[addr[r]] = tr[r]
    => cachedConnections[addr[r]] = None

CacheInv == SetupIsFirst /\ StashFits /\ StashStaysEmpty /\ NoPanic

IInv == TypeOK /\ LocksMatch /\ HoldsTransport /\ CacheInv

-----------------------------------------------------------------------------
(* Facts about the operators *)

\* Both ways of mapping a protocol to a transport give one of the three kinds
\* and agree, so a setup dial and a later reconnect mean the same by "changed".
LEMMA KindsAgree ==
  ASSUME NEW p
  PROVE  kindForProtocol(p) \in Kinds /\ builtKind(p) = kindForProtocol(p)
BY DEF kindForProtocol, builtKind, Kinds

\* The initial state satisfies the inductive invariant.
LEMMA InitInv == Init => IInv
<1> SUFFICES ASSUME Init PROVE IInv
  OBVIOUS
<1> USE DEF Init
<1>1. TypeOK
  BY DEF TypeOK, States
<1>2. LocksMatch
  BY RoundTripperAssumption DEF LocksMatch, SetupStates
<1>3. HoldsTransport
  BY DEF HoldsTransport, HoldingStates, DialStates
<1>4. SetupIsFirst /\ StashFits /\ StashStaysEmpty /\ NoPanic
  BY DEF SetupIsFirst, SetupStates, StashFits, StashStaysEmpty, NoPanic
<1> QED
  BY <1>1, <1>2, <1>3, <1>4 DEF IInv, CacheInv

\* Every step keeps the types.
LEMMA TypeStep == TypeOK /\ HoldsTransport /\ [Next]_vars => TypeOK'
<1> SUFFICES ASSUME TypeOK /\ HoldsTransport, [Next]_vars PROVE TypeOK'
  OBVIOUS
<1> USE RoundTripperAssumption, KindsAgree
    DEF TypeOK, vars, cacheVars, lockVars, requestVars, States,
        DialStates
<1>1. ASSUME NEW r \in Requests, NEW a \in Addrs, NEW s \in Schemes,
             Start(r, a, s)
      PROVE  TypeOK'
  BY <1>1 DEF Start, Goto
<1>2. ASSUME NEW r \in Requests, RoundTripHit(r)
      PROVE  TypeOK'
  BY <1>2 DEF RoundTripHit, Goto
<1>3. ASSUME NEW r \in Requests, NEW t \in Transports, GetTransportHttp(r, t)
      PROVE  TypeOK'
  BY <1>3 DEF GetTransportHttp, Goto
<1>4. ASSUME NEW r \in Requests, GetTransportInvalid(r)
      PROVE  TypeOK'
  BY <1>4 DEF GetTransportInvalid, Return
<1>5. ASSUME NEW r \in Requests, GetTransportHttps(r)
      PROVE  TypeOK'
  BY <1>5 DEF GetTransportHttps, Goto
<1>6. ASSUME NEW r \in Requests, SetupLock(r)
      PROVE  TypeOK'
  BY <1>6 DEF SetupLock, Goto
<1>7. ASSUME NEW r \in Requests, SetupFails(r)
      PROVE  TypeOK'
  BY <1>7 DEF SetupFails, Return, ReleaseBoth
<1>8. ASSUME NEW r \in Requests, SetupBadPin(r)
      PROVE  TypeOK'
  BY <1>8 DEF SetupBadPin, Goto, ReleaseBoth
<1>9. ASSUME NEW r \in Requests, ReportBadPin(r)
      PROVE  TypeOK'
  BY <1>9 DEF ReportBadPin, Return
<1>10. ASSUME NEW r \in Requests, NEW t \in Transports, SetupBuilds(r, t)
      PROVE  TypeOK'
  BY <1>10 DEF SetupBuilds, Goto, ReleaseBoth
<1>11. ASSUME NEW r \in Requests, SendWithoutDialTLS(r)
      PROVE  TypeOK'
  BY <1>11 DEF SendWithoutDialTLS, Return
<1>12. ASSUME NEW r \in Requests, SendDials(r)
      PROVE  TypeOK'
  BY <1>12 DEF SendDials, Goto
<1>13. ASSUME NEW r \in Requests, StopWaiting(r)
      PROVE  TypeOK'
  BY <1>13 DEF StopWaiting
<1>14. ASSUME NEW r \in Requests, Exchange(r)
      PROVE  TypeOK'
  <2>1. tr[r] \in Transports
    BY <1>14 DEF Exchange, HoldsTransport, HoldingStates
  <2>2. CASE Return(r, idle)
    BY <1>14, <2>2 DEF Exchange, Return
  <2>3. CASE Return(r, idle \cup {tr[r]})
    BY <1>14, <2>1, <2>3 DEF Exchange, Return
  <2> QED
    BY <1>14, <2>2, <2>3 DEF Exchange
<1>15. ASSUME NEW r \in Requests, DialTakesStash(r)
      PROVE  TypeOK'
  BY <1>15 DEF DialTakesStash, Goto
<1>16. ASSUME NEW r \in Requests, DialLock(r)
      PROVE  TypeOK'
  BY <1>16 DEF DialLock, Goto
<1>17. ASSUME NEW r \in Requests, DialFails(r)
      PROVE  TypeOK'
  BY <1>17 DEF DialFails, Return
<1>18. ASSUME NEW r \in Requests, DialKeepsKind(r)
      PROVE  TypeOK'
  BY <1>18 DEF DialKeepsKind, Goto
<1>19. ASSUME NEW r \in Requests, DialProtocolChanged(r)
      PROVE  TypeOK'
  <2>1. CASE waiting[r]
    BY <1>19, <2>1 DEF DialProtocolChanged, Goto
  <2>2. CASE ~waiting[r]
    BY <1>19, <2>2, ZenonT(60) DEF DialProtocolChanged, Return
  <2> QED
    BY <2>1, <2>2
<1>20. ASSUME NEW r \in Requests, DropTransport(r)
      PROVE  TypeOK'
  BY <1>20 DEF DropTransport, Goto
<1>21. ASSUME NEW r \in Requests, DropKind(r)
      PROVE  TypeOK'
  BY <1>21 DEF DropKind, Goto
<1>22. ASSUME NEW r \in Requests, DropCloseIdle(r)
      PROVE  TypeOK'
  BY <1>22 DEF DropCloseIdle, Return
<1>23. ASSUME CloseIdleConnections
      PROVE  TypeOK'
  BY <1>23 DEF CloseIdleConnections
<1>24. ASSUME NEW t \in Transports, ConnectionsDie(t)
      PROVE  TypeOK'
  BY <1>24 DEF ConnectionsDie
<1>25. ASSUME NEW a \in Addrs, NEW p \in Protocols, ServerChanges(a, p)
      PROVE  TypeOK'
  BY <1>25 DEF ServerChanges
<1>26. CASE UNCHANGED vars
  BY <1>26
<1> QED
  BY <1>1, <1>2, <1>3, <1>4, <1>5, <1>6, <1>7, <1>8, <1>9, <1>10, <1>11, <1>12,
     <1>13, <1>14, <1>15, <1>16, <1>17, <1>18, <1>19, <1>20, <1>21, <1>22,
     <1>23, <1>24, <1>25, <1>26
  DEF Next, Request, Environment, LookUp, SetupEnds, Send, DialBegins,
      DialEnds, Drop

\* Every step keeps the mutexes in agreement with the program counters.
LEMMA LocksStep == TypeOK /\ LocksMatch /\ [Next]_vars => LocksMatch'
<1> SUFFICES ASSUME TypeOK /\ LocksMatch, [Next]_vars PROVE LocksMatch'
  OBVIOUS
<1> USE RoundTripperAssumption
    DEF TypeOK, LocksMatch, vars, cacheVars, lockVars, requestVars,
        SetupStates, DialStates
<1>1. ASSUME NEW r \in Requests, NEW a \in Addrs, NEW s \in Schemes,
             Start(r, a, s)
      PROVE  LocksMatch'
  BY <1>1 DEF Start, Goto
<1>2. ASSUME NEW r \in Requests, RoundTripHit(r)
      PROVE  LocksMatch'
  BY <1>2 DEF RoundTripHit, Goto
<1>3. ASSUME NEW r \in Requests, NEW t \in Transports, GetTransportHttp(r, t)
      PROVE  LocksMatch'
  BY <1>3 DEF GetTransportHttp, Goto
<1>4. ASSUME NEW r \in Requests, GetTransportInvalid(r)
      PROVE  LocksMatch'
  BY <1>4 DEF GetTransportInvalid, Return
<1>5. ASSUME NEW r \in Requests, GetTransportHttps(r)
      PROVE  LocksMatch'
  BY <1>5 DEF GetTransportHttps, Goto
<1>6. ASSUME NEW r \in Requests, SetupLock(r)
      PROVE  LocksMatch'
  BY <1>6 DEF SetupLock, Goto
<1>7. ASSUME NEW r \in Requests, SetupFails(r)
      PROVE  LocksMatch'
  BY <1>7 DEF SetupFails, Return, ReleaseBoth
<1>8. ASSUME NEW r \in Requests, SetupBadPin(r)
      PROVE  LocksMatch'
  BY <1>8 DEF SetupBadPin, Goto, ReleaseBoth
<1>9. ASSUME NEW r \in Requests, ReportBadPin(r)
      PROVE  LocksMatch'
  BY <1>9 DEF ReportBadPin, Return
<1>10. ASSUME NEW r \in Requests, NEW t \in Transports, SetupBuilds(r, t)
      PROVE  LocksMatch'
  BY <1>10 DEF SetupBuilds, Goto, ReleaseBoth
<1>11. ASSUME NEW r \in Requests, SendWithoutDialTLS(r)
      PROVE  LocksMatch'
  BY <1>11 DEF SendWithoutDialTLS, Return
<1>12. ASSUME NEW r \in Requests, SendDials(r)
      PROVE  LocksMatch'
  BY <1>12 DEF SendDials, Goto
<1>13. ASSUME NEW r \in Requests, StopWaiting(r)
      PROVE  LocksMatch'
  BY <1>13 DEF StopWaiting
<1>14. ASSUME NEW r \in Requests, Exchange(r)
      PROVE  LocksMatch'
  BY <1>14 DEF Exchange, Return
<1>15. ASSUME NEW r \in Requests, DialTakesStash(r)
      PROVE  LocksMatch'
  BY <1>15 DEF DialTakesStash, Goto
<1>16. ASSUME NEW r \in Requests, DialLock(r)
      PROVE  LocksMatch'
  BY <1>16 DEF DialLock, Goto
<1>17. ASSUME NEW r \in Requests, DialFails(r)
      PROVE  LocksMatch'
  BY <1>17 DEF DialFails, Return
<1>18. ASSUME NEW r \in Requests, DialKeepsKind(r)
      PROVE  LocksMatch'
  BY <1>18 DEF DialKeepsKind, Goto
<1>19. ASSUME NEW r \in Requests, DialProtocolChanged(r)
      PROVE  LocksMatch'
  BY <1>19 DEF DialProtocolChanged, Return, Goto
<1>20. ASSUME NEW r \in Requests, DropTransport(r)
      PROVE  LocksMatch'
  BY <1>20 DEF DropTransport, Goto
<1>21. ASSUME NEW r \in Requests, DropKind(r)
      PROVE  LocksMatch'
  BY <1>21 DEF DropKind, Goto
<1>22. ASSUME NEW r \in Requests, DropCloseIdle(r)
      PROVE  LocksMatch'
  BY <1>22 DEF DropCloseIdle, Return
<1>23. ASSUME CloseIdleConnections
      PROVE  LocksMatch'
  BY <1>23 DEF CloseIdleConnections
<1>24. ASSUME NEW t \in Transports, ConnectionsDie(t)
      PROVE  LocksMatch'
  BY <1>24 DEF ConnectionsDie
<1>25. ASSUME NEW a \in Addrs, NEW p \in Protocols, ServerChanges(a, p)
      PROVE  LocksMatch'
  BY <1>25 DEF ServerChanges
<1>26. CASE UNCHANGED vars
  BY <1>26
<1> QED
  BY <1>1, <1>2, <1>3, <1>4, <1>5, <1>6, <1>7, <1>8, <1>9, <1>10, <1>11, <1>12,
     <1>13, <1>14, <1>15, <1>16, <1>17, <1>18, <1>19, <1>20, <1>21, <1>22,
     <1>23, <1>24, <1>25, <1>26
  DEF Next, Request, Environment, LookUp, SetupEnds, Send, DialBegins,
      DialEnds, Drop

\* A request gets a transport with the lookup and gives it back on return.
LEMMA HoldsStep == TypeOK /\ HoldsTransport /\ [Next]_vars => HoldsTransport'
<1> SUFFICES ASSUME TypeOK /\ HoldsTransport, [Next]_vars PROVE HoldsTransport'
  OBVIOUS
<1> USE RoundTripperAssumption
    DEF TypeOK, HoldsTransport, HoldingStates, vars, cacheVars, lockVars,
        requestVars, DialStates
<1>1. ASSUME NEW r \in Requests, NEW a \in Addrs, NEW s \in Schemes,
             Start(r, a, s)
      PROVE  HoldsTransport'
  BY <1>1 DEF Start, Goto
<1>2. ASSUME NEW r \in Requests, RoundTripHit(r)
      PROVE  HoldsTransport'
  BY <1>2 DEF RoundTripHit, Goto
<1>3. ASSUME NEW r \in Requests, NEW t \in Transports, GetTransportHttp(r, t)
      PROVE  HoldsTransport'
  BY <1>3 DEF GetTransportHttp, Goto
<1>4. ASSUME NEW r \in Requests, GetTransportInvalid(r)
      PROVE  HoldsTransport'
  BY <1>4 DEF GetTransportInvalid, Return
<1>5. ASSUME NEW r \in Requests, GetTransportHttps(r)
      PROVE  HoldsTransport'
  BY <1>5 DEF GetTransportHttps, Goto
<1>6. ASSUME NEW r \in Requests, SetupLock(r)
      PROVE  HoldsTransport'
  BY <1>6 DEF SetupLock, Goto
<1>7. ASSUME NEW r \in Requests, SetupFails(r)
      PROVE  HoldsTransport'
  BY <1>7 DEF SetupFails, Return, ReleaseBoth
<1>8. ASSUME NEW r \in Requests, SetupBadPin(r)
      PROVE  HoldsTransport'
  BY <1>8 DEF SetupBadPin, Goto, ReleaseBoth
<1>9. ASSUME NEW r \in Requests, ReportBadPin(r)
      PROVE  HoldsTransport'
  BY <1>9 DEF ReportBadPin, Return
<1>10. ASSUME NEW r \in Requests, NEW t \in Transports, SetupBuilds(r, t)
      PROVE  HoldsTransport'
  BY <1>10 DEF SetupBuilds, Goto, ReleaseBoth
<1>11. ASSUME NEW r \in Requests, SendWithoutDialTLS(r)
      PROVE  HoldsTransport'
  BY <1>11 DEF SendWithoutDialTLS, Return
<1>12. ASSUME NEW r \in Requests, SendDials(r)
      PROVE  HoldsTransport'
  BY <1>12 DEF SendDials, Goto
<1>13. ASSUME NEW r \in Requests, StopWaiting(r)
      PROVE  HoldsTransport'
  BY <1>13 DEF StopWaiting
<1>14. ASSUME NEW r \in Requests, Exchange(r)
      PROVE  HoldsTransport'
  BY <1>14 DEF Exchange, Return
<1>15. ASSUME NEW r \in Requests, DialTakesStash(r)
      PROVE  HoldsTransport'
  BY <1>15 DEF DialTakesStash, Goto
<1>16. ASSUME NEW r \in Requests, DialLock(r)
      PROVE  HoldsTransport'
  BY <1>16 DEF DialLock, Goto
<1>17. ASSUME NEW r \in Requests, DialFails(r)
      PROVE  HoldsTransport'
  BY <1>17 DEF DialFails, Return
<1>18. ASSUME NEW r \in Requests, DialKeepsKind(r)
      PROVE  HoldsTransport'
  BY <1>18 DEF DialKeepsKind, Goto
<1>19. ASSUME NEW r \in Requests, DialProtocolChanged(r)
      PROVE  HoldsTransport'
  BY <1>19 DEF DialProtocolChanged, Return, Goto
<1>20. ASSUME NEW r \in Requests, DropTransport(r)
      PROVE  HoldsTransport'
  BY <1>20 DEF DropTransport, Goto
<1>21. ASSUME NEW r \in Requests, DropKind(r)
      PROVE  HoldsTransport'
  BY <1>21 DEF DropKind, Goto
<1>22. ASSUME NEW r \in Requests, DropCloseIdle(r)
      PROVE  HoldsTransport'
  BY <1>22 DEF DropCloseIdle, Return
<1>23. ASSUME CloseIdleConnections
      PROVE  HoldsTransport'
  BY <1>23 DEF CloseIdleConnections
<1>24. ASSUME NEW t \in Transports, ConnectionsDie(t)
      PROVE  HoldsTransport'
  BY <1>24 DEF ConnectionsDie
<1>25. ASSUME NEW a \in Addrs, NEW p \in Protocols, ServerChanges(a, p)
      PROVE  HoldsTransport'
  BY <1>25 DEF ServerChanges
<1>26. CASE UNCHANGED vars
  BY <1>26
<1> QED
  BY <1>1, <1>2, <1>3, <1>4, <1>5, <1>6, <1>7, <1>8, <1>9, <1>10, <1>11, <1>12,
     <1>13, <1>14, <1>15, <1>16, <1>17, <1>18, <1>19, <1>20, <1>21, <1>22,
     <1>23, <1>24, <1>25, <1>26
  DEF Next, Request, Environment, LookUp, SetupEnds, Send, DialBegins,
      DialEnds, Drop

\* Every step keeps the stash and the cache in agreement.
LEMMA CacheStep == IInv /\ [Next]_vars => CacheInv'
<1> SUFFICES ASSUME IInv, [Next]_vars PROVE CacheInv'
  OBVIOUS
<1> USE RoundTripperAssumption, KindsAgree
    DEF IInv, CacheInv, TypeOK, LocksMatch, HoldsTransport, HoldingStates,
        SetupIsFirst,
        StashFits, StashStaysEmpty, NoPanic, vars, cacheVars, lockVars,
        requestVars, SetupStates, DialStates
<1>1. ASSUME NEW r \in Requests, NEW a \in Addrs, NEW s \in Schemes,
             Start(r, a, s)
      PROVE  CacheInv'
  BY <1>1 DEF Start, Goto
<1>2. ASSUME NEW r \in Requests, RoundTripHit(r)
      PROVE  CacheInv'
  BY <1>2 DEF RoundTripHit, Goto
<1>3. ASSUME NEW r \in Requests, NEW t \in Transports, GetTransportHttp(r, t)
      PROVE  CacheInv'
  BY <1>3 DEF GetTransportHttp, Goto, Fresh
<1>4. ASSUME NEW r \in Requests, GetTransportInvalid(r)
      PROVE  CacheInv'
  BY <1>4 DEF GetTransportInvalid, Return
<1>5. ASSUME NEW r \in Requests, GetTransportHttps(r)
      PROVE  CacheInv'
  BY <1>5 DEF GetTransportHttps, Goto
<1>6. ASSUME NEW r \in Requests, SetupLock(r)
      PROVE  CacheInv'
  BY <1>6 DEF SetupLock, Goto
<1>7. ASSUME NEW r \in Requests, SetupFails(r)
      PROVE  CacheInv'
  BY <1>7 DEF SetupFails, Return, ReleaseBoth
<1>8. ASSUME NEW r \in Requests, SetupBadPin(r)
      PROVE  CacheInv'
  BY <1>8 DEF SetupBadPin, Goto, ReleaseBoth
<1>9. ASSUME NEW r \in Requests, ReportBadPin(r)
      PROVE  CacheInv'
  BY <1>9 DEF ReportBadPin, Return
<1>10. ASSUME NEW r \in Requests, NEW t \in Transports, SetupBuilds(r, t)
      PROVE  CacheInv'
  BY <1>10 DEF SetupBuilds, Goto, ReleaseBoth, Fresh
<1>11. ASSUME NEW r \in Requests, SendWithoutDialTLS(r)
      PROVE  CacheInv'
  BY <1>11 DEF SendWithoutDialTLS, Return
<1>12. ASSUME NEW r \in Requests, SendDials(r)
      PROVE  CacheInv'
  BY <1>12 DEF SendDials, Goto
<1>13. ASSUME NEW r \in Requests, StopWaiting(r)
      PROVE  CacheInv'
  BY <1>13 DEF StopWaiting
<1>14. ASSUME NEW r \in Requests, Exchange(r)
      PROVE  CacheInv'
  BY <1>14 DEF Exchange, Return
<1>15. ASSUME NEW r \in Requests, DialTakesStash(r)
      PROVE  CacheInv'
  BY <1>15 DEF DialTakesStash, Goto
<1>16. ASSUME NEW r \in Requests, DialLock(r)
      PROVE  CacheInv'
  BY <1>16 DEF DialLock, Goto
<1>17. ASSUME NEW r \in Requests, DialFails(r)
      PROVE  CacheInv'
  BY <1>17 DEF DialFails, Return
<1>18. ASSUME NEW r \in Requests, DialKeepsKind(r)
      PROVE  CacheInv'
  BY <1>18 DEF DialKeepsKind, Goto
<1>19. ASSUME NEW r \in Requests, DialProtocolChanged(r)
      PROVE  CacheInv'
  BY <1>19 DEF DialProtocolChanged, Return, Goto
<1>20. ASSUME NEW r \in Requests, DropTransport(r)
      PROVE  CacheInv'
  BY <1>20 DEF DropTransport, Goto
<1>21. ASSUME NEW r \in Requests, DropKind(r)
      PROVE  CacheInv'
  BY <1>21 DEF DropKind, Goto
<1>22. ASSUME NEW r \in Requests, DropCloseIdle(r)
      PROVE  CacheInv'
  BY <1>22 DEF DropCloseIdle, Return
<1>23. ASSUME CloseIdleConnections
      PROVE  CacheInv'
  BY <1>23 DEF CloseIdleConnections
<1>24. ASSUME NEW t \in Transports, ConnectionsDie(t)
      PROVE  CacheInv'
  BY <1>24 DEF ConnectionsDie
<1>25. ASSUME NEW a \in Addrs, NEW p \in Protocols, ServerChanges(a, p)
      PROVE  CacheInv'
  BY <1>25 DEF ServerChanges
<1>26. CASE UNCHANGED vars
  BY <1>26
<1> QED
  BY <1>1, <1>2, <1>3, <1>4, <1>5, <1>6, <1>7, <1>8, <1>9, <1>10, <1>11, <1>12,
     <1>13, <1>14, <1>15, <1>16, <1>17, <1>18, <1>19, <1>20, <1>21, <1>22,
     <1>23, <1>24, <1>25, <1>26
  DEF Next, Request, Environment, LookUp, SetupEnds, Send, DialBegins,
      DialEnds, Drop

\* The inductive invariant holds throughout.
THEOREM Invariance == Spec => []IInv
<1>1. IInv /\ [Next]_vars => IInv'
  BY TypeStep, LocksStep, HoldsStep, CacheStep DEF IInv
<1> QED
  BY InitInv, <1>1, PTL DEF Spec

-----------------------------------------------------------------------------
(* What follows from it *)

\* Type correctness.
THEOREM TypeCorrect == Spec => []TypeOK
<1>1. IInv => TypeOK
  BY DEF IInv
<1> QED
  BY Invariance, <1>1, PTL

\* getTransport never reaches its panic, for any number of requests, addresses
\* and protocol changes, whatever drops and reconnects interleave with it.
THEOREM GetTransportNeverPanics == Spec => []NoPanic
<1>1. IInv => NoPanic
  BY DEF IInv, CacheInv
<1> QED
  BY Invariance, <1>1, PTL

\* The stash never outlives its transport and never fits another one.
THEOREM StashAlwaysFits == Spec => []StashFits
<1>1. IInv => StashFits
  BY DEF IInv, CacheInv
<1> QED
  BY Invariance, <1>1, PTL

-----------------------------------------------------------------------------
(* Refinement of TransportCache *)

\* Every step of the round tripper is a step of the abstract cache, or leaves
\* what is cached and what is held as it was.
LEMMA RefinementStep == IInv /\ [Next]_vars => [TC!Next]_(TC!vars)
<1> SUFFICES ASSUME IInv, [Next]_vars PROVE [TC!Next]_(TC!vars)
  OBVIOUS
<1> USE RoundTripperAssumption
    DEF IInv, TypeOK, HoldsTransport, HoldingStates, DialStates, vars,
        cacheVars, lockVars, requestVars, TC!vars
<1>1. ASSUME NEW r \in Requests, NEW a \in Addrs, NEW s \in Schemes,
             Start(r, a, s)
      PROVE  [TC!Next]_(TC!vars)
  BY <1>1 DEF Start
<1>2. ASSUME NEW r \in Requests, RoundTripHit(r)
      PROVE  [TC!Next]_(TC!vars)
  <2>1. TC!Lookup(r, addr[r])
    BY <1>2 DEF RoundTripHit, TC!Lookup
  <2> QED
    BY <2>1 DEF TC!Next
<1>3. ASSUME NEW r \in Requests, NEW t \in Transports, GetTransportHttp(r, t)
      PROVE  [TC!Next]_(TC!vars)
  <2>1. TC!Install(r, addr[r], t)
    BY <1>3 DEF GetTransportHttp, Fresh, TC!Install, TC!Unreferenced, CacheInv,
       SetupIsFirst, SetupStates
  <2> QED
    BY <2>1 DEF TC!Next
<1>4. ASSUME NEW r \in Requests, GetTransportInvalid(r)
      PROVE  [TC!Next]_(TC!vars)
  BY <1>4 DEF GetTransportInvalid, Return
<1>5. ASSUME NEW r \in Requests, GetTransportHttps(r)
      PROVE  [TC!Next]_(TC!vars)
  BY <1>5 DEF GetTransportHttps
<1>6. ASSUME NEW r \in Requests, SetupLock(r)
      PROVE  [TC!Next]_(TC!vars)
  BY <1>6 DEF SetupLock
<1>7. ASSUME NEW r \in Requests, SetupFails(r)
      PROVE  [TC!Next]_(TC!vars)
  BY <1>7 DEF SetupFails, Return
<1>8. ASSUME NEW r \in Requests, SetupBadPin(r)
      PROVE  [TC!Next]_(TC!vars)
  BY <1>8 DEF SetupBadPin
<1>9. ASSUME NEW r \in Requests, ReportBadPin(r)
      PROVE  [TC!Next]_(TC!vars)
  BY <1>9 DEF ReportBadPin, Return
<1>10. ASSUME NEW r \in Requests, NEW t \in Transports, SetupBuilds(r, t)
      PROVE  [TC!Next]_(TC!vars)
  <2>1. TC!Install(r, addr[r], t)
    BY <1>10 DEF SetupBuilds, Fresh, TC!Install, TC!Unreferenced, CacheInv,
       SetupIsFirst, SetupStates
  <2> QED
    BY <2>1 DEF TC!Next
<1>11. ASSUME NEW r \in Requests, SendWithoutDialTLS(r)
      PROVE  [TC!Next]_(TC!vars)
  <2>1. TC!Release(r)
    BY <1>11 DEF SendWithoutDialTLS, Return, TC!Release
  <2> QED
    BY <2>1 DEF TC!Next
<1>12. ASSUME NEW r \in Requests, SendDials(r)
      PROVE  [TC!Next]_(TC!vars)
  BY <1>12 DEF SendDials
<1>13. ASSUME NEW r \in Requests, StopWaiting(r)
      PROVE  [TC!Next]_(TC!vars)
  BY <1>13 DEF StopWaiting
<1>14. ASSUME NEW r \in Requests, Exchange(r)
      PROVE  [TC!Next]_(TC!vars)
  <2>1. TC!Release(r)
    BY <1>14 DEF Exchange, Return, TC!Release
  <2> QED
    BY <2>1 DEF TC!Next
<1>15. ASSUME NEW r \in Requests, DialTakesStash(r)
      PROVE  [TC!Next]_(TC!vars)
  BY <1>15 DEF DialTakesStash
<1>16. ASSUME NEW r \in Requests, DialLock(r)
      PROVE  [TC!Next]_(TC!vars)
  BY <1>16 DEF DialLock
<1>17. ASSUME NEW r \in Requests, DialFails(r)
      PROVE  [TC!Next]_(TC!vars)
  <2>1. TC!Release(r)
    BY <1>17 DEF DialFails, Return, TC!Release
  <2> QED
    BY <2>1 DEF TC!Next
<1>18. ASSUME NEW r \in Requests, DialKeepsKind(r)
      PROVE  [TC!Next]_(TC!vars)
  BY <1>18 DEF DialKeepsKind
<1>19. ASSUME NEW r \in Requests, DialProtocolChanged(r)
      PROVE  [TC!Next]_(TC!vars)
  <2>1. CASE waiting[r]
    BY <1>19, <2>1 DEF DialProtocolChanged
  <2>2. CASE ~waiting[r]
    <3>1. TC!Release(r)
      BY <1>19, <2>2 DEF DialProtocolChanged, Return, TC!Release
    <3> QED
      BY <3>1 DEF TC!Next
  <2> QED
    BY <2>1, <2>2
<1>20. ASSUME NEW r \in Requests, DropTransport(r)
      PROVE  [TC!Next]_(TC!vars)
  <2>1. CASE cachedTransports[addr[r]] = tr[r]
    <3>1. TC!Evict(r, addr[r])
      BY <1>20, <2>1 DEF DropTransport, TC!Evict
    <3> QED
      BY <3>1 DEF TC!Next
  <2>2. CASE cachedTransports[addr[r]] # tr[r]
    BY <1>20, <2>2 DEF DropTransport
  <2> QED
    BY <2>1, <2>2
<1>21. ASSUME NEW r \in Requests, DropKind(r)
      PROVE  [TC!Next]_(TC!vars)
  BY <1>21 DEF DropKind
<1>22. ASSUME NEW r \in Requests, DropCloseIdle(r)
      PROVE  [TC!Next]_(TC!vars)
  <2>1. TC!Release(r)
    BY <1>22 DEF DropCloseIdle, Return, TC!Release
  <2> QED
    BY <2>1 DEF TC!Next
<1>23. ASSUME CloseIdleConnections
      PROVE  [TC!Next]_(TC!vars)
  BY <1>23 DEF CloseIdleConnections
<1>24. ASSUME NEW t \in Transports, ConnectionsDie(t)
      PROVE  [TC!Next]_(TC!vars)
  BY <1>24 DEF ConnectionsDie
<1>25. ASSUME NEW a \in Addrs, NEW p \in Protocols, ServerChanges(a, p)
      PROVE  [TC!Next]_(TC!vars)
  BY <1>25 DEF ServerChanges
<1>26. CASE UNCHANGED vars
  BY <1>26
<1> QED
  BY <1>1, <1>2, <1>3, <1>4, <1>5, <1>6, <1>7, <1>8, <1>9, <1>10, <1>11, <1>12,
     <1>13, <1>14, <1>15, <1>16, <1>17, <1>18, <1>19, <1>20, <1>21, <1>22,
     <1>23, <1>24, <1>25, <1>26
  DEF Next, Request, Environment, LookUp, SetupEnds, Send, DialBegins,
      DialEnds, Drop

\* The round tripper implements the abstract cache: no transport is cached
\* twice, replaced in place, or removed on behalf of another one.
THEOREM ImplementsTransportCache == Spec => CacheSpec
<1>1. Init => TC!Init
  BY DEF Init, TC!Init
<1> QED
  BY Invariance, <1>1, RefinementStep, PTL DEF Spec, CacheSpec, TC!Spec

-----------------------------------------------------------------------------
(* Reconnects of a cached transport *)

HttpsOnly == Schemes \subseteq {"https"}

\* A kind that is recorded next to a cached transport is that transport's.
KindIsRight ==
  \A a \in Addrs :
    cachedTransports[a] # None /\ cachedKinds[a] # None =>
      cachedKinds[a] = cachedTransports[a].kind

FitsInv == KindIsRight /\ CachedTransportFits

\* With https requests only, every step keeps recorded kinds right and gives
\* cached transports connections they can use.
LEMMA FitsStep == HttpsOnly /\ IInv /\ FitsInv /\ [Next]_vars => FitsInv'
<1> SUFFICES ASSUME HttpsOnly /\ IInv /\ FitsInv, [Next]_vars PROVE FitsInv'
  OBVIOUS
<1> USE RoundTripperAssumption, KindsAgree
    DEF HttpsOnly, FitsInv, KindIsRight, CachedTransportFits, Fits, IInv,
        TypeOK,
        HoldsTransport, HoldingStates, DialStates, vars, cacheVars, lockVars,
        requestVars
<1>1. ASSUME NEW r \in Requests, NEW a \in Addrs, NEW s \in Schemes,
             Start(r, a, s)
      PROVE  FitsInv'
  BY <1>1 DEF Start, Goto
<1>2. ASSUME NEW r \in Requests, RoundTripHit(r)
      PROVE  FitsInv'
  BY <1>2 DEF RoundTripHit, Goto
<1>3. ASSUME NEW r \in Requests, NEW t \in Transports, GetTransportHttp(r, t)
      PROVE  FitsInv'
  BY <1>3 DEF GetTransportHttp, Goto
<1>4. ASSUME NEW r \in Requests, GetTransportInvalid(r)
      PROVE  FitsInv'
  BY <1>4 DEF GetTransportInvalid, Return
<1>5. ASSUME NEW r \in Requests, GetTransportHttps(r)
      PROVE  FitsInv'
  BY <1>5 DEF GetTransportHttps, Goto
<1>6. ASSUME NEW r \in Requests, SetupLock(r)
      PROVE  FitsInv'
  BY <1>6 DEF SetupLock, Goto
<1>7. ASSUME NEW r \in Requests, SetupFails(r)
      PROVE  FitsInv'
  BY <1>7 DEF SetupFails, Return, ReleaseBoth
<1>8. ASSUME NEW r \in Requests, SetupBadPin(r)
      PROVE  FitsInv'
  BY <1>8 DEF SetupBadPin, Goto, ReleaseBoth
<1>9. ASSUME NEW r \in Requests, ReportBadPin(r)
      PROVE  FitsInv'
  BY <1>9 DEF ReportBadPin, Return
<1>10. ASSUME NEW r \in Requests, NEW t \in Transports, SetupBuilds(r, t)
      PROVE  FitsInv'
  BY <1>10 DEF SetupBuilds, Goto, ReleaseBoth, Fresh
<1>11. ASSUME NEW r \in Requests, SendWithoutDialTLS(r)
      PROVE  FitsInv'
  BY <1>11 DEF SendWithoutDialTLS, Return
<1>12. ASSUME NEW r \in Requests, SendDials(r)
      PROVE  FitsInv'
  BY <1>12 DEF SendDials, Goto
<1>13. ASSUME NEW r \in Requests, StopWaiting(r)
      PROVE  FitsInv'
  BY <1>13 DEF StopWaiting
<1>14. ASSUME NEW r \in Requests, Exchange(r)
      PROVE  FitsInv'
  BY <1>14 DEF Exchange, Return
<1>15. ASSUME NEW r \in Requests, DialTakesStash(r)
      PROVE  FitsInv'
  BY <1>15 DEF DialTakesStash, Goto, CacheInv, StashFits
<1>16. ASSUME NEW r \in Requests, DialLock(r)
      PROVE  FitsInv'
  BY <1>16 DEF DialLock, Goto
<1>17. ASSUME NEW r \in Requests, DialFails(r)
      PROVE  FitsInv'
  BY <1>17 DEF DialFails, Return
<1>18. ASSUME NEW r \in Requests, DialKeepsKind(r)
      PROVE  FitsInv'
  BY <1>18 DEF DialKeepsKind, Goto
<1>19. ASSUME NEW r \in Requests, DialProtocolChanged(r)
      PROVE  FitsInv'
  BY <1>19 DEF DialProtocolChanged, Return, Goto
<1>20. ASSUME NEW r \in Requests, DropTransport(r)
      PROVE  FitsInv'
  BY <1>20 DEF DropTransport, Goto
<1>21. ASSUME NEW r \in Requests, DropKind(r)
      PROVE  FitsInv'
  BY <1>21 DEF DropKind, Goto
<1>22. ASSUME NEW r \in Requests, DropCloseIdle(r)
      PROVE  FitsInv'
  BY <1>22 DEF DropCloseIdle, Return
<1>23. ASSUME CloseIdleConnections
      PROVE  FitsInv'
  BY <1>23 DEF CloseIdleConnections
<1>24. ASSUME NEW t \in Transports, ConnectionsDie(t)
      PROVE  FitsInv'
  BY <1>24 DEF ConnectionsDie
<1>25. ASSUME NEW a \in Addrs, NEW p \in Protocols, ServerChanges(a, p)
      PROVE  FitsInv'
  BY <1>25 DEF ServerChanges
<1>26. CASE UNCHANGED vars
  BY <1>26
<1> QED
  BY <1>1, <1>2, <1>3, <1>4, <1>5, <1>6, <1>7, <1>8, <1>9, <1>10, <1>11, <1>12,
     <1>13, <1>14, <1>15, <1>16, <1>17, <1>18, <1>19, <1>20, <1>21, <1>22,
     <1>23, <1>24, <1>25, <1>26
  DEF Next, Request, Environment, LookUp, SetupEnds, Send, DialBegins,
      DialEnds, Drop

\* With https requests only, recorded kinds stay right and connections fit.
LEMMA FittingInvariance == HttpsOnly => (Spec => []FitsInv)
<1> SUFFICES ASSUME HttpsOnly PROVE Spec => []FitsInv
  OBVIOUS
<1>1. Init => FitsInv
  BY RoundTripperAssumption DEF Init, FitsInv, KindIsRight, CachedTransportFits
<1>2. IInv /\ FitsInv /\ [Next]_vars => FitsInv'
  BY FitsStep
<1> QED
  BY Invariance, <1>1, <1>2, PTL DEF Spec

\* With https requests only, no transport that is still cached is handed a
\* connection of a protocol it does not speak, however often the server changes.
THEOREM ReconnectsFit == HttpsOnly => (Spec => []CachedTransportFits)
<1>1. FitsInv => CachedTransportFits
  BY DEF FitsInv
<1> QED
  BY <1>1, FittingInvariance, PTL

-----------------------------------------------------------------------------
(* Racing is a use of the round tripper: what is proved of the cache holds under
   racing. *)

\* Whatever a leg does is a step of a request of the round tripper.
LEMMA LegsAreRequests ==
  ASSUME NEW r \in Requests, LegStep(r)
  PROVE  Request(r)
<1>1. CASE LegFails(r)
  BY <1>1 DEF LegFails, LegFaults, Request, SetupEnds, Send, DialEnds
<1>2. CASE LegSucceeds(r)
  BY <1>2 DEF LegSucceeds, LegAnswers, Request, Send
<1>3. CASE LegSteps(r)
  BY <1>3 DEF LegSteps, LegContinues, LegDrops, Request, SetupEnds, Send,
     DialEnds
<1> QED
  BY <1>1, <1>2, <1>3 DEF LegStep

\* A step of the round tripper in which requests are made to https only.
HttpsNext ==
  \/ \E r \in Requests :
       \/ \E a \in Addrs : Start(r, a, "https")
       \/ Request(r)
  \/ Environment

\* A call takes no step of the round tripper but starting a leg.
LEMMA CallsOnlyStart ==
  ASSUME NEW c \in Calls, callAddr \in [Calls -> Addrs], RaceCall(c)
  PROVE  [HttpsNext]_vars
<1>1. ASSUME NEW r \in Requests, StartLeg(c, r)
      PROVE  HttpsNext
  BY <1>1 DEF StartLeg, HttpsNext
<1>2. CASE \E r \in Requests : UseCachedHttp2(c, r) \/ StartRace(c, r)
  BY <1>1, <1>2 DEF UseCachedHttp2, StartRace
<1>3. CASE NoCachedProtocol(c) \/ UseCachedHttp3(c) \/ CreateHttp3Fails(c)
             \/ CachedHttp3Answers(c) \/ CachedHttp3Fails(c)
             \/ ClearProtocolCache(c)
  BY <1>3 DEF NoCachedProtocol, UseCachedHttp3, CreateHttp3Fails,
     CachedHttp3Answers, CachedHttp3Fails, ClearProtocolCache
<1>4. CASE TakeResult(c) \/ CacheWinner(c)
  BY <1>4 DEF TakeResult, CacheWinner
<1>5. CASE \E b \in BOOLEAN : Http3LegEnds(c, b) \/ StoreHttp3(c, b)
  BY <1>5 DEF Http3LegEnds, StoreHttp3
<1> QED
  BY <1>2, <1>3, <1>4, <1>5 DEF RaceCall

CallAddrOK == callAddr \in [Calls -> Addrs]

\* Calls keep the address they were made with.
LEMMA CallAddrStep == CallAddrOK /\ [RaceNext]_allVars => CallAddrOK'
<1> SUFFICES ASSUME CallAddrOK, [RaceNext]_allVars PROVE CallAddrOK'
  OBVIOUS
<1> USE DEF CallAddrOK
<1>1. ASSUME NEW c \in Calls, NEW a \in Addrs, Call(c, a)
      PROVE  CallAddrOK'
  BY <1>1 DEF Call
<1>2. ASSUME NEW c \in Calls, RaceCall(c)
      PROVE  CallAddrOK'
  BY <1>2 DEF RaceCall, NoCachedProtocol, UseCachedHttp3, CreateHttp3Fails,
     CachedHttp3Answers, CachedHttp3Fails, ClearProtocolCache, TakeResult,
     CacheWinner,
     Http3LegEnds, StoreHttp3, UseCachedHttp2, StartRace, callVars
<1>3. ASSUME NEW c \in Calls, RaceTimesOut(c)
      PROVE  CallAddrOK'
  BY <1>3 DEF RaceTimesOut
<1>4. ASSUME NEW r \in Requests, LegStep(r)
      PROVE  CallAddrOK'
  BY <1>4 DEF LegStep, LegFails, LegSucceeds, LegSteps, AfterLegStep,
     LegDelivers, callVars
<1>5. CASE RaceEnvironment
  BY <1>5 DEF RaceEnvironment, callVars
<1>6. CASE UNCHANGED allVars
  BY <1>6 DEF allVars, racerVars, callVars
<1> QED
  BY <1>1, <1>2, <1>3, <1>4, <1>5, <1>6 DEF RaceNext

\* A step of the racer is one of the round tripper, or leaves it alone.
LEMMA RacingIsHttps == CallAddrOK /\ [RaceNext]_allVars => [HttpsNext]_vars
<1> SUFFICES ASSUME CallAddrOK, [RaceNext]_allVars PROVE [HttpsNext]_vars
  OBVIOUS
<1>1. ASSUME NEW c \in Calls, NEW a \in Addrs, Call(c, a)
      PROVE  [HttpsNext]_vars
  BY <1>1 DEF Call
<1>2. ASSUME NEW c \in Calls, RaceCall(c)
      PROVE  [HttpsNext]_vars
  BY <1>2, CallsOnlyStart DEF CallAddrOK
<1>3. ASSUME NEW c \in Calls, RaceTimesOut(c)
      PROVE  [HttpsNext]_vars
  BY <1>3 DEF RaceTimesOut
<1>4. ASSUME NEW r \in Requests, LegStep(r)
      PROVE  [HttpsNext]_vars
  BY <1>4, LegsAreRequests DEF HttpsNext
<1>5. CASE RaceEnvironment
  BY <1>5 DEF RaceEnvironment, HttpsNext
<1>6. CASE UNCHANGED allVars
  BY <1>6 DEF allVars
<1> QED
  BY <1>1, <1>2, <1>3, <1>4, <1>5, <1>6 DEF RaceNext

\* A racing client takes no step with the cache that the round tripper does not
\* have: the legs and the drops they cause are requests like any other.
LEMMA RacingIsRoundTripping ==
  "https" \in Schemes => (RaceSpec => Spec)
<1> SUFFICES ASSUME "https" \in Schemes PROVE RaceSpec => Spec
  OBVIOUS
<1>1. RaceInit => Init /\ CallAddrOK
  BY DEF RaceInit, CallAddrOK
<1>2. [HttpsNext]_vars => [Next]_vars
  BY DEF HttpsNext, Next
<1> QED
  BY <1>1, <1>2, RacingIsHttps, CallAddrStep, PTL DEF RaceSpec, Spec

\* Racing never makes getTransport panic either, although the racer calls it
\* from legs that outlive their race.
THEOREM RacingNeverPanics == "https" \in Schemes => (RaceSpec => []NoPanic)
BY RacingIsRoundTripping, GetTransportNeverPanics, PTL

-----------------------------------------------------------------------------
(* What a race keeps: each leg sends one result, and a leg works for the call
   that started it. *)

RaceStates == {"waiting", "cacheWinner", "storeHttp3"}

RaceTypes ==
  /\ protocolCache \in [Addrs -> {"h3", "h2", None}]
  /\ http3Cached \subseteq Addrs
  /\ callPc \in [Calls -> CallStates]
  /\ callAddr \in [Calls -> Addrs]
  /\ tried \in [Calls -> {"h3", "h2", None}]
  /\ leg \in [Calls -> Requests \cup {None}]
  /\ http3Leg \in [Calls -> BOOLEAN]
  /\ resultCh \in [Calls -> Seq(Results)]
  /\ received \in [Calls -> 0 .. 1]
  /\ result \in [Calls -> Outcomes \cup {None}]
  /\ disturbed \in [Calls -> BOOLEAN]
  /\ erased \in [Calls -> BOOLEAN]

\* No result of protocol p is in the channel.
Silent(ch, p) == \A i \in DOMAIN ch : ch[i].protocol # p

\* A leg that runs has sent nothing, one that has ended has sent one result, and
\* there is nothing of a race outside it.
ChannelFits(c) ==
  /\ \A i, j \in DOMAIN resultCh[c] :
       resultCh[c][i].protocol = resultCh[c][j].protocol => i = j
  /\ http3Leg[c] => Silent(resultCh[c], "h3")
  /\ leg[c] # None => Silent(resultCh[c], "h2")
  /\ callPc[c] \notin RaceStates =>
       resultCh[c] = << >> /\ ~http3Leg[c] /\ received[c] = 0
  /\ callPc[c] \notin RaceStates \cup {"cachedHttp2"} => leg[c] = None
  /\ callPc[c] \in {"cacheWinner", "storeHttp3"} => resultCh[c] # << >>

\* A leg with an owner has one, which waits for it at its address.
LegIsOwned(c) ==
  leg[c] # None =>
    /\ waiting[leg[c]]
    /\ addr[leg[c]] = callAddr[c]
    /\ \A d \in Calls : leg[d] = leg[c] => d = c

AllChannelsFit == \A c \in Calls : ChannelFits(c)

AllLegsOwned == \A c \in Calls : LegIsOwned(c)

RacerInv == RaceTypes /\ AllChannelsFit /\ AllLegsOwned

\* Every step keeps the types of the racer's state.
LEMMA RaceTypesStep ==
  RaceTypes /\ AllChannelsFit /\ [RaceNext]_allVars => RaceTypes'
<1> SUFFICES ASSUME RaceTypes, AllChannelsFit, [RaceNext]_allVars
             PROVE  RaceTypes'
  OBVIOUS
<1> USE DEF RaceTypes, CallStates, Outcomes, CallGoto, cachesVars, raceVars,
            callVars, historyVars
<1>1. ASSUME NEW c \in Calls, NEW a \in Addrs, Call(c, a)
      PROVE  RaceTypes'
  BY <1>1 DEF Call
<1>2. ASSUME NEW c \in Calls, NEW o \in Outcomes, CallReturns(c, o)
      PROVE  /\ callPc' \in [Calls -> CallStates]
             /\ result' \in [Calls -> Outcomes \cup {None}]
             /\ leg' \in [Calls -> Requests \cup {None}]
             /\ http3Leg' \in [Calls -> BOOLEAN]
             /\ resultCh' \in [Calls -> Seq(Results)]
             /\ received' \in [Calls -> 0 .. 1]
  BY <1>2 DEF CallReturns
<1>3. ASSUME NEW c \in Calls, NEW p \in {"h3", "h2"}, NEW ok \in BOOLEAN,
             SendResult(c, p, ok)
      PROVE  resultCh' \in [Calls -> Seq(Results)]
  <2>1. [protocol |-> p, ok |-> ok] \in Results
    BY DEF Results
  <2>2. Append(resultCh[c], [protocol |-> p, ok |-> ok]) \in Seq(Results)
    BY <2>1
  <2> QED
    BY <1>3, <2>2 DEF SendResult
<1>4. ASSUME NEW c \in Calls,
             \/ NoCachedProtocol(c) \/ UseCachedHttp3(c) \/ CreateHttp3Fails(c)
             \/ CachedHttp3Fails(c) \/ ClearProtocolCache(c)
      PROVE  RaceTypes'
  <2>1. UNCHANGED <<raceVars, callAddr, tried, result, historyVars>>
    BY <1>4 DEF NoCachedProtocol, UseCachedHttp3, CreateHttp3Fails,
       CachedHttp3Fails, ClearProtocolCache
  <2>2. PICK s \in {"startRace", "cachedHttp3", "clear"} : CallGoto(c, s)
    BY <1>4 DEF NoCachedProtocol, UseCachedHttp3, CreateHttp3Fails,
       CachedHttp3Fails, ClearProtocolCache
  <2>3. /\ protocolCache' \in [Addrs -> {"h3", "h2", None}]
        /\ http3Cached' \subseteq Addrs
    BY <1>4 DEF NoCachedProtocol, UseCachedHttp3, CreateHttp3Fails,
       CachedHttp3Fails, ClearProtocolCache
  <2> QED
    BY <2>1, <2>2, <2>3
<1>5. ASSUME NEW c \in Calls, NEW r \in Requests,
             UseCachedHttp2(c, r) \/ StartRace(c, r)
      PROVE  RaceTypes'
  <2>1. UNCHANGED <<cachesVars, resultCh, received, callAddr, tried, result,
                    historyVars>>
    BY <1>5 DEF UseCachedHttp2, StartRace
  <2>2. leg' = [leg EXCEPT ![c] = r]
    BY <1>5 DEF UseCachedHttp2, StartRace, StartLeg
  <2>3. /\ callPc' \in [Calls -> CallStates]
        /\ http3Leg' \in [Calls -> BOOLEAN]
    BY <1>5 DEF UseCachedHttp2, StartRace
  <2> QED
    BY <2>1, <2>2, <2>3
<1>6. ASSUME NEW c \in Calls, CachedHttp3Answers(c) \/ RaceTimesOut(c)
      PROVE  RaceTypes'
  BY <1>6, <1>2 DEF CachedHttp3Answers, RaceTimesOut
<1>7. ASSUME NEW c \in Calls, NEW ok \in BOOLEAN, Http3LegEnds(c, ok)
      PROVE  RaceTypes'
  BY <1>7, <1>3 DEF Http3LegEnds
<1>8. ASSUME NEW c \in Calls, TakeResult(c)
      PROVE  RaceTypes'
  <2>1. resultCh[c] # << >> => Tail(resultCh[c]) \in Seq(Results)
    OBVIOUS
  <2> QED
    <3>1. UNCHANGED <<cachesVars, callAddr, tried, historyVars>>
      BY <1>8 DEF TakeResult
    <3>2. CASE Head(resultCh[c]).ok
      <4>1. CallGoto(c, "cacheWinner") /\ UNCHANGED <<raceVars, result>>
        BY <1>8, <3>2 DEF TakeResult
      <4> QED
        BY <3>1, <4>1
    <3>3. CASE ~Head(resultCh[c]).ok /\ received[c] = 1
      <4>1. CallReturns(c, "error")
        BY <1>8, <3>3 DEF TakeResult
      <4> QED
        BY <3>1, <4>1, <1>2
    <3>4. CASE ~Head(resultCh[c]).ok /\ received[c] # 1
      <4>1. /\ resultCh' = [resultCh EXCEPT ![c] = Tail(@)]
            /\ received' = [received EXCEPT ![c] = 1]
            /\ UNCHANGED <<callPc, leg, http3Leg, result>>
            /\ resultCh[c] # << >>
        BY <1>8, <3>4 DEF TakeResult
      <4> QED
        BY <3>1, <4>1, <2>1
    <3> QED
      BY <3>2, <3>3, <3>4
<1>9. ASSUME NEW c \in Calls, CacheWinner(c)
      PROVE  RaceTypes'
  <2>1. resultCh[c] # << >>
    BY <1>9 DEF AllChannelsFit, ChannelFits, CacheWinner
  <2>2. resultCh[c] \in Seq(Results)
    OBVIOUS
  <2>3. Head(resultCh[c]) \in Results
    BY <2>1, <2>2
  <2>4. Head(resultCh[c]).protocol \in {"h3", "h2"}
    BY <2>3 DEF Results
  <2> QED
    <3>1. /\ UNCHANGED <<http3Cached, callAddr, tried, historyVars>>
          /\ protocolCache' \in [Addrs -> {"h3", "h2", None}]
      BY <1>9, <2>4 DEF CacheWinner
    <3>2. \/ CallReturns(c, "ok")
          \/ CallGoto(c, "storeHttp3") /\ UNCHANGED <<raceVars, result>>
      BY <1>9 DEF CacheWinner
    <3> QED
      BY <3>1, <3>2, <1>2
<1>10. ASSUME NEW c \in Calls, NEW b \in BOOLEAN, StoreHttp3(c, b)
      PROVE  RaceTypes'
  BY <1>10, <1>2 DEF StoreHttp3
<1>11. ASSUME NEW c \in Calls, NEW ok \in BOOLEAN, LegDelivers(c, ok),
              disturbed' \in [Calls -> BOOLEAN], erased' \in [Calls -> BOOLEAN]
      PROVE  RaceTypes'
  <2>1. /\ leg' = [leg EXCEPT ![c] = None]
        /\ UNCHANGED <<cachesVars, http3Leg, received, callAddr, tried>>
    BY <1>11 DEF LegDelivers
  <2>2. CASE callPc[c] = "cachedHttp2"
    <3>1. /\ callPc' \in [Calls -> CallStates]
          /\ result' \in [Calls -> Outcomes \cup {None}]
          /\ resultCh' = resultCh
      BY <1>11, <2>2 DEF LegDelivers
    <3> QED
      BY <1>11, <2>1, <3>1
  <2>3. CASE callPc[c] # "cachedHttp2"
    <3>1. SendResult(c, "h2", ok) /\ UNCHANGED <<callPc, result>>
      BY <1>11, <2>3 DEF LegDelivers
    <3> QED
      BY <1>11, <1>3, <2>1, <3>1
  <2> QED
    BY <2>2, <2>3
<1>12. ASSUME NEW r \in Requests, NEW ok \in BOOLEAN, AfterLegStep(r, ok),
              disturbed' \in [Calls -> BOOLEAN], erased' \in [Calls -> BOOLEAN]
      PROVE  RaceTypes'
  BY <1>12, <1>11 DEF AfterLegStep
<1>13. ASSUME NEW r \in Requests, LegStep(r)
      PROVE  RaceTypes'
  BY <1>13, <1>12 DEF LegStep, LegFails, LegSucceeds, LegSteps
<1>14. CASE RaceEnvironment
  BY <1>14 DEF RaceEnvironment
<1>15. CASE UNCHANGED allVars
  BY <1>15 DEF allVars, racerVars
<1> QED
  BY <1>1, <1>4, <1>5, <1>6, <1>7, <1>8, <1>9, <1>10, <1>13, <1>14, <1>15
  DEF RaceNext, RaceCall

\* What a channel holds depends on nothing but its own call.
LEMMA ChannelFrame ==
  ASSUME NEW d \in Calls, ChannelFits(d),
         callPc'[d] = callPc[d], leg'[d] = leg[d],
         http3Leg'[d] = http3Leg[d], resultCh'[d] = resultCh[d],
         received'[d] = received[d]
  PROVE  ChannelFits(d)'
BY DEF ChannelFits, Silent

\* A call outside a race has an empty channel and no legs.
LEMMA ChannelEmpty ==
  ASSUME NEW d \in Calls, resultCh'[d] = << >>, ~http3Leg'[d],
         received'[d] = 0, leg'[d] = None,
         callPc'[d] \notin {"cacheWinner", "storeHttp3"}
  PROVE  ChannelFits(d)'
BY DEF ChannelFits, Silent

\* The leg that sends its result is over.
LEMMA ChannelSends ==
  ASSUME NEW d \in Calls, RaceTypes, ChannelFits(d),
         NEW p \in {"h3", "h2"}, NEW ok \in BOOLEAN,
         Silent(resultCh[d], p),
         callPc[d] \in RaceStates,
         resultCh'[d] = Append(resultCh[d], [protocol |-> p, ok |-> ok]),
         p = "h3" => ~http3Leg'[d] /\ leg'[d] = leg[d],
         p = "h2" => leg'[d] = None /\ http3Leg'[d] = http3Leg[d],
         callPc'[d] = callPc[d], received'[d] = received[d]
  PROVE  ChannelFits(d)'
<1> DEFINE s == resultCh[d]
           e == [protocol |-> p, ok |-> ok]
<1>1. s \in Seq(Results) /\ e \in Results /\ e.protocol = p
  BY DEF RaceTypes, Results
<1> HIDE DEF s, e
<1>2. /\ DOMAIN Append(s, e) = 1 .. Len(s) + 1
      /\ DOMAIN s = 1 .. Len(s)
      /\ Len(s) \in Nat
      /\ Append(s, e)[Len(s) + 1] = e
      /\ \A i \in 1 .. Len(s) : Append(s, e)[i] = s[i]
  BY <1>1
<1>3. resultCh'[d] = Append(s, e) /\ Silent(s, p)
  BY DEF s, e
<1>4. /\ \A i, j \in DOMAIN s : s[i].protocol = s[j].protocol => i = j
      /\ http3Leg[d] => Silent(s, "h3")
      /\ leg[d] # None => Silent(s, "h2")
  BY DEF ChannelFits, s
<1>5. \A i, j \in DOMAIN Append(s, e) :
        Append(s, e)[i].protocol = Append(s, e)[j].protocol => i = j
  BY <1>1, <1>2, <1>3, <1>4 DEF Silent
<1>6. ASSUME NEW q, q # p, Silent(s, q)
      PROVE  Silent(Append(s, e), q)
  BY <1>1, <1>2, <1>6 DEF Silent
<1>7. /\ http3Leg'[d] => Silent(Append(s, e), "h3")
      /\ leg'[d] # None => Silent(Append(s, e), "h2")
  BY <1>4, <1>6
<1>8. Append(s, e) # << >>
  BY <1>1, <1>2
<1> QED
  BY <1>3, <1>5, <1>7, <1>8 DEF ChannelFits

\* The result that is taken leaves the others in their order.
LEMMA ChannelTakes ==
  ASSUME NEW d \in Calls, RaceTypes, ChannelFits(d),
         callPc[d] = "waiting", callPc'[d] = "waiting", resultCh[d] # << >>,
         resultCh'[d] = Tail(resultCh[d]),
         leg'[d] = leg[d], http3Leg'[d] = http3Leg[d]
  PROVE  /\ ChannelFits(d)'
         /\ Silent(resultCh'[d], Head(resultCh[d]).protocol)
         /\ \A i \in DOMAIN resultCh'[d] :
              \E j \in DOMAIN resultCh[d] : resultCh'[d][i] = resultCh[d][j]
<1> DEFINE s == resultCh[d]
<1>1. s \in Seq(Results) /\ s # << >> /\ resultCh'[d] = Tail(s)
  BY DEF RaceTypes
<1>2. /\ \A i, j \in DOMAIN s : s[i].protocol = s[j].protocol => i = j
      /\ http3Leg[d] => Silent(s, "h3")
      /\ leg[d] # None => Silent(s, "h2")
  BY DEF ChannelFits
<1> HIDE DEF s
<1>3. /\ DOMAIN s = 1 .. Len(s)
      /\ Len(s) \in Nat \ {0}
      /\ DOMAIN Tail(s) = 1 .. Len(s) - 1
      /\ \A i \in 1 .. Len(s) - 1 : Tail(s)[i] = s[i + 1]
      /\ Head(s) = s[1]
  BY <1>1
<1>4. \A i \in DOMAIN Tail(s) : i + 1 \in DOMAIN s /\ Tail(s)[i] = s[i + 1]
  BY <1>3
<1>5. \A i, j \in DOMAIN Tail(s) :
        Tail(s)[i].protocol = Tail(s)[j].protocol => i = j
  BY <1>2, <1>3, <1>4
<1>6. ASSUME NEW q, Silent(s, q)
      PROVE  Silent(Tail(s), q)
  BY <1>4, <1>6 DEF Silent
<1>7. Silent(Tail(s), Head(s).protocol)
  BY <1>2, <1>3, <1>4 DEF Silent
<1>8. ChannelFits(d)'
  BY <1>1, <1>2, <1>5, <1>6 DEF ChannelFits, RaceStates
<1> QED
  BY <1>1, <1>4, <1>7, <1>8 DEF s

\* Every step keeps what is in the channels in step with the legs.
LEMMA ChannelStep ==
  RaceTypes /\ AllChannelsFit /\ [RaceNext]_allVars => AllChannelsFit'
<1> SUFFICES ASSUME RaceTypes, AllChannelsFit, [RaceNext]_allVars,
                    NEW d \in Calls
             PROVE  ChannelFits(d)'
  BY DEF AllChannelsFit
<1> USE DEF CallGoto, cachesVars, raceVars, callVars
<1>1. ChannelFits(d)
  BY DEF AllChannelsFit
<1>2. /\ callPc[d] \notin RaceStates =>
           resultCh[d] = << >> /\ ~http3Leg[d] /\ received[d] = 0
      /\ callPc[d] \notin RaceStates \cup {"cachedHttp2"} => leg[d] = None
      /\ http3Leg[d] => Silent(resultCh[d], "h3")
      /\ leg[d] # None => Silent(resultCh[d], "h2")
      /\ DOMAIN callPc = Calls /\ DOMAIN leg = Calls /\ DOMAIN http3Leg = Calls
      /\ DOMAIN resultCh = Calls /\ DOMAIN received = Calls
  BY <1>1 DEF ChannelFits, RaceTypes
<1>3. ASSUME NEW c \in Calls, NEW a \in Addrs, Call(c, a)
      PROVE  ChannelFits(d)'
  <2>1. CASE c = d
    BY <1>2, <1>3, <2>1, ChannelEmpty DEF Call, RaceStates
  <2>2. CASE c # d
    BY <1>1, <1>2, <1>3, <2>2, ChannelFrame DEF Call
  <2> QED
    BY <2>1, <2>2
<1>4. ASSUME NEW c \in Calls, NEW o, CallReturns(c, o)
      PROVE  ChannelFits(d)'
  <2>1. CASE c = d
    BY <1>2, <1>4, <2>1, ChannelEmpty DEF CallReturns
  <2>2. CASE c # d
    BY <1>1, <1>2, <1>4, <2>2, ChannelFrame DEF CallReturns
  <2> QED
    BY <2>1, <2>2
<1>5. ASSUME NEW c \in Calls,
             \/ NoCachedProtocol(c) \/ UseCachedHttp3(c) \/ CreateHttp3Fails(c)
             \/ CachedHttp3Fails(c) \/ ClearProtocolCache(c)
      PROVE  ChannelFits(d)'
  <2>1. /\ UNCHANGED raceVars
        /\ callPc[c] \in {"tryCached", "cachedHttp3", "clear"}
        /\ \E s \in {"startRace", "cachedHttp3", "clear"} :
             callPc' = [callPc EXCEPT ![c] = s]
    BY <1>5 DEF NoCachedProtocol, UseCachedHttp3, CreateHttp3Fails,
       CachedHttp3Fails, ClearProtocolCache
  <2>2. CASE c = d
    BY <1>2, <2>1, <2>2, ChannelEmpty DEF RaceStates
  <2>3. CASE c # d
    BY <1>1, <1>2, <2>1, <2>3, ChannelFrame
  <2> QED
    BY <2>2, <2>3
<1>6. ASSUME NEW c \in Calls, NEW r \in Requests, UseCachedHttp2(c, r)
      PROVE  ChannelFits(d)'
  <2>1. /\ callPc[c] = "tryCached"
        /\ leg' = [leg EXCEPT ![c] = r]
        /\ callPc' = [callPc EXCEPT ![c] = "cachedHttp2"]
        /\ UNCHANGED <<http3Leg, resultCh, received>>
    BY <1>6 DEF UseCachedHttp2, StartLeg
  <2>2. CASE c = d
    BY <1>2, <2>1, <2>2 DEF RaceStates, ChannelFits, Silent
  <2>3. CASE c # d
    BY <1>1, <1>2, <2>1, <2>3, ChannelFrame
  <2> QED
    BY <2>2, <2>3
<1>7. ASSUME NEW c \in Calls, NEW r \in Requests, StartRace(c, r)
      PROVE  ChannelFits(d)'
  <2>1. /\ callPc[c] = "startRace"
        /\ leg' = [leg EXCEPT ![c] = r]
        /\ callPc' = [callPc EXCEPT ![c] = "waiting"]
        /\ http3Leg' = [http3Leg EXCEPT ![c] = TRUE]
        /\ UNCHANGED <<resultCh, received>>
    BY <1>7 DEF StartRace, StartLeg
  <2>2. CASE c = d
    BY <1>2, <2>1, <2>2 DEF RaceStates, ChannelFits, Silent
  <2>3. CASE c # d
    BY <1>1, <1>2, <2>1, <2>3, ChannelFrame
  <2> QED
    BY <2>2, <2>3
<1>8. ASSUME NEW c \in Calls, NEW ok \in BOOLEAN, Http3LegEnds(c, ok)
      PROVE  ChannelFits(d)'
  <2>1. /\ http3Leg[c]
        /\ resultCh' = [resultCh EXCEPT
                          ![c] = Append(@, [protocol |-> "h3", ok |-> ok])]
        /\ http3Leg' = [http3Leg EXCEPT ![c] = FALSE]
        /\ UNCHANGED <<leg, received, callPc>>
    BY <1>8 DEF Http3LegEnds, SendResult
  <2>2. CASE c = d
    <3>1. callPc[d] \in RaceStates /\ Silent(resultCh[d], "h3")
      BY <1>2, <2>1, <2>2
    <3> QED
      BY <1>1, <1>2, <2>1, <2>2, <3>1, ChannelSends
  <2>3. CASE c # d
    BY <1>1, <1>2, <2>1, <2>3, ChannelFrame
  <2> QED
    BY <2>2, <2>3
<1>9. ASSUME NEW c \in Calls, TakeResult(c)
      PROVE  ChannelFits(d)'
  <2>1. CASE Head(resultCh[c]).ok
    <3>1. /\ callPc[c] = "waiting" /\ resultCh[c] # << >>
          /\ callPc' = [callPc EXCEPT ![c] = "cacheWinner"]
          /\ UNCHANGED raceVars
      BY <1>9, <2>1 DEF TakeResult
    <3>2. CASE c = d
      BY <1>1, <1>2, <3>1, <3>2 DEF ChannelFits, RaceStates, Silent
    <3>3. CASE c # d
      BY <1>1, <1>2, <3>1, <3>3, ChannelFrame
    <3> QED
      BY <3>2, <3>3
  <2>2. CASE ~Head(resultCh[c]).ok /\ received[c] = 1
    BY <1>9, <1>4, <2>2 DEF TakeResult
  <2>3. CASE ~Head(resultCh[c]).ok /\ received[c] # 1
    <3>1. /\ callPc[c] = "waiting" /\ resultCh[c] # << >>
          /\ resultCh' = [resultCh EXCEPT ![c] = Tail(@)]
          /\ received' = [received EXCEPT ![c] = 1]
          /\ UNCHANGED <<callPc, leg, http3Leg>>
      BY <1>9, <2>3 DEF TakeResult
    <3>2. CASE c = d
      BY <1>1, <1>2, <3>1, <3>2, ChannelTakes
    <3>3. CASE c # d
      BY <1>1, <1>2, <3>1, <3>3, ChannelFrame
    <3> QED
      BY <3>2, <3>3
  <2> QED
    BY <2>1, <2>2, <2>3
<1>10. ASSUME NEW c \in Calls, CacheWinner(c)
      PROVE  ChannelFits(d)'
  <2>1. \/ CallReturns(c, "ok")
        \/ /\ callPc[c] = "cacheWinner"
           /\ callPc' = [callPc EXCEPT ![c] = "storeHttp3"]
           /\ UNCHANGED raceVars
    BY <1>10 DEF CacheWinner
  <2>2. CASE /\ callPc[c] = "cacheWinner"
             /\ callPc' = [callPc EXCEPT ![c] = "storeHttp3"]
             /\ UNCHANGED raceVars
    <3>1. CASE c = d
      BY <1>1, <1>2, <2>2, <3>1 DEF ChannelFits, RaceStates, Silent
    <3>2. CASE c # d
      BY <1>1, <1>2, <2>2, <3>2, ChannelFrame
    <3> QED
      BY <3>1, <3>2
  <2> QED
    BY <2>1, <2>2, <1>4
<1>11. ASSUME NEW c \in Calls, NEW b \in BOOLEAN,
             CachedHttp3Answers(c) \/ RaceTimesOut(c) \/ StoreHttp3(c, b)
      PROVE  ChannelFits(d)'
  BY <1>11, <1>4 DEF CachedHttp3Answers, RaceTimesOut, StoreHttp3
<1>12. ASSUME NEW c \in Calls, NEW ok \in BOOLEAN, leg[c] # None,
              LegDelivers(c, ok)
      PROVE  ChannelFits(d)'
  <2>1. CASE c # d
    <3>1. /\ callPc'[d] = callPc[d] /\ leg'[d] = leg[d]
          /\ http3Leg'[d] = http3Leg[d] /\ resultCh'[d] = resultCh[d]
          /\ received'[d] = received[d]
      BY <1>2, <1>12, <2>1 DEF LegDelivers, SendResult
    <3> QED
      BY <1>1, <3>1, ChannelFrame
  <2>2. CASE c = d /\ callPc[c] = "cachedHttp2"
    BY <1>2, <1>12, <2>2, ChannelEmpty DEF LegDelivers, RaceStates
  <2>3. CASE c = d /\ callPc[c] # "cachedHttp2"
    <3>1. callPc[d] \in RaceStates /\ Silent(resultCh[d], "h2")
      BY <1>2, <1>12, <2>3
    <3>2. /\ resultCh'[d] = Append(resultCh[d], [protocol |-> "h2", ok |-> ok])
          /\ leg'[d] = None /\ callPc'[d] = callPc[d]
          /\ http3Leg'[d] = http3Leg[d] /\ received'[d] = received[d]
      BY <1>2, <1>12, <2>3 DEF LegDelivers, SendResult
    <3> QED
      BY <1>1, <3>1, <3>2, ChannelSends
  <2> QED
    BY <2>1, <2>2, <2>3
<1>13. ASSUME NEW r \in Requests, NEW ok \in BOOLEAN, AfterLegStep(r, ok)
      PROVE  ChannelFits(d)'
  <2>1. CASE UNCHANGED <<raceVars, callVars>>
    BY <2>1, <1>1, ChannelFrame
  <2>2. CASE \E c \in Calls : leg[c] = r /\ LegDelivers(c, ok)
    BY <2>2, <1>12, RoundTripperAssumption
  <2> QED
    BY <1>13, <2>1, <2>2 DEF AfterLegStep
<1>14. ASSUME NEW r \in Requests, LegStep(r)
      PROVE  ChannelFits(d)'
  BY <1>14, <1>13 DEF LegStep, LegFails, LegSucceeds, LegSteps
<1>15. CASE RaceEnvironment \/ UNCHANGED allVars
  BY <1>15, <1>1, ChannelFrame DEF RaceEnvironment, allVars, racerVars
<1> QED
  BY <1>3, <1>5, <1>6, <1>7, <1>8, <1>9, <1>10, <1>11, <1>14, <1>15
  DEF RaceNext, RaceCall

\* A request moves itself alone, and neither its address nor a server.
LEMMA RequestMovesItself ==
  ASSUME TypeOK, NEW r \in Requests, Request(r)
  PROVE  /\ UNCHANGED <<addr, scheme, server>>
         /\ \A q \in Requests \ {r} : waiting'[q] = waiting[q] /\ pc'[q] = pc[q]
<1> USE DEF TypeOK, Goto, Return, cacheVars, lockVars, requestVars
<1>1. CASE LookUp(r)
  BY <1>1 DEF LookUp, RoundTripHit, GetTransportHttp, GetTransportInvalid,
     GetTransportHttps
<1>2. CASE SetupLock(r) \/ SetupEnds(r) \/ ReportBadPin(r)
  BY <1>2 DEF SetupLock, SetupEnds, SetupFails, SetupBadPin, SetupBuilds,
     ReportBadPin
<1>3. CASE Send(r) \/ StopWaiting(r) \/ Exchange(r)
  BY <1>3 DEF Send, SendWithoutDialTLS, SendDials, StopWaiting, Exchange
<1>4. CASE DialBegins(r) \/ DialEnds(r)
  BY <1>4 DEF DialBegins, DialTakesStash, DialLock, DialEnds, DialFails,
     DialKeepsKind, DialProtocolChanged
<1>5. CASE Drop(r)
  BY <1>5 DEF Drop, DropTransport, DropKind, DropCloseIdle
<1> QED
  BY <1>1, <1>2, <1>3, <1>4, <1>5 DEF Request

\* A leg keeps its owner, which waits for it, until it has returned.
LEMMA OwnedStep ==
  TypeOK /\ RacerInv /\ [RaceNext]_allVars => AllLegsOwned'
<1> SUFFICES ASSUME TypeOK, RacerInv, [RaceNext]_allVars, NEW d \in Calls
             PROVE  LegIsOwned(d)'
  BY DEF AllLegsOwned
<1> USE DEF CallGoto, cachesVars, raceVars, callVars
<1>1. /\ DOMAIN leg = Calls /\ DOMAIN callAddr = Calls
      /\ leg \in [Calls -> Requests \cup {None}]
      /\ \A c \in Calls : LegIsOwned(c)
      /\ \A c \in Calls : callPc[c] \notin RaceStates \cup {"cachedHttp2"}
                            => leg[c] = None
  BY DEF RacerInv, RaceTypes, AllLegsOwned, AllChannelsFit, ChannelFits
<1>2. ASSUME UNCHANGED <<vars, callAddr>>,
             leg' = leg \/ \E c \in Calls : leg' = [leg EXCEPT ![c] = None]
      PROVE  LegIsOwned(d)'
  BY <1>1, <1>2 DEF LegIsOwned, vars, requestVars
<1>3. ASSUME NEW c \in Calls, NEW a \in Addrs, Call(c, a)
      PROVE  LegIsOwned(d)'
  <2>1. leg[c] = None
    BY <1>1, <1>3 DEF Call, RaceStates
  <2> QED
    BY <1>1, <1>3, <2>1 DEF Call, LegIsOwned, vars, requestVars
<1>4. ASSUME NEW c \in Calls, NEW r \in Requests, StartLeg(c, r),
             UNCHANGED callAddr
      PROVE  LegIsOwned(d)'
  <2>1. /\ addr' = [addr EXCEPT ![r] = callAddr[c]]
        /\ waiting' = [waiting EXCEPT ![r] = TRUE]
        /\ leg' = [leg EXCEPT ![c] = r]
        /\ \A b \in Calls : leg[b] # r
    BY <1>4 DEF StartLeg, Start, Unowned
  <2>2. addr'[r] = callAddr[c] /\ waiting'[r] = TRUE
    BY <2>1 DEF TypeOK
  <2>3. \A q \in Requests \ {r} : addr'[q] = addr[q] /\ waiting'[q] = waiting[q]
    BY <2>1 DEF TypeOK
  <2> QED
    BY <1>1, <1>4, <2>1, <2>2, <2>3 DEF LegIsOwned
<1>5. ASSUME NEW c \in Calls, RaceCall(c) \/ RaceTimesOut(c)
      PROVE  LegIsOwned(d)'
  <2>1. CASE \E r \in Requests : UseCachedHttp2(c, r) \/ StartRace(c, r)
    BY <2>1, <1>4 DEF UseCachedHttp2, StartRace
  <2>2. CASE NoCachedProtocol(c) \/ UseCachedHttp3(c) \/ CreateHttp3Fails(c)
               \/ CachedHttp3Fails(c) \/ ClearProtocolCache(c)
    BY <2>2, <1>2 DEF NoCachedProtocol, UseCachedHttp3, CreateHttp3Fails,
       CachedHttp3Fails, ClearProtocolCache
  <2>3. CASE TakeResult(c) \/ CacheWinner(c)
    BY <2>3, <1>2 DEF TakeResult, CacheWinner, CallReturns
  <2>4. CASE \E b \in BOOLEAN : Http3LegEnds(c, b) \/ StoreHttp3(c, b)
    BY <2>4, <1>2 DEF Http3LegEnds, StoreHttp3, CallReturns
  <2>5. CASE CachedHttp3Answers(c) \/ RaceTimesOut(c)
    BY <2>5, <1>2 DEF CachedHttp3Answers, RaceTimesOut, CallReturns
  <2> QED
    BY <1>5, <2>1, <2>2, <2>3, <2>4, <2>5 DEF RaceCall
<1>6. ASSUME NEW r \in Requests, LegStep(r)
      PROVE  LegIsOwned(d)'
  <2>1. /\ addr' = addr
        /\ \A q \in Requests \ {r} : waiting'[q] = waiting[q]
    BY <1>6, LegsAreRequests, RequestMovesItself
  <2>2. PICK ok : AfterLegStep(r, ok)
    BY <1>6 DEF LegStep, LegFails, LegSucceeds, LegSteps
  <2>3. callAddr' = callAddr
    BY <2>2 DEF AfterLegStep, LegDelivers
  <2>4. CASE waiting[r] /\ ~waiting'[r] /\ ~Unowned(r)
    <3>1. PICK c \in Calls : leg[c] = r /\ leg' = [leg EXCEPT ![c] = None]
      BY <2>2, <2>4 DEF AfterLegStep, LegDelivers
    <3>2. \A b \in Calls : b # c => leg[b] # r
      BY <1>1, <3>1, RoundTripperAssumption DEF LegIsOwned
    <3> QED
      BY <1>1, <2>1, <2>3, <3>1, <3>2 DEF LegIsOwned
  <2>5. CASE ~(waiting[r] /\ ~waiting'[r] /\ ~Unowned(r))
    <3>1. leg' = leg
      BY <2>2, <2>5 DEF AfterLegStep
    <3>2. ~Unowned(r) => waiting'[r]
      BY <1>1, <2>5, RoundTripperAssumption DEF Unowned, LegIsOwned
    <3> QED
      BY <1>1, <2>1, <2>3, <3>1, <3>2 DEF LegIsOwned, Unowned
  <2> QED
    BY <2>4, <2>5
<1>7. CASE RaceEnvironment
  <2>1. UNCHANGED <<addr, waiting, leg, callAddr>>
    BY <1>7 DEF RaceEnvironment, Environment, CloseIdleConnections,
       ConnectionsDie, ServerChanges, requestVars
  <2> QED
    BY <1>1, <2>1 DEF LegIsOwned
<1>8. CASE UNCHANGED allVars
  BY <1>8, <1>2 DEF allVars, racerVars
<1> QED
  BY <1>3, <1>5, <1>6, <1>7, <1>8 DEF RaceNext

\* The invariant of the round tripper and that of the racer hold throughout.
LEMMA RacerInvariance ==
  "https" \in Schemes => (RaceSpec => [](IInv /\ RacerInv))
<1> SUFFICES ASSUME "https" \in Schemes
             PROVE  RaceSpec => [](IInv /\ RacerInv)
  OBVIOUS
<1>1. RaceSpec => []IInv
  BY RacingIsRoundTripping, Invariance, PTL
<1>2. RaceInit => RacerInv
  BY DEF RaceInit, RacerInv, RaceTypes, AllChannelsFit, ChannelFits,
     AllLegsOwned, LegIsOwned, Silent, CallStates, RaceStates
<1>3. IInv /\ RacerInv /\ [RaceNext]_allVars => RacerInv'
  BY RaceTypesStep, ChannelStep, OwnedStep DEF RacerInv, IInv
<1> QED
  BY <1>1, <1>2, <1>3, PTL DEF RaceSpec

\* A racing client has the types RaceTypeOK states: in particular a race has at
\* most two results, so that no leg blocks on its channel, which has room for
\* two, and a leg that lost ends.
THEOREM RacesAreBounded == "https" \in Schemes => (RaceSpec => []RaceTypeOK)
<1> SUFFICES ASSUME "https" \in Schemes PROVE RaceSpec => []RaceTypeOK
  OBVIOUS
<1>1. RacerInv => RaceTypeOK
  <2> SUFFICES ASSUME RacerInv, NEW c \in Calls PROVE Len(resultCh[c]) <= 2
    BY DEF RacerInv, RaceTypes, RaceTypeOK
  <2> DEFINE s == resultCh[c]
  <2>1. /\ s \in Seq(Results)
        /\ \A i, j \in DOMAIN s : s[i].protocol = s[j].protocol => i = j
    BY DEF RacerInv, RaceTypes, AllChannelsFit, ChannelFits
  <2> HIDE DEF s
  <2>2. \A i \in DOMAIN s : s[i] \in Results
    BY <2>1
  <2>3. \A i \in DOMAIN s : s[i].protocol \in {"h3", "h2"}
    BY <2>2 DEF Results
  <2>4. ASSUME Len(s) > 2 PROVE FALSE
    <3>1. 1 \in DOMAIN s /\ 2 \in DOMAIN s /\ 3 \in DOMAIN s
      BY <2>1, <2>4
    <3> QED
      BY <2>1, <2>3, <3>1
  <2> QED
    BY <2>1, <2>4 DEF s
<1> QED
  BY <1>1, RacerInvariance, PTL

-----------------------------------------------------------------------------
(* One request at a time *)

OneAtATime == \A q, r \in Requests : q = r

\* With one leg the cache changes by its hand alone.
LegIsAlone ==
  \A r \in Requests :
    /\ pc[r] # "done" => scheme[r] = "https"
    /\ pc[r] \in {"send", "changed"} \cup DialStates =>
         cachedTransports[addr[r]] = tr[r]
    /\ pc[r] \in {"dropKind", "closeIdle"} => cachedTransports[addr[r]] = None

AloneInv == LegIsAlone /\ KindRecorded

\* With one leg at a time, every step keeps the cache in step with where the leg
\* is, and the recorded kind in step with the cache.
LEMMA AloneStep ==
  OneAtATime /\ IInv /\ AloneInv /\ [HttpsNext]_vars => AloneInv'
<1> SUFFICES ASSUME OneAtATime, IInv, AloneInv, [HttpsNext]_vars PROVE AloneInv'
  OBVIOUS
<1> USE RoundTripperAssumption, KindsAgree
    DEF OneAtATime, AloneInv, LegIsAlone, KindRecorded, IInv, TypeOK,
        DialStates, vars, cacheVars, lockVars, requestVars
<1>1. ASSUME NEW r \in Requests, NEW a \in Addrs, Start(r, a, "https")
      PROVE  AloneInv'
  BY <1>1 DEF Start, Goto
<1>2. ASSUME NEW r \in Requests, RoundTripHit(r)
      PROVE  AloneInv'
  BY <1>2 DEF RoundTripHit, Goto
<1>3. ASSUME NEW r \in Requests, NEW t \in Transports,
             GetTransportHttp(r, t)
      PROVE  AloneInv'
  BY <1>3 DEF GetTransportHttp, Goto
<1>4. ASSUME NEW r \in Requests, GetTransportInvalid(r)
      PROVE  AloneInv'
  BY <1>4 DEF GetTransportInvalid, Return
<1>5. ASSUME NEW r \in Requests, GetTransportHttps(r)
      PROVE  AloneInv'
  BY <1>5 DEF GetTransportHttps, Goto
<1>6. ASSUME NEW r \in Requests, SetupLock(r)
      PROVE  AloneInv'
  BY <1>6 DEF SetupLock, Goto
<1>7. ASSUME NEW r \in Requests, SetupFails(r)
      PROVE  AloneInv'
  BY <1>7 DEF SetupFails, Return
<1>8. ASSUME NEW r \in Requests, SetupBadPin(r)
      PROVE  AloneInv'
  BY <1>8 DEF SetupBadPin, Goto
<1>9. ASSUME NEW r \in Requests, ReportBadPin(r)
      PROVE  AloneInv'
  BY <1>9 DEF ReportBadPin, Return
<1>10. ASSUME NEW r \in Requests, NEW t \in Transports, SetupBuilds(r, t)
      PROVE  AloneInv'
  BY <1>10 DEF SetupBuilds, Goto
<1>11. ASSUME NEW r \in Requests, SendWithoutDialTLS(r)
      PROVE  AloneInv'
  BY <1>11 DEF SendWithoutDialTLS, Return
<1>12. ASSUME NEW r \in Requests, SendDials(r)
      PROVE  AloneInv'
  BY <1>12 DEF SendDials, Goto
<1>13. ASSUME NEW r \in Requests, StopWaiting(r)
      PROVE  AloneInv'
  BY <1>13 DEF StopWaiting
<1>14. ASSUME NEW r \in Requests, Exchange(r)
      PROVE  AloneInv'
  BY <1>14 DEF Exchange, Return
<1>15. ASSUME NEW r \in Requests, DialTakesStash(r)
      PROVE  AloneInv'
  BY <1>15 DEF DialTakesStash, Goto
<1>16. ASSUME NEW r \in Requests, DialLock(r)
      PROVE  AloneInv'
  BY <1>16 DEF DialLock, Goto
<1>17. ASSUME NEW r \in Requests, DialFails(r)
      PROVE  AloneInv'
  BY <1>17 DEF DialFails, Return
<1>18. ASSUME NEW r \in Requests, DialKeepsKind(r)
      PROVE  AloneInv'
  BY <1>18 DEF DialKeepsKind, Goto
<1>19. ASSUME NEW r \in Requests, DialProtocolChanged(r)
      PROVE  AloneInv'
  BY <1>19 DEF DialProtocolChanged, Return, Goto
<1>20. ASSUME NEW r \in Requests, DropTransport(r)
      PROVE  AloneInv'
  BY <1>20 DEF DropTransport, Goto
<1>21. ASSUME NEW r \in Requests, DropKind(r)
      PROVE  AloneInv'
  BY <1>21 DEF DropKind, Goto
<1>22. ASSUME NEW r \in Requests, DropCloseIdle(r)
      PROVE  AloneInv'
  BY <1>22 DEF DropCloseIdle, Return
<1>23. CASE Environment
  BY <1>23 DEF Environment, CloseIdleConnections, ConnectionsDie, ServerChanges
<1>24. CASE UNCHANGED vars
  BY <1>24
<1> QED
  BY <1>1, <1>2, <1>3, <1>4, <1>5, <1>6, <1>7, <1>8, <1>9, <1>10, <1>11,
     <1>12, <1>13, <1>14, <1>15, <1>16, <1>17, <1>18, <1>19, <1>20, <1>21,
     <1>22, <1>23, <1>24
  DEF HttpsNext, Request, LookUp, SetupEnds, Send, DialBegins, DialEnds, Drop

\* With https requests one at a time a cached transport always has its kind
\* recorded, as the comment on cachedKinds says: what erases the kind of a
\* rebuilt transport takes the late drop of a second request.
THEOREM KindsStayRecorded ==
  OneAtATime /\ HttpsOnly => (Spec => []KindRecorded)
<1> SUFFICES ASSUME OneAtATime, HttpsOnly PROVE Spec => []KindRecorded
  OBVIOUS
<1>1. Init => AloneInv
  BY DEF Init, AloneInv, LegIsAlone, KindRecorded, DialStates
<1>2. [Next]_vars => [HttpsNext]_vars
  BY DEF Next, HttpsNext, HttpsOnly
<1>3. IInv /\ AloneInv /\ [Next]_vars => AloneInv'
  BY <1>2, AloneStep
<1>4. AloneInv => KindRecorded
  BY DEF AloneInv
<1> QED
  BY Invariance, <1>1, <1>3, <1>4, PTL DEF Spec

-----------------------------------------------------------------------------
(* A call that runs into a protocol change, with any number of legs *)

\* What is cached for a is what its server speaks, is recorded as such, and no
\* request is about to drop it.
UpToDate(a) ==
  cachedTransports[a] # None =>
    /\ cachedKinds[a] = kindForProtocol(server[a])
    /\ cachedTransports[a].kind = kindForProtocol(server[a])
    /\ \A q \in Requests :
         pc[q] = "changed" /\ addr[q] = a => tr[q] # cachedTransports[a]

\* An attempt with the remembered protocol whose transport is gone from the
\* cache, be it by another leg's drop or by its own, leaves behind none, or one
\* that is up to date.
AttemptWell(r) ==
  \/ /\ pc[r] \in {"send", "changed"} \cup DialStates
     /\ cachedTransports[addr[r]] # tr[r]
  \/ pc[r] \in {"dropKind", "closeIdle"}
  => UpToDate(addr[r])

\* A leg that is about to look up or build a transport, or sends on the one that
\* is cached.
LegWell(r) ==
  \/ pc[r] \in {"roundTrip"} \cup SetupStates
  \/ /\ pc[r] \in {"send"} \cup DialStates
     /\ tr[r] = cachedTransports[addr[r]]

\* No step that leaves the servers alone replaces an up-to-date transport, or a
\* missing one, by one that is not, except for erasing its kind.
LEMMA StaysUpToDate ==
  ASSUME HttpsOnly, IInv, NEW r \in Requests, Request(r), NEW a \in Addrs,
         UpToDate(a), ~(ErasesKind(r) /\ addr[r] = a)
  PROVE  UpToDate(a)'
<1> USE RoundTripperAssumption
    DEF HttpsOnly, IInv, TypeOK, cacheVars, Goto, Return
<1>1. server' = server /\ addr' = addr
  BY RequestMovesItself
<1>2. ASSUME UNCHANGED <<cachedTransports, cachedKinds>>,
             pc'[r] # "changed", \A q \in Requests \ {r} : tr'[q] = tr[q]
      PROVE  UpToDate(a)'
  BY <1>1, <1>2, RequestMovesItself DEF UpToDate
<1>3. CASE LookUp(r)
  BY <1>2, <1>3 DEF LookUp, RoundTripHit, GetTransportHttp,
     GetTransportInvalid, GetTransportHttps
<1>4. ASSUME NEW t \in Transports, SetupBuilds(r, t)
      PROVE  UpToDate(a)'
  <2>1. CASE addr[r] = a
    <3>1. /\ cachedTransports'[a] = t /\ t.kind = kindForProtocol(server[a])
          /\ cachedKinds'[a] = kindForProtocol(server[a])
      BY <1>4, <2>1, KindsAgree DEF SetupBuilds
    <3>2. \A q \in Requests : pc'[q] = "changed" => tr'[q] # t
      BY <1>4 DEF SetupBuilds, Fresh
    <3> QED
      BY <1>1, <3>1, <3>2 DEF UpToDate
  <2>2. CASE addr[r] # a
    <3>1. /\ cachedTransports'[a] = cachedTransports[a]
          /\ cachedKinds'[a] = cachedKinds[a]
      BY <1>4, <2>2 DEF SetupBuilds
    <3>2. \A q \in Requests : pc'[q] = "changed" => pc[q] = "changed"
                                                   /\ tr'[q] = tr[q]
      BY <1>4 DEF SetupBuilds
    <3> QED
      BY <1>1, <3>1, <3>2 DEF UpToDate
  <2> QED
    BY <2>1, <2>2
<1>5. CASE DropTransport(r)
  <2>1. /\ cachedTransports'[a] \in {cachedTransports[a], None}
        /\ cachedKinds' = cachedKinds /\ tr' = tr
        /\ \A q \in Requests : pc'[q] = "changed" => pc[q] = "changed"
    BY <1>5 DEF DropTransport
  <2> QED
    BY <1>1, <2>1 DEF UpToDate
<1>6. CASE DialProtocolChanged(r)
  <2>1. /\ UNCHANGED <<cachedTransports, cachedKinds>> /\ pc[r] = "handshake"
        /\ cachedKinds[addr[r]] # kindForProtocol(server[addr[r]])
        /\ \A q \in Requests \ {r} : tr'[q] = tr[q]
    BY <1>6 DEF DialProtocolChanged
  <2>2. CASE addr[r] = a
    <3>1. cachedTransports[a] = None
      BY <2>1, <2>2 DEF UpToDate
    <3> QED
      BY <2>1, <3>1 DEF UpToDate
  <2>3. CASE addr[r] # a
    BY <1>1, <2>1, <2>3, RequestMovesItself DEF UpToDate
  <2> QED
    BY <2>2, <2>3
<1>7. CASE DropKind(r)
  <2>1. /\ cachedTransports' = cachedTransports /\ tr' = tr
        /\ cachedKinds' = [cachedKinds EXCEPT ![addr[r]] = None]
        /\ pc[r] = "dropKind" /\ pc'[r] # "changed"
    BY <1>7 DEF DropKind
  <2>2. CASE addr[r] = a
    <3>1. cachedTransports[a] = None
      BY <2>1, <2>2 DEF ErasesKind
    <3> QED
      BY <2>1, <3>1 DEF UpToDate
  <2>3. CASE addr[r] # a
    BY <1>1, <2>1, <2>3, RequestMovesItself DEF UpToDate
  <2> QED
    BY <2>2, <2>3
<1>8. CASE \/ SetupLock(r) \/ SetupFails(r) \/ SetupBadPin(r) \/ ReportBadPin(r)
           \/ Send(r) \/ Exchange(r)
  BY <1>2, <1>8 DEF SetupLock, SetupFails, SetupBadPin, ReportBadPin, Send,
     SendWithoutDialTLS, SendDials, Exchange
<1>9. CASE StopWaiting(r)
  BY <1>2, <1>9 DEF StopWaiting, DialStates
<1>10. CASE \/ DialBegins(r) \/ DialFails(r) \/ DialKeepsKind(r)
            \/ DropCloseIdle(r)
  BY <1>2, <1>10 DEF DialBegins, DialTakesStash, DialLock, DialFails,
     DialKeepsKind, DropCloseIdle
<1> QED
  BY <1>3, <1>4, <1>5, <1>6, <1>7, <1>8, <1>9, <1>10
  DEF Request, SetupEnds, DialEnds, Drop

\* What a request does to the entry of an address: it leaves it alone, fills it
\* when there is none, or removes the transport that it holds and drops.
LEMMA EntryMoves ==
  ASSUME HttpsOnly, IInv, NEW r \in Requests, Request(r), NEW a \in Addrs
  PROVE  \/ cachedTransports'[a] = cachedTransports[a]
         \/ cachedTransports[a] = None
         \/ /\ cachedTransports'[a] = None
            /\ pc[r] = "changed" /\ addr[r] = a /\ tr[r] = cachedTransports[a]
<1> USE RoundTripperAssumption
    DEF HttpsOnly, IInv, TypeOK, cacheVars, Goto, Return
<1>1. CASE LookUp(r)
  BY <1>1 DEF LookUp, RoundTripHit, GetTransportHttp, GetTransportInvalid,
     GetTransportHttps
<1>2. ASSUME NEW t \in Transports, SetupBuilds(r, t)
      PROVE  \/ cachedTransports'[a] = cachedTransports[a]
             \/ cachedTransports[a] = None
  BY <1>2 DEF SetupBuilds, CacheInv, SetupIsFirst, SetupStates
<1>3. CASE DropTransport(r)
  BY <1>3 DEF DropTransport
<1>4. CASE \/ SetupLock(r) \/ SetupFails(r) \/ SetupBadPin(r) \/ ReportBadPin(r)
           \/ Send(r) \/ Exchange(r) \/ StopWaiting(r)
  BY <1>4 DEF SetupLock, SetupFails, SetupBadPin, ReportBadPin, Send,
     SendWithoutDialTLS, SendDials, Exchange, StopWaiting
<1>5. CASE DialBegins(r) \/ DialEnds(r) \/ DropKind(r) \/ DropCloseIdle(r)
  BY <1>5 DEF DialBegins, DialTakesStash, DialLock, DialEnds, DialFails,
     DialKeepsKind, DialProtocolChanged, DropKind, DropCloseIdle
<1> QED
  BY <1>1, <1>2, <1>3, <1>4, <1>5 DEF Request, SetupEnds, Drop

\* Requests keep the transport they hold whatever others do.
LEMMA OthersKeepTransport ==
  ASSUME TypeOK, NEW r \in Requests, Request(r), NEW q \in Requests \ {r}
  PROVE  tr'[q] = tr[q]
<1> USE DEF TypeOK, Goto, Return
<1>1. CASE LookUp(r)
  BY <1>1 DEF LookUp, RoundTripHit, GetTransportHttp, GetTransportInvalid,
     GetTransportHttps
<1>2. CASE SetupLock(r) \/ SetupEnds(r) \/ ReportBadPin(r)
  BY <1>2 DEF SetupLock, SetupEnds, SetupFails, SetupBadPin, SetupBuilds,
     ReportBadPin
<1>3. CASE Send(r) \/ StopWaiting(r) \/ Exchange(r)
  BY <1>3 DEF Send, SendWithoutDialTLS, SendDials, StopWaiting, Exchange
<1>4. CASE DialBegins(r) \/ DialEnds(r)
  BY <1>4 DEF DialBegins, DialTakesStash, DialLock, DialEnds, DialFails,
     DialKeepsKind, DialProtocolChanged
<1>5. CASE Drop(r)
  BY <1>5 DEF Drop, DropTransport, DropKind, DropCloseIdle
<1> QED
  BY <1>1, <1>2, <1>3, <1>4, <1>5 DEF Request

\* Another leg's step leaves an attempt and a leg well: it removes the attempt's
\* transport only together with what makes that matter, and never one that is
\* up to date.
LEMMA OthersKeepWell ==
  ASSUME HttpsOnly, IInv, NEW q \in Requests, Request(q),
         NEW r \in Requests \ {q}, ~(ErasesKind(q) /\ addr[q] = addr[r])
  PROVE  /\ AttemptWell(r) => AttemptWell(r)'
         /\ LegWell(r) /\ UpToDate(addr[r]) => LegWell(r)'
<1>1. /\ addr' = addr /\ pc'[r] = pc[r] /\ tr'[r] = tr[r] /\ addr[r] \in Addrs
  BY RequestMovesItself, OthersKeepTransport DEF IInv, TypeOK
<1>2. UpToDate(addr[r]) => UpToDate(addr[r])'
  BY <1>1, StaysUpToDate DEF UpToDate
<1>3. \/ cachedTransports'[addr[r]] = cachedTransports[addr[r]]
      \/ cachedTransports[addr[r]] = None
      \/ /\ cachedTransports'[addr[r]] = None
         /\ pc[q] = "changed" /\ addr[q] = addr[r]
         /\ tr[q] = cachedTransports[addr[r]]
  BY <1>1, EntryMoves
<1>4. pc[r] \in {"send", "changed"} \cup DialStates => tr[r] # None
  BY DEF IInv, HoldsTransport, HoldingStates
<1>5. cachedTransports'[addr[r]] = None => UpToDate(addr[r])'
  BY <1>1 DEF UpToDate
<1>6. ASSUME AttemptWell(r) PROVE AttemptWell(r)'
  BY <1>1, <1>2, <1>3, <1>4, <1>5, <1>6 DEF AttemptWell
<1>7. ASSUME LegWell(r), UpToDate(addr[r]) PROVE LegWell(r)'
  <2>1. CASE pc[r] \in {"roundTrip"} \cup SetupStates
    BY <1>1, <2>1 DEF LegWell
  <2>2. CASE pc[r] \in {"send"} \cup DialStates
             /\ tr[r] = cachedTransports[addr[r]]
    <3>1. cachedTransports[addr[r]] # None
      BY <1>4, <2>2
    <3>2. ~(pc[q] = "changed" /\ addr[q] = addr[r]
              /\ tr[q] = cachedTransports[addr[r]])
      BY <1>7, <3>1 DEF UpToDate
    <3> QED
      BY <1>1, <1>3, <2>2, <3>1, <3>2 DEF LegWell
  <2> QED
    BY <1>7, <2>1, <2>2 DEF LegWell
<1> QED
  BY <1>6, <1>7

\* A leg that the network does not fail goes on well.  An attempt that ends with
\* an error has left behind no transport, or one that is up to date; a leg on an
\* up-to-date transport does not end with an error.
LEMMA LegGoesOn ==
  ASSUME HttpsOnly, IInv, FitsInv, NEW r \in Requests, LegContinues(r),
         waiting[r], ~ErasesKind(r)
  PROVE  /\ AttemptWell(r) =>
              IF waiting'[r] THEN AttemptWell(r)' ELSE UpToDate(addr[r])'
         /\ LegWell(r) /\ UpToDate(addr[r]) => waiting'[r] /\ LegWell(r)'
<1> USE RoundTripperAssumption
    DEF HttpsOnly, IInv, TypeOK, DialStates, SetupStates, Goto, Return,
        cacheVars
<1>1. Request(r)
  BY DEF LegContinues, LegDrops, Request, SetupEnds, Send, DialEnds
<1>2. addr' = addr /\ addr[r] \in Addrs
  BY <1>1, RequestMovesItself
<1>3. UpToDate(addr[r]) => UpToDate(addr[r])'
  BY <1>1, <1>2, StaysUpToDate DEF UpToDate
<1>4. cachedTransports'[addr[r]] = None => UpToDate(addr[r])'
  BY <1>2 DEF UpToDate
<1>5. ASSUME waiting'[r], pc'[r] \in {"setup", "setupHandshake"}
      PROVE  AttemptWell(r)' /\ LegWell(r)'
  BY <1>5 DEF AttemptWell, LegWell
<1>6. ASSUME waiting'[r], pc'[r] = "send",
             tr'[r] = cachedTransports'[addr[r]]
      PROVE  AttemptWell(r)' /\ LegWell(r)'
  BY <1>2, <1>6 DEF AttemptWell, LegWell
<1>7. CASE LookUp(r)
  <2>1. waiting' = waiting
    BY <1>7 DEF LookUp, RoundTripHit, GetTransportHttp, GetTransportInvalid,
       GetTransportHttps
  <2>2. \/ pc'[r] = "setup"
        \/ pc'[r] = "send" /\ tr'[r] = cachedTransports'[addr[r]]
    BY <1>7 DEF LookUp, RoundTripHit, GetTransportHttp, GetTransportInvalid,
       GetTransportHttps
  <2> QED
    BY <1>5, <1>6, <2>1, <2>2
<1>8. CASE SetupLock(r)
  <2>1. cachedConnections[addr[r]] = None
    BY <1>8 DEF SetupLock, CacheInv, SetupIsFirst, StashFits
  <2>2. waiting' = waiting /\ pc'[r] = "setupHandshake"
    BY <1>8, <2>1 DEF SetupLock
  <2> QED
    BY <1>5, <2>2
<1>9. ASSUME NEW t \in Transports, SetupBuilds(r, t)
      PROVE  waiting'[r] /\ AttemptWell(r)' /\ LegWell(r)'
  <2>1. /\ waiting' = waiting /\ pc'[r] = "send"
        /\ tr'[r] = cachedTransports'[addr[r]]
    BY <1>9 DEF SetupBuilds
  <2> QED
    BY <1>6, <2>1
<1>10. CASE SendDials(r) \/ DialBegins(r) \/ DialKeepsKind(r)
  <2>1. /\ UNCHANGED <<waiting, tr, cachedTransports>>
        /\ pc[r] \in {"send"} \cup DialStates /\ pc'[r] \in DialStates
    BY <1>10 DEF SendDials, DialBegins, DialTakesStash, DialLock, DialKeepsKind
  <2> QED
    BY <1>2, <1>3, <2>1 DEF AttemptWell, LegWell
<1>11. CASE DialProtocolChanged(r)
  <2>1. /\ UNCHANGED <<waiting, tr, cachedTransports>>
        /\ pc[r] = "handshake" /\ pc'[r] = "changed"
        /\ cachedKinds[addr[r]] # kindForProtocol(server[addr[r]])
    BY <1>11 DEF DialProtocolChanged
  <2>2. tr[r] # None
    BY <2>1 DEF HoldsTransport, HoldingStates
  <2>3. ~(LegWell(r) /\ UpToDate(addr[r]))
    BY <2>1, <2>2 DEF LegWell, UpToDate
  <2>4. AttemptWell(r) => AttemptWell(r)'
    BY <1>2, <1>3, <2>1 DEF AttemptWell
  <2> QED
    BY <2>1, <2>3, <2>4
<1>12. CASE DropTransport(r)
  <2>1. /\ waiting' = waiting /\ pc[r] = "changed" /\ pc'[r] = "dropKind"
        /\ cachedTransports[addr[r]] = tr[r] =>
             cachedTransports'[addr[r]] = None
    BY <1>12 DEF DropTransport
  <2>2. AttemptWell(r) => UpToDate(addr[r])'
    BY <1>3, <1>4, <2>1 DEF AttemptWell
  <2> QED
    BY <1>2, <2>1, <2>2 DEF AttemptWell, LegWell
<1>13. CASE DropKind(r)
  <2>1. /\ waiting' = waiting /\ pc[r] = "dropKind" /\ pc'[r] = "closeIdle"
    BY <1>13 DEF DropKind
  <2> QED
    BY <1>2, <1>3, <2>1 DEF AttemptWell, LegWell
<1>14. CASE DropCloseIdle(r)
  <2>1. /\ ~waiting'[r] /\ pc[r] = "closeIdle"
    BY <1>14 DEF DropCloseIdle
  <2> QED
    BY <1>3, <2>1 DEF AttemptWell, LegWell
<1>15. CASE Exchange(r) /\ ~Fits(r)
  <2>1. ~waiting'[r] /\ pc[r] = "exchange"
    BY <1>15 DEF Exchange
  <2>2. cachedTransports[addr[r]] # tr[r]
    BY <1>15, <2>1 DEF FitsInv, CachedTransportFits
  <2> QED
    BY <1>3, <2>1, <2>2 DEF AttemptWell, LegWell
<1> QED
  BY <1>7, <1>8, <1>9, <1>10, <1>11, <1>12, <1>13, <1>14, <1>15
  DEF LegContinues, LegDrops, Drop

\* A call whose attempt has failed, although nothing disturbed it and no kind
\* was erased, finds no transport or one that is up to date: its leg does not
\* meet the change again, so only the HTTP/3 leg can fail, which it does once.
StillWell(c) ==
  tried[c] = "h2" /\ ~disturbed[c] /\ ~erased[c] =>
    /\ result[c] # "error"
    /\ callPc[c] # "cachedHttp3"
    /\ \A a \in Addrs :
         callAddr[c] = a /\ callPc[c] \in {"clear", "startRace"} \cup RaceStates
           => UpToDate(a)
    /\ \A r \in Requests : leg[c] = r =>
         /\ callPc[c] = "cachedHttp2" => AttemptWell(r)
         /\ callPc[c] \in RaceStates => LegWell(r)
    /\ \A i \in DOMAIN resultCh[c] :
         resultCh[c][i].protocol = "h2" => resultCh[c][i].ok
    /\ received[c] = 1 => ~http3Leg[c] /\ Silent(resultCh[c], "h3")

AllStillWell == \A c \in Calls : StillWell(c)

\* A call that does not move stays well while what is cached for it stays up to
\* date and its leg stays well.
LEMMA WellFrame ==
  ASSUME NEW d \in Calls, StillWell(d),
         callPc'[d] = callPc[d], callAddr'[d] = callAddr[d],
         tried'[d] = tried[d], result'[d] = result[d], leg'[d] = leg[d],
         http3Leg'[d] = http3Leg[d], resultCh'[d] = resultCh[d],
         received'[d] = received[d],
         disturbed[d] => disturbed'[d], erased[d] => erased'[d],
         \A a \in Addrs : callAddr[d] = a /\ ~disturbed'[d] /\ ~erased'[d]
           /\ UpToDate(a) => UpToDate(a)',
         \A r \in Requests : leg[d] = r /\ ~disturbed'[d] /\ ~erased'[d] =>
           /\ AttemptWell(r) => AttemptWell(r)'
           /\ callPc[d] \in RaceStates /\ LegWell(r)
                /\ (\A a \in Addrs : callAddr[d] = a => UpToDate(a))
              => LegWell(r)'
  PROVE  StillWell(d)'
BY DEF StillWell, Silent

\* Every step keeps undisturbed calls well.
LEMMA WellStep ==
  HttpsOnly /\ IInv /\ FitsInv /\ RacerInv /\ AllStillWell
    /\ [RaceNext]_allVars => AllStillWell'
<1> SUFFICES ASSUME HttpsOnly, IInv, FitsInv, RacerInv, AllStillWell,
                    [RaceNext]_allVars, NEW d \in Calls
             PROVE  StillWell(d)'
  BY DEF AllStillWell
<1> USE DEF CallGoto, cachesVars, raceVars, callVars, historyVars
<1>1. StillWell(d) /\ ChannelFits(d) /\ LegIsOwned(d) /\ RaceTypes /\ TypeOK
  BY DEF AllStillWell, RacerInv, AllChannelsFit, AllLegsOwned, IInv
<1>2. /\ DOMAIN callPc = Calls /\ DOMAIN leg = Calls /\ DOMAIN http3Leg = Calls
      /\ DOMAIN resultCh = Calls /\ DOMAIN received = Calls
      /\ DOMAIN callAddr = Calls /\ DOMAIN tried = Calls
      /\ DOMAIN result = Calls /\ DOMAIN disturbed = Calls
      /\ DOMAIN erased = Calls
  BY <1>1 DEF RaceTypes
<1>3. ASSUME UNCHANGED vars
      PROVE  /\ \A a \in Addrs : UpToDate(a) => UpToDate(a)'
             /\ \A r \in Requests :
                  /\ AttemptWell(r) => AttemptWell(r)'
                  /\ LegWell(r) => LegWell(r)'
  BY <1>3 DEF vars, cacheVars, requestVars, UpToDate, AttemptWell, LegWell
<1>4. ASSUME NEW c \in Calls, NEW a \in Addrs, Call(c, a)
      PROVE  StillWell(d)'
  <2>1. CASE c = d
    <3>1. resultCh'[d] = << >> /\ received'[d] = 0 /\ result'[d] = None
          /\ callPc'[d] = "tryCached"
      BY <1>1, <1>2, <1>4, <2>1 DEF Call, ChannelFits, RaceStates
    <3> QED
      BY <3>1, RacerAssumption DEF StillWell, RaceStates, Outcomes
  <2>2. CASE c # d
    BY <1>1, <1>2, <1>3, <1>4, <2>2, WellFrame DEF Call, RaceTypes
  <2> QED
    BY <2>1, <2>2
<1>5. ASSUME NEW c \in Calls, NEW o \in {"ok", "timeout"}, CallReturns(c, o),
             UNCHANGED <<vars, callAddr, tried, historyVars>>
      PROVE  StillWell(d)'
  <2>1. CASE c = d
    <3>1. /\ resultCh'[d] = << >> /\ received'[d] = 0 /\ result'[d] = o
          /\ callPc'[d] = "returned"
      BY <1>2, <1>5, <2>1 DEF CallReturns
    <3> QED
      BY <3>1 DEF StillWell, RaceStates
  <2>2. CASE c # d
    BY <1>1, <1>2, <1>3, <1>5, <2>2, WellFrame DEF CallReturns, RaceTypes
  <2> QED
    BY <2>1, <2>2
<1>6. ASSUME NEW c \in Calls,
             NoCachedProtocol(c) \/ UseCachedHttp3(c) \/ CreateHttp3Fails(c)
      PROVE  StillWell(d)'
  <2>1. /\ UNCHANGED <<vars, raceVars, callAddr, tried, result, historyVars>>
        /\ tried[c] # "h2"
        /\ \E s : callPc' = [callPc EXCEPT ![c] = s]
    BY <1>6, RoundTripperAssumption
    DEF NoCachedProtocol, UseCachedHttp3, CreateHttp3Fails, AllProtocols
  <2>2. CASE c = d
    BY <2>1, <2>2 DEF StillWell
  <2>3. CASE c # d
    BY <1>1, <1>2, <1>3, <2>1, <2>3, WellFrame DEF RaceTypes
  <2> QED
    BY <2>2, <2>3
<1>7. ASSUME NEW c \in Calls, CachedHttp3Fails(c) \/ ClearProtocolCache(c)
      PROVE  StillWell(d)'
  <2>1. /\ UNCHANGED <<vars, raceVars, callAddr, tried, result, historyVars>>
        /\ callPc[c] \in {"cachedHttp3", "clear"}
        /\ \E s \in {"clear", "startRace"} : callPc' = [callPc EXCEPT ![c] = s]
    BY <1>7 DEF CachedHttp3Fails, ClearProtocolCache
  <2>2. CASE c = d
    <3>1. callPc'[d] \in {"clear", "startRace"}
      BY <1>2, <2>1, <2>2
    <3>2. leg[d] = None
      BY <1>1, <2>1, <2>2 DEF ChannelFits, RaceStates
    <3> QED
      BY <1>1, <1>3, <2>1, <2>2, <3>1, <3>2, RoundTripperAssumption
      DEF StillWell, RaceStates, Silent
  <2>3. CASE c # d
    BY <1>1, <1>2, <1>3, <2>1, <2>3, WellFrame DEF RaceTypes
  <2> QED
    BY <2>2, <2>3
<1>8. ASSUME NEW c \in Calls, NEW r \in Requests,
             UseCachedHttp2(c, r) \/ StartRace(c, r)
      PROVE  StillWell(d)'
  <2>1. /\ UNCHANGED <<resultCh, received, callAddr, tried, result,
                       historyVars>>
        /\ leg' = [leg EXCEPT ![c] = r] /\ \A b \in Calls : leg[b] # r
        /\ UNCHANGED <<cachedTransports, cachedKinds, server, tr>>
        /\ pc' = [pc EXCEPT ![r] = "roundTrip"]
        /\ addr' = [addr EXCEPT ![r] = callAddr[c]]
    BY <1>8 DEF UseCachedHttp2, StartRace, StartLeg, Start, Goto, Unowned,
       cacheVars
  <2>2. /\ pc'[r] = "roundTrip"
        /\ \A q \in Requests \ {r} : pc'[q] = pc[q] /\ addr'[q] = addr[q]
    BY <1>1, <2>1 DEF TypeOK
  <2>3. \A a \in Addrs : UpToDate(a) => UpToDate(a)'
    BY <2>1, <2>2 DEF UpToDate
  <2>4. \A q \in Requests \ {r} :
          /\ AttemptWell(q) => AttemptWell(q)'
          /\ LegWell(q) => LegWell(q)'
    BY <1>1, <2>1, <2>2, <2>3 DEF AttemptWell, LegWell, UpToDate, TypeOK
  <2>5. AttemptWell(r)' /\ LegWell(r)'
    BY <2>2 DEF AttemptWell, LegWell, DialStates
  <2>6. CASE c = d
    <3>1. callPc[d] \in {"tryCached", "startRace"}
          /\ (\/ callPc'[d] = "cachedHttp2"
              \/ callPc[d] = "startRace" /\ callPc'[d] = "waiting")
      BY <1>2, <1>8, <2>6 DEF UseCachedHttp2, StartRace
    <3>2. resultCh'[d] = << >> /\ received'[d] = 0 /\ leg'[d] = r
      BY <1>1, <1>2, <2>1, <2>6, <3>1 DEF ChannelFits, RaceStates
    <3> QED
      BY <1>1, <2>1, <2>3, <2>5, <3>1, <3>2 DEF StillWell, RaceStates
  <2>7. CASE c # d
    <3>1. callPc'[d] = callPc[d] /\ http3Leg'[d] = http3Leg[d]
      BY <1>2, <1>8, <2>7 DEF UseCachedHttp2, StartRace
    <3>2. leg[d] # r /\ leg'[d] = leg[d]
      BY <1>2, <2>1, <2>7
    <3>3. \A q \in Requests : leg[d] = q =>
            /\ AttemptWell(q) => AttemptWell(q)'
            /\ LegWell(q) => LegWell(q)'
      BY <2>4, <3>2
    <3>4. /\ callAddr'[d] = callAddr[d] /\ tried'[d] = tried[d]
          /\ result'[d] = result[d] /\ resultCh'[d] = resultCh[d]
          /\ received'[d] = received[d] /\ disturbed'[d] = disturbed[d]
          /\ erased'[d] = erased[d]
      BY <2>1
    <3> QED
      BY <1>1, <2>3, <3>1, <3>2, <3>3, <3>4, WellFrame
  <2> QED
    BY <2>6, <2>7
<1>9. ASSUME NEW c \in Calls, NEW ok \in BOOLEAN, Http3LegEnds(c, ok)
      PROVE  StillWell(d)'
  <2>1. /\ http3Leg[c]
        /\ resultCh' = [resultCh EXCEPT
                          ![c] = Append(@, [protocol |-> "h3", ok |-> ok])]
        /\ http3Leg' = [http3Leg EXCEPT ![c] = FALSE]
        /\ UNCHANGED <<vars, leg, received, callVars, historyVars>>
    BY <1>9 DEF Http3LegEnds, SendResult
  <2>2. CASE c = d
    <3>1. \/ received[d] # 1
          \/ ~(tried[d] = "h2" /\ ~disturbed[d] /\ ~erased[d])
      BY <1>1, <2>1, <2>2 DEF RaceTypes, StillWell
    <3>2. resultCh'[d] = Append(resultCh[d], [protocol |-> "h3", ok |-> ok])
      BY <1>2, <2>1, <2>2
    <3>3. \A i \in DOMAIN resultCh'[d] :
            \/ i \in DOMAIN resultCh[d] /\ resultCh'[d][i] = resultCh[d][i]
            \/ resultCh'[d][i].protocol = "h3"
      <4>1. resultCh[d] \in Seq(Results)
        BY <1>1 DEF RaceTypes
      <4> QED
        BY <3>2, <4>1
    <3>4. \A i \in DOMAIN resultCh'[d] :
            \/ ~(tried[d] = "h2" /\ ~disturbed[d] /\ ~erased[d])
            \/ resultCh'[d][i].protocol = "h2" => resultCh'[d][i].ok
      BY <1>1, <3>3 DEF StillWell
    <3>5. callAddr[d] \in Addrs
      BY <1>1 DEF RaceTypes
    <3> QED
      BY <1>1, <1>3, <2>1, <3>1, <3>4, <3>5 DEF StillWell
  <2>3. CASE c # d
    BY <1>1, <1>2, <1>3, <2>1, <2>3, WellFrame DEF RaceTypes
  <2> QED
    BY <2>2, <2>3
<1>10. ASSUME NEW c \in Calls, TakeResult(c)
      PROVE  StillWell(d)'
  <2>1. /\ callPc[c] = "waiting" /\ resultCh[c] # << >>
        /\ UNCHANGED <<vars, callAddr, tried, historyVars>>
    BY <1>10 DEF TakeResult
  <2>2. CASE c # d
    <3>1. /\ callPc'[d] = callPc[d] /\ leg'[d] = leg[d]
          /\ http3Leg'[d] = http3Leg[d] /\ resultCh'[d] = resultCh[d]
          /\ received'[d] = received[d] /\ result'[d] = result[d]
      BY <1>2, <1>10, <2>2 DEF TakeResult, CallReturns
    <3> QED
      BY <1>1, <1>3, <2>1, <3>1, WellFrame DEF RaceTypes
  <2>3. CASE c = d /\ Head(resultCh[d]).ok
    <3>1. /\ callPc'[d] = "cacheWinner" /\ UNCHANGED <<raceVars, result>>
      BY <1>2, <1>10, <2>3 DEF TakeResult
    <3>2. callAddr[d] \in Addrs
      BY <1>1 DEF RaceTypes
    <3> QED
      BY <1>1, <1>3, <2>1, <2>3, <3>1, <3>2 DEF StillWell, RaceStates, Silent
  <2>4. CASE c = d /\ ~Head(resultCh[d]).ok /\ tried[d] = "h2"
             /\ ~disturbed[d] /\ ~erased[d]
    <3>1. resultCh[d] \in Seq(Results) /\ callAddr[d] \in Addrs
          /\ received[d] \in 0 .. 1
      BY <1>1 DEF RaceTypes
    <3>2. /\ Head(resultCh[d]) \in Results /\ 1 \in DOMAIN resultCh[d]
          /\ Head(resultCh[d]) = resultCh[d][1]
      BY <2>1, <2>4, <3>1
    <3>3. resultCh[d][1].protocol = "h3"
      BY <1>1, <2>4, <3>2 DEF StillWell, Results
    <3>4. ~http3Leg[d] /\ ~Silent(resultCh[d], "h3")
      BY <1>1, <3>2, <3>3 DEF ChannelFits, Silent
    <3>5. received[d] # 1
      BY <1>1, <2>4, <3>4 DEF StillWell
    <3>6. /\ resultCh'[d] = Tail(resultCh[d])
          /\ UNCHANGED <<callPc, leg, http3Leg, result>>
      BY <1>2, <1>10, <2>4, <3>5 DEF TakeResult
    <3>7. /\ Silent(resultCh'[d], "h3")
          /\ \A i \in DOMAIN resultCh'[d] :
               \E j \in DOMAIN resultCh[d] : resultCh'[d][i] = resultCh[d][j]
      BY <1>1, <2>1, <2>4, <3>2, <3>3, <3>6, ChannelTakes
    <3>8. \A i \in DOMAIN resultCh'[d] :
            resultCh'[d][i].protocol = "h2" => resultCh'[d][i].ok
      BY <1>1, <2>4, <3>7 DEF StillWell
    <3> QED
      BY <1>1, <1>3, <2>1, <2>4, <3>1, <3>4, <3>6, <3>7, <3>8 DEF StillWell
  <2>5. CASE ~(tried[d] = "h2" /\ ~disturbed[d] /\ ~erased[d])
    BY <2>1, <2>5 DEF StillWell
  <2> QED
    BY <2>2, <2>3, <2>4, <2>5
<1>11. ASSUME NEW c \in Calls, CacheWinner(c)
      PROVE  StillWell(d)'
  <2>1. /\ UNCHANGED <<vars, callAddr, tried, historyVars>>
        /\ callPc[c] = "cacheWinner"
        /\ \/ CallReturns(c, "ok")
           \/ /\ callPc' = [callPc EXCEPT ![c] = "storeHttp3"]
              /\ UNCHANGED <<raceVars, result>>
    BY <1>11 DEF CacheWinner
  <2>2. CASE CallReturns(c, "ok")
    BY <1>5, <2>1, <2>2
  <2>3. CASE /\ callPc' = [callPc EXCEPT ![c] = "storeHttp3"]
             /\ UNCHANGED <<raceVars, result>>
    <3>1. CASE c = d
      <4>1. callPc'[d] = "storeHttp3" /\ callAddr[d] \in Addrs
        BY <1>1, <1>2, <2>3, <3>1 DEF RaceTypes
      <4> QED
        BY <1>1, <1>3, <2>1, <2>3, <3>1, <4>1 DEF StillWell, RaceStates, Silent
    <3>2. CASE c # d
      BY <1>1, <1>2, <1>3, <2>1, <2>3, <3>2, WellFrame DEF RaceTypes
    <3> QED
      BY <3>1, <3>2
  <2> QED
    BY <2>1, <2>2, <2>3
<1>12. ASSUME NEW c \in Calls, NEW b \in BOOLEAN,
             CachedHttp3Answers(c) \/ StoreHttp3(c, b)
      PROVE  StillWell(d)'
  BY <1>12, <1>5 DEF CachedHttp3Answers, StoreHttp3
<1>13. ASSUME NEW c \in Calls, RaceTimesOut(c)
      PROVE  StillWell(d)'
  <2>1. CASE c = d
    BY <1>2, <1>13, <2>1 DEF RaceTimesOut, StillWell
  <2>2. CASE c # d
    BY <1>1, <1>2, <1>3, <1>13, <2>2, WellFrame
    DEF RaceTimesOut, CallReturns, RaceTypes
  <2> QED
    BY <2>1, <2>2
<1>14. ASSUME NEW r \in Requests, LegStep(r)
      PROVE  StillWell(d)'
  <2>1. Request(r)
    BY <1>14, LegsAreRequests
  <2>2. addr' = addr
    BY <1>1, <2>1, RequestMovesItself
  <2>3. /\ disturbed[d] => disturbed'[d]
        /\ erased[d] => erased'[d]
        /\ LegFails(r) /\ leg[d] = r => disturbed'[d]
    BY <1>2, <1>14 DEF LegStep, LegFails, LegSucceeds, LegSteps
  <2>4. PICK ok \in BOOLEAN :
          /\ AfterLegStep(r, ok)
          /\ \/ LegFails(r)
             \/ LegContinues(r) /\ ~ok
             \/ LegAnswers(r) /\ ok
    BY <1>14 DEF LegStep, LegFails, LegSucceeds, LegSteps
  <2>10. ~erased'[d] => ~(ErasesKind(r) /\ addr[r] = callAddr[d])
    <3>1. CASE LegSteps(r)
      BY <1>2, <3>1 DEF LegSteps
    <3>2. CASE LegFails(r) \/ LegSucceeds(r)
      BY <3>2 DEF LegFails, LegFaults, LegSucceeds, LegAnswers, ErasesKind,
         SetupFails, SendWithoutDialTLS, StopWaiting, DialFails, Exchange,
         DialStates
    <3> QED
      BY <1>14, <3>1, <3>2 DEF LegStep
  <2>11. \A a \in Addrs : callAddr[d] = a /\ ~erased'[d] /\ UpToDate(a)
            => UpToDate(a)'
    BY <2>1, <2>10, StaysUpToDate
  <2>5. tried' = tried /\ callAddr' = callAddr /\ callAddr[d] \in Addrs
    BY <1>1, <2>4 DEF AfterLegStep, LegDelivers, RaceTypes
  <2>6. CASE leg[d] # r
    <3>1. /\ callPc'[d] = callPc[d] /\ leg'[d] = leg[d]
          /\ http3Leg'[d] = http3Leg[d] /\ resultCh'[d] = resultCh[d]
          /\ received'[d] = received[d] /\ result'[d] = result[d]
      BY <1>2, <2>4, <2>6 DEF AfterLegStep, LegDelivers, SendResult
    <3>2. ASSUME NEW q \in Requests, leg[d] = q, ~erased'[d]
          PROVE  /\ AttemptWell(q) => AttemptWell(q)'
                 /\ LegWell(q) /\ UpToDate(callAddr[d]) => LegWell(q)'
      <4>1. addr[q] = callAddr[d] /\ q # r
        BY <1>1, <2>6, <3>2, RoundTripperAssumption DEF LegIsOwned
      <4>2. /\ AttemptWell(q) => AttemptWell(q)'
            /\ LegWell(q) /\ UpToDate(addr[q]) => LegWell(q)'
        BY <2>1, <2>10, <3>2, <4>1, OthersKeepWell
      <4> QED
        BY <4>1, <4>2
    <3> QED
      BY <1>1, <2>3, <2>5, <2>11, <3>1, <3>2, WellFrame
  <2>7. CASE LegFails(r) /\ leg[d] = r
    BY <2>3, <2>7 DEF StillWell
  <2>8. CASE leg[d] = r /\ ~(tried[d] = "h2" /\ ~disturbed[d] /\ ~erased'[d])
    BY <2>3, <2>5, <2>8 DEF StillWell
  <2>9. ASSUME leg[d] = r, ~LegFails(r), tried[d] = "h2", ~disturbed[d],
               ~erased'[d]
        PROVE  StillWell(d)'
    <3>1. /\ waiting[r] /\ addr[r] = callAddr[d] /\ leg[d] # None
          /\ \A c \in Calls : leg[c] = r => c = d
      BY <1>1, <2>9, RoundTripperAssumption DEF LegIsOwned
    <3>2. /\ \A i \in DOMAIN resultCh[d] :
               resultCh[d][i].protocol = "h2" => resultCh[d][i].ok
          /\ received[d] = 1 => ~http3Leg[d] /\ Silent(resultCh[d], "h3")
          /\ result[d] # "error" /\ callPc[d] # "cachedHttp3"
          /\ callPc[d] = "cachedHttp2" => AttemptWell(r)
          /\ callPc[d] \in RaceStates => LegWell(r) /\ UpToDate(addr[r])
      BY <1>1, <2>3, <2>5, <2>9, <3>1 DEF StillWell
    <3>5. ASSUME LegContinues(r)
          PROVE  /\ AttemptWell(r) => IF waiting'[r] THEN AttemptWell(r)'
                                                     ELSE UpToDate(addr[r])'
                 /\ LegWell(r) /\ UpToDate(addr[r]) =>
                      waiting'[r] /\ LegWell(r)'
      BY <2>9, <2>10, <3>1, <3>5, LegGoesOn
    <3>3. CASE waiting'[r]
      <4>1. UNCHANGED <<raceVars, callVars>>
        BY <2>4, <3>3 DEF AfterLegStep
      <4>2. LegContinues(r)
        <5>1. LegAnswers(r) => ~waiting'[r]
          BY <1>1 DEF LegAnswers, SendWithoutDialTLS, Exchange, Return, TypeOK
        <5> QED
          BY <2>4, <2>9, <3>3, <5>1
      <4>3. /\ AttemptWell(r) => AttemptWell(r)'
            /\ LegWell(r) /\ UpToDate(addr[r]) => LegWell(r)'
        BY <3>3, <3>5, <4>2
      <4> QED
        BY <1>1, <2>3, <2>5, <2>9, <2>11, <3>1, <4>1, <4>3, WellFrame
    <3>4. CASE ~waiting'[r]
      <4>1. LegDelivers(d, ok)
        BY <2>4, <2>9, <3>1, <3>4 DEF AfterLegStep, Unowned
      <4>2. /\ leg'[d] = None /\ http3Leg'[d] = http3Leg[d]
            /\ received'[d] = received[d]
        BY <1>2, <4>1 DEF LegDelivers
      <4>3. ~ok => LegContinues(r)
        BY <2>4, <2>9
      <4>4. CASE callPc[d] = "cachedHttp2"
        <5>1. /\ resultCh'[d] = << >> /\ received'[d] = 0
              /\ callPc'[d] = IF ok THEN "returned" ELSE "clear"
              /\ result'[d] # "error"
          BY <1>1, <1>2, <3>2, <4>1, <4>2, <4>4
          DEF LegDelivers, ChannelFits, RaceStates
        <5>2. ~ok => UpToDate(addr[r])'
          BY <3>2, <3>4, <3>5, <4>3, <4>4
        <5>3. ~ok => \A a \in Addrs : callAddr'[d] = a => UpToDate(a)'
          BY <2>2, <2>5, <3>1, <5>2 DEF UpToDate
        <5> QED
          BY <4>2, <5>1, <5>3, RoundTripperAssumption DEF StillWell, RaceStates
      <4>5. CASE callPc[d] # "cachedHttp2"
        <5>1. callPc[d] \in RaceStates
          BY <1>1, <3>1, <4>5 DEF ChannelFits
        <5>2. ok
          BY <3>2, <3>4, <3>5, <4>3, <5>1
        <5>3. /\ callPc'[d] = callPc[d] /\ result'[d] = result[d]
              /\ resultCh'[d] =
                   Append(resultCh[d], [protocol |-> "h2", ok |-> TRUE])
          BY <1>2, <4>1, <4>5, <5>2 DEF LegDelivers, SendResult
        <5>4. \A i \in DOMAIN resultCh'[d] :
                \/ i \in DOMAIN resultCh[d] /\ resultCh'[d][i] = resultCh[d][i]
                \/ resultCh'[d][i] = [protocol |-> "h2", ok |-> TRUE]
          <6>1. resultCh[d] \in Seq(Results)
            BY <1>1 DEF RaceTypes
          <6> QED
            BY <5>3, <6>1
        <5>5. \A i \in DOMAIN resultCh'[d] :
                resultCh'[d][i].protocol = "h2" => resultCh'[d][i].ok
          BY <3>2, <5>4
        <5>6. received[d] = 1 => Silent(resultCh'[d], "h3")
          BY <3>2, <5>4 DEF Silent
        <5>7. \A a \in Addrs : callAddr'[d] = a => UpToDate(a)'
          BY <2>5, <2>9, <2>11, <3>1, <3>2, <5>1
        <5> QED
          BY <2>5, <3>2, <4>2, <5>1, <5>3, <5>5, <5>6, <5>7,
             RoundTripperAssumption
          DEF StillWell, RaceStates
      <4> QED
        BY <4>4, <4>5
    <3> QED
      BY <3>3, <3>4
  <2> QED
    BY <2>6, <2>7, <2>8, <2>9
<1>15. CASE RaceEnvironment
  <2>1. /\ UNCHANGED <<raceVars, callVars, erased>>
        /\ UNCHANGED <<cachedTransports, cachedKinds, pc, tr, addr>>
        /\ disturbed' = [c \in Calls |-> disturbed[c] \/ server' # server]
    BY <1>15 DEF RaceEnvironment, Environment, CloseIdleConnections,
       ConnectionsDie, ServerChanges, cacheVars, requestVars
  <2>2. CASE server' # server
    BY <2>1, <2>2 DEF StillWell
  <2>3. CASE server' = server
    <3>1. /\ \A a \in Addrs : UpToDate(a) => UpToDate(a)'
          /\ \A r \in Requests :
               /\ AttemptWell(r) => AttemptWell(r)'
               /\ LegWell(r) => LegWell(r)'
      BY <2>1, <2>3 DEF UpToDate, AttemptWell, LegWell
    <3> QED
      BY <1>1, <2>1, <2>3, <3>1, WellFrame
  <2> QED
    BY <2>2, <2>3
<1>16. CASE UNCHANGED allVars
  BY <1>1, <1>3, <1>16, WellFrame DEF allVars, racerVars, RaceTypes
<1> QED
  BY <1>4, <1>6, <1>7, <1>8, <1>9, <1>10, <1>11, <1>12, <1>13, <1>14, <1>15,
     <1>16
  DEF RaceNext, RaceCall

\* A call that starts from a remembered "h2", and meanwhile neither loses the
\* network nor has a server change nor a late drop erase the kind recorded for
\* its address, never returns an error: for any number of callers, of legs at
\* work at the same time, addresses and protocols.
THEOREM UndisturbedCallsSucceed ==
  Schemes = {"https"} => (RaceSpec => []UndisturbedCallSucceeds)
<1> SUFFICES ASSUME Schemes = {"https"}
             PROVE  RaceSpec => []UndisturbedCallSucceeds
  OBVIOUS
<1>1. RaceInit => AllStillWell
  BY RacerAssumption
  DEF RaceInit, AllStillWell, StillWell, Outcomes, RaceStates
<1>2. Spec => []FitsInv
  BY FittingInvariance DEF HttpsOnly
<1>3. IInv /\ FitsInv /\ RacerInv /\ AllStillWell /\ [RaceNext]_allVars
        => AllStillWell'
  BY WellStep DEF HttpsOnly
<1>4. AllStillWell => UndisturbedCallSucceeds
  BY DEF AllStillWell, StillWell, UndisturbedCallSucceeds
<1> QED
  <2>1. RaceSpec => []FitsInv
    <3>1. RaceSpec => Spec
      BY RacingIsRoundTripping
    <3> QED
      BY <1>2, <3>1, PTL
  <2>2. RaceSpec => [](IInv /\ RacerInv)
    BY RacerInvariance
  <2> QED
    BY <1>1, <1>3, <1>4, <2>1, <2>2, PTL DEF RaceSpec

=============================================================================
