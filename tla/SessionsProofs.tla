--------------------------- MODULE SessionsProofs ---------------------------
(***************************************************************************)
(* Proofs about Sessions, for any number of calls, sessions and clients    *)
(* and for any inputs.                                                     *)
(*                                                                         *)
(* A client is shared by all requests of its session, and is changed in    *)
(* several steps: the proofs follow the draft that a call has in its hands *)
(* while it holds clientsLock.  The pins of a client are in a store that   *)
(* all clients share: the proof about them follows what has been           *)
(* registered, and stops where something registered disputes them.         *)
(***************************************************************************)
EXTENDS Sessions, SequenceTheorems, WellFoundedInduction, TLAPS

\* Client k is in the map, or a call has it.
Live(k) ==
  \/ \E s \in SessionIds : clients[s] = k
  \/ \E d \in Calls : own[d] = k

\* What a call has been given fits what it does.
InputFits ==
  \A c \in Calls :
    /\ pc[c] \in {"create", "pin", "send", "dial", "redial", "exchange"} =>
         input[c] \in Inputs
    /\ pc[c] \in {"destroy", "close"} => input[c] \in SessionInput
    /\ pc[c] \in {"lookUp", "cookies"} =>
         input[c] \in SessionInput /\ Session(c) \in SessionIds

\* A call has a client from getTlsClient or GetClient to its end.
OwnFits ==
  \A c \in Calls :
    /\ pc[c] \in {"idle", "create", "lookUp", "destroy", "close", "returned"} =>
         own[c] = None
    /\ pc[c] \in {"send", "dial", "redial", "exchange"} => own[c] \in ClientIds
    /\ pc[c] = "pin" =>
         own[c] \in ClientIds \cup {None} /\ draft[c] \in ClientState

\* clientsLock is held by whoever is between taking and releasing it, until the
\* process ends.
LockIsHeld ==
  Alive => \A c \in Calls : pc[c] \in {"pin", "close"} <=> clientsLock = c

\* Between taking and releasing clientsLock the session of a call has the client
\* that the call is changing, or none if it is building one.
SessionIsHeld ==
  \A c \in Calls :
    pc[c] = "pin" /\ Session(c) # None => clients[Session(c)] = own[c]

\* The proxy of a client is one it was asked for.
ProxyIsAsked ==
  \A k \in ClientIds : Live(k) => client[k].proxy \in asked[k]

\* So is that of a draft, or its request asks for it.
DraftIsAsked ==
  \A c \in Calls :
    pc[c] = "pin" =>
      \/ draft[c].proxy = ProxyOf(input[c]) /\ draft[c].proxy \in WorkingUrls
      \/ own[c] # None /\ draft[c].proxy \in asked[own[c]]

\* A string that has been returned has not been freed since.
FreedInv ==
  FreedOnce /\ \A c \in Calls : pc[c] = "returned" => frees[c] = 0

Fits == InputFits /\ OwnFits
Holds == LockIsHeld /\ SessionIsHeld
Asked == ProxyIsAsked /\ DraftIsAsked /\ NoUnaskedWay

IInv ==
  /\ TypeOK
  /\ Fits
  /\ Holds
  /\ Asked
  /\ FreedInv

-----------------------------------------------------------------------------

\* What an argument of request holds.
LEMMA InputTypes ==
  \A i \in Inputs :
    /\ i.sessionId \in SessionIds \cup {None}
    /\ i.proxyUrl \in ProxyUrls \cup {None}
    /\ i.racing \in BOOLEAN
    /\ i.host \in Hosts
    /\ i.pins \in SUBSET PinEntry
    /\ "defect" \in DOMAIN i
BY SessionsAssumption DEF RequestInput

\* What is built or changed is a client.
LEMMA DraftTypes ==
  /\ \A i \in Inputs : ~Refused(i) => Options(i) \in ClientState
  /\ TypeOK => \A i \in Inputs, k \in ClientIds :
       i.proxyUrl # None =>
         [client[k] EXCEPT !.proxy = ProxyAfter(i, k)] \in ClientState
<1>1. \A i \in Inputs : ~Refused(i) => Options(i) \in ClientState
  BY InputTypes
     DEF Refused, Options, ProxyOf, ProxyWorks, WorkingUrls, ClientState
<1>2. ASSUME TypeOK, NEW i \in Inputs, NEW k \in ClientIds, i.proxyUrl # None
      PROVE  [client[k] EXCEPT !.proxy = ProxyAfter(i, k)] \in ClientState
  <2>1. client[k] \in ClientState
    BY <1>2 DEF TypeOK
  <2>2. ProxyAfter(i, k) \in ProxyUrls
    BY <1>2, <2>1, InputTypes DEF ProxyAfter, ClientState
  <2> QED
    BY <2>1, <2>2 DEF ClientState
<1> QED
  BY <1>1, <1>2

\* The part of TypeOK that a return has nothing to do with.
RestOK ==
  /\ clients \in [SessionIds -> ClientIds \cup {"nil", None}]
  /\ clientsLock \in Calls \cup {None}
  /\ DOMAIN todo = Calls
  /\ cached \subseteq ClientIds
  /\ dials \in [Calls -> ClientIds \cup {"old", None}]
  /\ way \in [Calls -> ProxyUrls \cup {None}]
  /\ protocol \in [Calls -> {"tcp", "quic", None}]
  /\ key \in [Calls -> Keys \cup {None}]

\* A call that returns leaves clients and nothing else behind.
LEMMA ReturnTypes ==
  ASSUME TypeOK, NEW c \in Calls, NEW m, Return(c, m)
  PROVE  /\ pc' \in [Calls -> States]
         /\ unsafePointers' \subseteq Calls
         /\ frees' \in [Calls -> Nat]
         /\ input' \in [Calls -> {None} \cup Inputs \cup SessionInput]
         /\ own' \in [Calls -> ClientIds \cup {"nil", None}]
         /\ draft' \in [Calls -> {None} \cup ClientState]
         /\ client' \in [ClientIds -> ClientState]
         /\ asked' \in [ClientIds -> SUBSET ProxyUrls]
<1>1. NoClient \in ClientState
  BY DEF NoClient, ClientState, ProxyUrls
<1> QED
  BY <1>1 DEF Return, TypeOK, Goto, States

\* The client that becomes ready is the one that was changed, or one that nobody
\* refers to.
ReadyAs(c, k) ==
  LET u == ProxyOf(input[c])
  IN  /\ own[c] = k \/ (own[c] = None /\ ~InUse(k, clients, c))
      /\ client' = [client EXCEPT ![k] = draft[c]]
      /\ asked' = [asked EXCEPT ![k] =
                     @ \cup (IF u \in WorkingUrls THEN {u} ELSE {})]
      /\ own' = [own EXCEPT ![c] = k]
      /\ clients' = [s \in SessionIds |->
                       IF s = Session(c) THEN k ELSE clients[s]]
      /\ dials' = [d \in Calls |-> IF dials[d] = k THEN "old" ELSE dials[d]]

\* There is such a client.
LEMMA ClientReadyAs ==
  ASSUME Fits, NEW c \in Calls, ClientReady(c)
  PROVE  \E k \in ClientIds : ReadyAs(c, k)
<1>1. CASE own[c] = None
  <2> DEFINE k == CHOOSE j \in ClientIds : ~InUse(j, clients, c)
  <2>1. \E j \in ClientIds : ~InUse(j, clients, c)
    BY <1>1 DEF ClientReady
  <2>2. k \in ClientIds /\ ~InUse(k, clients, c)
    BY <2>1
  <2>3. ReadyAs(c, k)
    BY <1>1, <2>2, Zenon DEF ClientReady, ReadyAs
  <2> QED
    BY <2>2, <2>3
<1>2. CASE own[c] # None
  <2>1. own[c] \in ClientIds
    BY <1>2 DEF ClientReady, Fits, OwnFits
  <2>2. ReadyAs(c, own[c])
    BY <1>2, Zenon DEF ClientReady, ReadyAs
  <2> QED
    BY <2>1, <2>2
<1> QED
  BY <1>1, <1>2

\* A call that returns has neither an input nor a client.
LEMMA ReturnFits ==
  ASSUME TypeOK, Fits, NEW c \in Calls, NEW m, Return(c, m)
  PROVE  Fits'
BY DEF TypeOK, Fits, InputFits, OwnFits, Session, Return, Goto

\* It leaves the clients that are in use, and what they were asked for.
LEMMA ReturnAsked ==
  ASSUME TypeOK, Fits, Asked, NEW c \in Calls, NEW m, Return(c, m),
         \A s \in SessionIds : /\ m[s] \in {clients[s], None}
                               /\ clients'[s] \in {m[s], "nil"},
         \A d \in Calls \ {c} : way'[d] = way[d]
  PROVE  Asked'
<1> USE SessionsAssumption
    DEF TypeOK, Fits, OwnFits, Asked, ProxyIsAsked, DraftIsAsked, NoUnaskedWay,
        Live, Return, Goto
<1>1. ASSUME NEW k \in ClientIds, InUse(k, m, c)
      PROVE  client'[k] = client[k] /\ asked'[k] = asked[k] /\ Live(k)
  BY <1>1 DEF InUse
<1>2. ASSUME NEW k \in ClientIds, Live(k)' PROVE InUse(k, m, c)
  BY <1>2 DEF InUse
<1>3. ProxyIsAsked'
  BY <1>1, <1>2
<1>4. ASSUME NEW d \in Calls \ {c}, own[d] \in ClientIds
      PROVE  asked'[own[d]] = asked[own[d]]
  BY <1>1, <1>4 DEF InUse
<1>5. DraftIsAsked'
  BY <1>4 DEF ProxyOf
<1>6. NoUnaskedWay'
  BY <1>4
<1> QED
  BY <1>3, <1>5, <1>6

\* A call enters its string when it returns, and freeMemory removes it.
LEMMA StepFreed ==
  TypeOK /\ FreedInv /\ [Next]_vars => FreedInv'
<1> SUFFICES ASSUME TypeOK, FreedInv, [Next]_vars
             PROVE  FreedInv'
  OBVIOUS
<1> USE DEF TypeOK, FreedInv, FreedOnce, sessionVars, clientVars, requestVars,
            pinVars, stringVars, Goto, Session
<1>1. ASSUME NEW c \in Calls, Alive, request(c) PROVE FreedInv'
  BY <1>1 DEF request, Begin
<1>2. ASSUME NEW c \in Calls, Alive, Unreadable(c) PROVE FreedInv'
  BY <1>2 DEF Unreadable, Return
<1>3. ASSUME NEW c \in Calls, Alive, cookiesOfSession(c) PROVE FreedInv'
  BY <1>3 DEF cookiesOfSession, Begin
<1>4. ASSUME NEW c \in Calls, Alive, destroy(c) PROVE FreedInv'
  BY <1>4 DEF destroy, Begin
<1>5. ASSUME NEW c \in Calls, Alive, freeMemory(c) PROVE FreedInv'
  BY <1>5 DEF freeMemory, Free, vars
<1>6. ASSUME NEW c \in Calls, Alive, CreateClient(c) PROVE FreedInv'
  BY <1>6 DEF CreateClient, Return
<1>7. ASSUME NEW c \in Calls, Alive, getTlsClient(c) PROVE FreedInv'
  BY <1>7 DEF getTlsClient, InGetTlsClient, StartDraft
<1>8. ASSUME NEW c \in Calls, Alive, getTlsClientFails(c) PROVE FreedInv'
  BY <1>8 DEF getTlsClientFails, Return, InGetTlsClient
<1>9. ASSUME NEW c \in Calls, Alive, getTlsClientPanics(c) PROVE FreedInv'
  BY <1>9 DEF getTlsClientPanics, InGetTlsClient
<1>10. ASSUME NEW c \in Calls, Alive, ModificationFails(c) PROVE FreedInv'
  BY <1>10 DEF ModificationFails, Return, InGetTlsClient
<1>11. ASSUME NEW c \in Calls, Alive, handleModification(c) PROVE FreedInv'
  BY <1>11 DEF handleModification, InGetTlsClient, StartDraft
<1>12. ASSUME NEW c \in Calls, Alive, GetClient(c) PROVE FreedInv'
  BY <1>12 DEF GetClient, Return
<1>13. ASSUME NEW c \in Calls, Alive, RemoveSession(c) PROVE FreedInv'
  BY <1>13 DEF RemoveSession
<1>14. ASSUME NEW c \in Calls, Alive, InitPinner(c) PROVE FreedInv'
  BY <1>14 DEF InitPinner
<1>15. ASSUME NEW c \in Calls, Alive, ClientReady(c) PROVE FreedInv'
  BY <1>15 DEF ClientReady
<1>16. ASSUME NEW c \in Calls, Alive, BuildRequestFails(c) PROVE FreedInv'
  BY <1>16 DEF BuildRequestFails, Return
<1>17. ASSUME NEW c \in Calls, Alive, Do(c) PROVE FreedInv'
  BY <1>17 DEF Do, StartDial, StartDial
<1>18. ASSUME NEW c \in Calls, Alive, DialEnds(c) PROVE FreedInv'
  BY <1>18 DEF DialEnds, DialOutcome, Return
<1>19. ASSUME NEW c \in Calls, Alive, BuildResponse(c) PROVE FreedInv'
  BY <1>19 DEF BuildResponse, Return
<1>20. ASSUME NEW c \in Calls, Alive, UseClient(c) PROVE FreedInv'
  BY <1>20 DEF UseClient, Return
<1>21. ASSUME NEW c \in Calls, Alive, CloseIdle(c) PROVE FreedInv'
  BY <1>21 DEF CloseIdle
<1>22. ASSUME NEW c \in Calls, Alive, Removed(c) PROVE FreedInv'
  BY <1>22 DEF Removed, Return
<1>23. ASSUME NEW c \in Calls, Alive, Redial(c) PROVE FreedInv'
  BY <1>23 DEF Redial, StartDial
<1>24. ASSUME NEW c \in Calls, Alive, RedialEnds(c) PROVE FreedInv'
  BY <1>24 DEF RedialEnds, DialOutcome, Return
<1>25. CASE UNCHANGED vars
  BY <1>25 DEF vars
<1> QED
  BY <1>1, <1>2, <1>3, <1>4, <1>5, <1>6, <1>7, <1>8, <1>9, <1>10, <1>11,
     <1>12, <1>13, <1>14, <1>15, <1>16, <1>17, <1>18, <1>19, <1>20, <1>21,
     <1>22, <1>23, <1>24, <1>25
     DEF Next, Locked, Running

\* Every step gives a call the input and the client that its state asks for.
LEMMA StepFits ==
  TypeOK /\ Fits /\ [Next]_vars => Fits'
<1> SUFFICES ASSUME TypeOK, Fits, [Next]_vars
             PROVE  Fits'
  OBVIOUS
<1> USE InputTypes, SessionsAssumption
    DEF TypeOK, Fits, InputFits, OwnFits, sessionVars, clientVars, requestVars,
        pinVars, stringVars, Goto, Session
<1>1. ASSUME NEW c \in Calls, Alive, request(c) PROVE Fits'
  BY <1>1 DEF request, Begin
<1>2. ASSUME NEW c \in Calls, Alive, Unreadable(c) PROVE Fits'
  BY <1>2 DEF Unreadable, Return
<1>3. ASSUME NEW c \in Calls, Alive, cookiesOfSession(c) PROVE Fits'
  BY <1>3 DEF cookiesOfSession, Begin, SessionInput
<1>4. ASSUME NEW c \in Calls, Alive, destroy(c) PROVE Fits'
  BY <1>4 DEF destroy, Begin, SessionInput
<1>5. ASSUME NEW c \in Calls, Alive, freeMemory(c) PROVE Fits'
  BY <1>5 DEF freeMemory, Free, vars
<1>6. ASSUME NEW c \in Calls, Alive, CreateClient(c) PROVE Fits'
  BY <1>6 DEF CreateClient, Return
<1>7. ASSUME NEW c \in Calls, Alive, getTlsClient(c) PROVE Fits'
  BY <1>7, DraftTypes DEF getTlsClient, InGetTlsClient, StartDraft
<1>8. ASSUME NEW c \in Calls, Alive, getTlsClientFails(c) PROVE Fits'
  BY <1>8 DEF getTlsClientFails, Return, InGetTlsClient
<1>9. ASSUME NEW c \in Calls, Alive, getTlsClientPanics(c) PROVE Fits'
  BY <1>9 DEF getTlsClientPanics, InGetTlsClient
<1>10. ASSUME NEW c \in Calls, Alive, ModificationFails(c) PROVE Fits'
  BY <1>10 DEF ModificationFails, Return, InGetTlsClient
<1>11. ASSUME NEW c \in Calls, Alive, handleModification(c) PROVE Fits'
  BY <1>11, DraftTypes
     DEF handleModification, InGetTlsClient, StartDraft, WantsProxy
<1>12. ASSUME NEW c \in Calls, Alive, GetClient(c) PROVE Fits'
  <2>1. CASE Return(c, clients)
    BY <2>1, ReturnFits
  <2>2. CASE ~Return(c, clients)
    BY <1>12, <2>2 DEF GetClient
  <2> QED
    BY <2>1, <2>2
<1>13. ASSUME NEW c \in Calls, Alive, RemoveSession(c) PROVE Fits'
  BY <1>13 DEF RemoveSession
<1>14. ASSUME NEW c \in Calls, Alive, InitPinner(c) PROVE Fits'
  BY <1>14 DEF InitPinner
<1>15. ASSUME NEW c \in Calls, Alive, ClientReady(c) PROVE Fits'
  <2>1. PICK k \in ClientIds : ReadyAs(c, k)
    BY <1>15, ClientReadyAs
  <2>2. /\ UNCHANGED input /\ pc[c] = "pin"
        /\ pc' = [pc EXCEPT ![c] = "send"]
        /\ own' = [own EXCEPT ![c] = k]
        /\ draft' = [draft EXCEPT ![c] = None]
    BY <1>15, <2>1 DEF ClientReady, ReadyAs
  <2> QED
    BY <2>2
<1>16. ASSUME NEW c \in Calls, Alive, BuildRequestFails(c) PROVE Fits'
  <2>1. CASE Return(c, clients)
    BY <2>1, ReturnFits
  <2>2. CASE ~Return(c, clients)
    BY <1>16, <2>2 DEF BuildRequestFails
  <2> QED
    BY <2>1, <2>2
<1>17. ASSUME NEW c \in Calls, Alive, Do(c) PROVE Fits'
  BY <1>17 DEF Do, StartDial, StartDial
<1>18. ASSUME NEW c \in Calls, Alive, DialEnds(c) PROVE Fits'
  <2>1. CASE Return(c, clients)
    BY <2>1, ReturnFits
  <2>2. CASE ~Return(c, clients)
    BY <1>18, <2>2 DEF DialEnds, DialOutcome
  <2> QED
    BY <2>1, <2>2
<1>19. ASSUME NEW c \in Calls, Alive, BuildResponse(c) PROVE Fits'
  <2>1. CASE Return(c, clients)
    BY <2>1, ReturnFits
  <2>2. CASE ~Return(c, clients)
    BY <1>19, <2>2 DEF BuildResponse
  <2> QED
    BY <2>1, <2>2
<1>20. ASSUME NEW c \in Calls, Alive, UseClient(c) PROVE Fits'
  <2>1. CASE Return(c, clients)
    BY <2>1, ReturnFits
  <2>2. CASE ~Return(c, clients)
    BY <1>20, <2>2 DEF UseClient
  <2> QED
    BY <2>1, <2>2
<1>21. ASSUME NEW c \in Calls, Alive, CloseIdle(c) PROVE Fits'
  BY <1>21 DEF CloseIdle
<1>22. ASSUME NEW c \in Calls, Alive, Removed(c) PROVE Fits'
  BY <1>22 DEF Removed, Return
<1>23. ASSUME NEW c \in Calls, Alive, Redial(c) PROVE Fits'
  BY <1>23 DEF Redial, StartDial
<1>24. ASSUME NEW c \in Calls, Alive, RedialEnds(c) PROVE Fits'
  <2>1. CASE Return(c, clients)
    BY <2>1, ReturnFits
  <2>2. CASE ~Return(c, clients)
    BY <1>24, <2>2 DEF RedialEnds, DialOutcome
  <2> QED
    BY <2>1, <2>2
<1>25. CASE UNCHANGED vars
  BY <1>25 DEF vars
<1> QED
  BY <1>1, <1>2, <1>3, <1>4, <1>5, <1>6, <1>7, <1>8, <1>9, <1>10, <1>11,
     <1>12, <1>13, <1>14, <1>15, <1>16, <1>17, <1>18, <1>19, <1>20, <1>21,
     <1>22, <1>23, <1>24, <1>25
     DEF Next, Locked, Running

\* Every step keeps the types.
LEMMA StepType ==
  TypeOK /\ Fits /\ [Next]_vars => TypeOK'
<1> SUFFICES ASSUME TypeOK, Fits, [Next]_vars
             PROVE  TypeOK'
  OBVIOUS
<1> USE DEF TypeOK, States, Fits, InputFits, OwnFits, sessionVars, clientVars,
            requestVars, pinVars, stringVars, Goto, Session
<1>1. ASSUME NEW c \in Calls, Alive, request(c) PROVE TypeOK'
  BY <1>1 DEF request, Begin
<1>2. ASSUME NEW c \in Calls, Alive, Unreadable(c) PROVE TypeOK'
  BY <1>2, ReturnTypes DEF Unreadable
<1>3. ASSUME NEW c \in Calls, Alive, cookiesOfSession(c) PROVE TypeOK'
  BY <1>3 DEF cookiesOfSession, Begin, SessionInput
<1>4. ASSUME NEW c \in Calls, Alive, destroy(c) PROVE TypeOK'
  BY <1>4 DEF destroy, Begin, SessionInput
<1>5. ASSUME NEW c \in Calls, Alive, freeMemory(c) PROVE TypeOK'
  <2>1. CASE Free(c) /\ unsafePointers' = unsafePointers \ {c}
    BY <2>1 DEF Free
  <2>2. CASE UNCHANGED vars
    BY <2>2 DEF vars
  <2> QED
    BY <1>5, <2>1, <2>2 DEF freeMemory
<1>6. ASSUME NEW c \in Calls, Alive, CreateClient(c) PROVE TypeOK'
  BY <1>6, ReturnTypes DEF CreateClient
<1>7. ASSUME NEW c \in Calls, Alive, getTlsClient(c) PROVE TypeOK'
  BY <1>7, DraftTypes DEF getTlsClient, InGetTlsClient, StartDraft
<1>8. ASSUME NEW c \in Calls, Alive, getTlsClientFails(c) PROVE TypeOK'
  BY <1>8, ReturnTypes DEF getTlsClientFails, InGetTlsClient
<1>9. ASSUME NEW c \in Calls, Alive, getTlsClientPanics(c) PROVE TypeOK'
  BY <1>9 DEF getTlsClientPanics, InGetTlsClient
<1>10. ASSUME NEW c \in Calls, Alive, ModificationFails(c) PROVE TypeOK'
  BY <1>10, ReturnTypes DEF ModificationFails, InGetTlsClient
<1>11. ASSUME NEW c \in Calls, Alive, handleModification(c) PROVE TypeOK'
  <2> DEFINE k == clients[Session(c)]
             new == [client[k] EXCEPT !.proxy = ProxyAfter(input[c], k)]
  <2>1. k \in ClientIds /\ input[c] \in Inputs
    BY <1>11, InputTypes, SessionsAssumption
       DEF handleModification, InGetTlsClient
  <2>2. CASE ~WantsProxy(input[c], k)
    BY <1>11, <2>1, <2>2 DEF handleModification, InGetTlsClient
  <2>3. CASE WantsProxy(input[c], k)
    <3>1. new \in ClientState
      BY <2>1, <2>3, DraftTypes DEF WantsProxy
    <3>2. StartDraft(c, new) /\ own' = [own EXCEPT ![c] = k]
      BY <1>11, <2>3 DEF handleModification
    <3> HIDE DEF new, k
    <3> QED
      BY <1>11, <2>1, <3>1, <3>2
         DEF handleModification, InGetTlsClient, StartDraft
  <2> QED
    BY <2>2, <2>3
<1>12. ASSUME NEW c \in Calls, Alive, GetClient(c) PROVE TypeOK'
  <2>1. RestOK'
    BY <1>12 DEF GetClient, RestOK
  <2>2. CASE Return(c, clients)
    BY <2>1, <2>2, ReturnTypes DEF RestOK
  <2>3. CASE ~Return(c, clients)
    <3>1. UNCHANGED <<client, asked, unsafePointers, frees, input, draft>>
      BY <1>12, <2>3 DEF GetClient
    <3>2. own' \in [Calls -> ClientIds \cup {"nil", None}]
      BY <1>12, <2>3 DEF GetClient
    <3>3. pc' \in [Calls -> States]
      BY <1>12, <2>3 DEF GetClient
    <3> QED
      BY <2>1, <3>1, <3>2, <3>3 DEF RestOK
  <2> QED
    BY <2>2, <2>3
<1>13. ASSUME NEW c \in Calls, Alive, RemoveSession(c) PROVE TypeOK'
  BY <1>13 DEF RemoveSession
<1>14. ASSUME NEW c \in Calls, Alive, InitPinner(c) PROVE TypeOK'
  BY <1>14 DEF InitPinner
<1>15. ASSUME NEW c \in Calls, Alive, ClientReady(c) PROVE TypeOK'
  <2>1. PICK k \in ClientIds : ReadyAs(c, k)
    BY <1>15, ClientReadyAs
  <2> QED
    BY <1>15, <2>1 DEF ClientReady, ReadyAs, ProxyOf, WorkingUrls
<1>16. ASSUME NEW c \in Calls, Alive, BuildRequestFails(c) PROVE TypeOK'
  <2>1. RestOK'
    BY <1>16 DEF BuildRequestFails, RestOK
  <2>2. CASE Return(c, clients)
    BY <2>1, <2>2, ReturnTypes DEF RestOK
  <2>3. CASE ~Return(c, clients)
    <3>1. UNCHANGED <<client, asked, unsafePointers, frees, input, draft>>
      BY <1>16, <2>3 DEF BuildRequestFails
    <3>2. own' \in [Calls -> ClientIds \cup {"nil", None}]
      BY <1>16, <2>3 DEF BuildRequestFails
    <3>3. pc' \in [Calls -> States]
      BY <1>16, <2>3 DEF BuildRequestFails
    <3> QED
      BY <2>1, <3>1, <3>2, <3>3 DEF RestOK
  <2> QED
    BY <2>2, <2>3
<1>17. ASSUME NEW c \in Calls, Alive, Do(c) PROVE TypeOK'
  BY <1>17 DEF Do, StartDial, ClientState
<1>18. ASSUME NEW c \in Calls, Alive, DialEnds(c) PROVE TypeOK'
  <2>1. RestOK'
    BY <1>18 DEF DialEnds, DialOutcome, RestOK
  <2>2. CASE Return(c, clients)
    BY <2>1, <2>2, ReturnTypes DEF RestOK
  <2>3. CASE ~Return(c, clients)
    <3>1. UNCHANGED <<client, asked, unsafePointers, frees, input, draft>>
      BY <1>18, <2>3 DEF DialEnds, DialOutcome
    <3>2. own' \in [Calls -> ClientIds \cup {"nil", None}]
      BY <1>18, <2>3 DEF DialEnds, DialOutcome
    <3>3. pc' \in [Calls -> States]
      BY <1>18, <2>3 DEF DialEnds, DialOutcome
    <3> QED
      BY <2>1, <3>1, <3>2, <3>3 DEF RestOK
  <2> QED
    BY <2>2, <2>3
<1>19. ASSUME NEW c \in Calls, Alive, BuildResponse(c) PROVE TypeOK'
  <2>1. RestOK'
    BY <1>19 DEF BuildResponse, RestOK
  <2>2. CASE Return(c, clients)
    BY <2>1, <2>2, ReturnTypes DEF RestOK
  <2>3. CASE ~Return(c, clients)
    <3>1. UNCHANGED <<client, asked, unsafePointers, frees, input, draft>>
      BY <1>19, <2>3 DEF BuildResponse
    <3>2. own' \in [Calls -> ClientIds \cup {"nil", None}]
      BY <1>19, <2>3 DEF BuildResponse
    <3>3. pc' \in [Calls -> States]
      BY <1>19, <2>3 DEF BuildResponse
    <3> QED
      BY <2>1, <3>1, <3>2, <3>3 DEF RestOK
  <2> QED
    BY <2>2, <2>3
<1>20. ASSUME NEW c \in Calls, Alive, UseClient(c) PROVE TypeOK'
  <2>1. RestOK'
    BY <1>20 DEF UseClient, RestOK
  <2>2. CASE Return(c, clients)
    BY <2>1, <2>2, ReturnTypes DEF RestOK
  <2>3. CASE ~Return(c, clients)
    <3>1. UNCHANGED <<client, asked, unsafePointers, frees, input, draft>>
      BY <1>20, <2>3 DEF UseClient
    <3>2. own' \in [Calls -> ClientIds \cup {"nil", None}]
      BY <1>20, <2>3 DEF UseClient
    <3>3. pc' \in [Calls -> States]
      BY <1>20, <2>3 DEF UseClient
    <3> QED
      BY <2>1, <3>1, <3>2, <3>3 DEF RestOK
  <2> QED
    BY <2>2, <2>3
<1>21. ASSUME NEW c \in Calls, Alive, CloseIdle(c) PROVE TypeOK'
  BY <1>21 DEF CloseIdle
<1>22. ASSUME NEW c \in Calls, Alive, Removed(c) PROVE TypeOK'
  BY <1>22, ReturnTypes DEF Removed
<1>23. ASSUME NEW c \in Calls, Alive, Redial(c) PROVE TypeOK'
  BY <1>23 DEF Redial, StartDial, ClientState
<1>24. ASSUME NEW c \in Calls, Alive, RedialEnds(c) PROVE TypeOK'
  <2>1. RestOK'
    BY <1>24 DEF RedialEnds, DialOutcome, RestOK
  <2>2. CASE Return(c, clients)
    BY <2>1, <2>2, ReturnTypes DEF RestOK
  <2>3. CASE ~Return(c, clients)
    <3>1. UNCHANGED <<client, asked, unsafePointers, frees, input, draft>>
      BY <1>24, <2>3 DEF RedialEnds, DialOutcome
    <3>2. own' \in [Calls -> ClientIds \cup {"nil", None}]
      BY <1>24, <2>3 DEF RedialEnds, DialOutcome
    <3>3. pc' \in [Calls -> States]
      BY <1>24, <2>3 DEF RedialEnds, DialOutcome
    <3> QED
      BY <2>1, <3>1, <3>2, <3>3 DEF RestOK
  <2> QED
    BY <2>2, <2>3
<1>25. CASE UNCHANGED vars
  BY <1>25 DEF vars
<1> QED
  BY <1>1, <1>2, <1>3, <1>4, <1>5, <1>6, <1>7, <1>8, <1>9, <1>10, <1>11,
     <1>12, <1>13, <1>14, <1>15, <1>16, <1>17, <1>18, <1>19, <1>20, <1>21,
     <1>22, <1>23, <1>24, <1>25
     DEF Next, Locked, Running

\* The proxy of a client only becomes one that a request of it asks for, and
\* what has been asked is remembered while anybody refers to the client.
LEMMA StepAsked ==
  TypeOK /\ Fits /\ Asked /\ [Next]_vars => Asked'
<1> SUFFICES ASSUME TypeOK, Fits, Asked, [Next]_vars
             PROVE  Asked'
  OBVIOUS
<1> USE InputTypes, SessionsAssumption
    DEF TypeOK, Fits, InputFits, OwnFits, Asked, ProxyIsAsked, DraftIsAsked,
        NoUnaskedWay, InUse, Live, sessionVars, clientVars, requestVars,
        pinVars, stringVars, Goto, Session
<1>1. ASSUME NEW c \in Calls, Alive, request(c) PROVE Asked'
  BY <1>1 DEF request, Begin
<1>2. ASSUME NEW c \in Calls, Alive, Unreadable(c) PROVE Asked'
  BY <1>2, ReturnAsked DEF Unreadable
<1>3. ASSUME NEW c \in Calls, Alive, cookiesOfSession(c) PROVE Asked'
  BY <1>3 DEF cookiesOfSession, Begin
<1>4. ASSUME NEW c \in Calls, Alive, destroy(c) PROVE Asked'
  BY <1>4 DEF destroy, Begin
<1>5. ASSUME NEW c \in Calls, Alive, freeMemory(c) PROVE Asked'
  BY <1>5 DEF freeMemory, Free, vars
<1>6. ASSUME NEW c \in Calls, Alive, CreateClient(c) PROVE Asked'
  BY <1>6, ReturnAsked DEF CreateClient
<1>7. ASSUME NEW c \in Calls, Alive, getTlsClient(c) PROVE Asked'
  BY <1>7
     DEF getTlsClient, InGetTlsClient, StartDraft, Options, ProxyOf, Refused,
         ProxyWorks
<1>8. ASSUME NEW c \in Calls, Alive, getTlsClientFails(c) PROVE Asked'
  BY <1>8, ReturnAsked DEF getTlsClientFails, InGetTlsClient
<1>9. ASSUME NEW c \in Calls, Alive, getTlsClientPanics(c) PROVE Asked'
  BY <1>9 DEF getTlsClientPanics, InGetTlsClient
<1>10. ASSUME NEW c \in Calls, Alive, ModificationFails(c) PROVE Asked'
  BY <1>10, ReturnAsked DEF ModificationFails, InGetTlsClient
<1>11. ASSUME NEW c \in Calls, Alive, handleModification(c) PROVE Asked'
  <2> DEFINE k == clients[Session(c)]
  <2>1. k \in ClientIds
    BY <1>11 DEF handleModification, InGetTlsClient
  <2>2. client[k].proxy \in asked[k]
    BY <2>1, <1>11 DEF handleModification, InGetTlsClient
  <2>3. CASE ~WantsProxy(input[c], k)
    BY <1>11, <2>1, <2>2, <2>3 DEF handleModification, InGetTlsClient
  <2>4. CASE WantsProxy(input[c], k)
    <3>1. draft' = [draft EXCEPT ![c] =
                      [client[k] EXCEPT !.proxy = ProxyAfter(input[c], k)]]
      BY <1>11, <2>4 DEF handleModification, StartDraft
    <3>2. draft'[c].proxy = ProxyAfter(input[c], k)
      BY <2>1, <3>1 DEF ClientState
    <3>3. \/ /\ draft'[c].proxy = ProxyOf(input[c])
             /\ draft'[c].proxy \in WorkingUrls
          \/ draft'[c].proxy \in asked[k]
      BY <2>2, <2>4, <3>2 DEF ProxyAfter, WantsProxy, ProxyWorks, ProxyOf
    <3>4. /\ UNCHANGED <<clients, client, asked, input, way>>
          /\ own' = [own EXCEPT ![c] = k]
          /\ pc' = [pc EXCEPT ![c] = "pin"]
      BY <1>11, <2>4 DEF handleModification, InGetTlsClient, StartDraft
    <3>5. Session(c) \in SessionIds
      BY <1>11 DEF handleModification, InGetTlsClient
    <3>6. \A j \in ClientIds : Live(j)' => Live(j)
      BY <3>4, <3>5
    <3>7. \A d \in Calls : d # c => draft'[d] = draft[d] /\ own'[d] = own[d]
      BY <3>1, <3>4
    <3> HIDE DEF ProxyOf, Live, WorkingUrls
    <3>8. ProxyIsAsked'
      BY <3>4, <3>6
    <3>9. DraftIsAsked'
      BY <2>1, <3>3, <3>4, <3>7 DEF ProxyOf
    <3>10. NoUnaskedWay'
      BY <3>4, <3>7
    <3> QED
      BY <3>8, <3>9, <3>10
  <2> QED
    BY <2>3, <2>4
<1>12. ASSUME NEW c \in Calls, Alive, GetClient(c) PROVE Asked'
  <2>1. CASE Return(c, clients)
    BY <1>12, <2>1, ReturnAsked DEF GetClient
  <2>2. CASE ~Return(c, clients)
    <3> DEFINE k == clients[Session(c)]
    <3>1. /\ UNCHANGED <<clients, client, asked, input, draft, way>>
          /\ pc' = [pc EXCEPT ![c] = "cookies"]
          /\ own' = [own EXCEPT ![c] = k]
      BY <1>12, <2>2 DEF GetClient
    <3>2. Session(c) \in SessionIds
      BY <1>12 DEF GetClient
    <3>3. \A j \in ClientIds : Live(j)' => Live(j)
      BY <3>1, <3>2
    <3> HIDE DEF Live
    <3> QED
      BY <3>1, <3>3 DEF ProxyOf
  <2> QED
    BY <2>1, <2>2
<1>13. ASSUME NEW c \in Calls, Alive, RemoveSession(c) PROVE Asked'
  BY <1>13 DEF RemoveSession
<1>14. ASSUME NEW c \in Calls, Alive, InitPinner(c) PROVE Asked'
  BY <1>14 DEF InitPinner
<1>15. ASSUME NEW c \in Calls, Alive, ClientReady(c) PROVE Asked'
  <2>1. PICK k \in ClientIds : ReadyAs(c, k)
    BY <1>15, ClientReadyAs
  <2>2. draft[c].proxy \in asked'[k]
    <3>1. asked'[k] = asked[k] \cup (IF ProxyOf(input[c]) \in WorkingUrls
                                   THEN {ProxyOf(input[c])} ELSE {})
      BY <2>1 DEF ReadyAs
    <3>2. pc[c] = "pin" /\ own[c] \in {k, None}
      BY <1>15, <2>1 DEF ClientReady, ReadyAs
    <3> QED
      BY <3>1, <3>2
  <2>3. \A j \in ClientIds : asked[j] \subseteq asked'[j]
    BY <2>1 DEF ReadyAs
  <2>4. ProxyIsAsked'
    BY <1>15, <2>1, <2>2 DEF ClientReady, ReadyAs
  <2>5. DraftIsAsked'
    <3>1. /\ UNCHANGED input
          /\ pc' = [pc EXCEPT ![c] = "send"]
          /\ own' = [own EXCEPT ![c] = k]
          /\ draft' = [draft EXCEPT ![c] = None]
      BY <1>15, <2>1 DEF ClientReady, ReadyAs
    <3> QED
      BY <2>3, <3>1 DEF ProxyOf
  <2>6. NoUnaskedWay'
    BY <1>15, <2>1, <2>3 DEF ClientReady, ReadyAs
  <2> QED
    BY <2>4, <2>5, <2>6
<1>16. ASSUME NEW c \in Calls, Alive, BuildRequestFails(c) PROVE Asked'
  <2>1. CASE Return(c, clients)
    BY <1>16, <2>1, ReturnAsked DEF BuildRequestFails
  <2>2. CASE ~Return(c, clients)
    BY <1>16, <2>2 DEF BuildRequestFails
  <2> QED
    BY <2>1, <2>2
<1>17. ASSUME NEW c \in Calls, Alive, Do(c) PROVE Asked'
  BY <1>17 DEF Do, StartDial, StartDial
<1>18. ASSUME NEW c \in Calls, Alive, DialEnds(c) PROVE Asked'
  <2>1. CASE Return(c, clients)
    BY <1>18, <2>1, ReturnAsked DEF DialEnds, DialOutcome
  <2>2. CASE ~Return(c, clients)
    BY <1>18, <2>2 DEF DialEnds, DialOutcome
  <2> QED
    BY <2>1, <2>2
<1>19. ASSUME NEW c \in Calls, Alive, BuildResponse(c) PROVE Asked'
  <2>1. CASE Return(c, clients)
    BY <1>19, <2>1, ReturnAsked DEF BuildResponse
  <2>2. CASE ~Return(c, clients)
    BY <1>19, <2>2 DEF BuildResponse
  <2> QED
    BY <2>1, <2>2
<1>20. ASSUME NEW c \in Calls, Alive, UseClient(c) PROVE Asked'
  <2>1. CASE Return(c, clients)
    BY <1>20, <2>1, ReturnAsked DEF UseClient
  <2>2. CASE ~Return(c, clients)
    BY <1>20, <2>2 DEF UseClient
  <2> QED
    BY <2>1, <2>2
<1>21. ASSUME NEW c \in Calls, Alive, CloseIdle(c) PROVE Asked'
  BY <1>21 DEF CloseIdle
<1>22. ASSUME NEW c \in Calls, Alive, Removed(c) PROVE Asked'
  BY <1>22, ReturnAsked DEF Removed
<1>23. ASSUME NEW c \in Calls, Alive, Redial(c) PROVE Asked'
  BY <1>23 DEF Redial, StartDial
<1>24. ASSUME NEW c \in Calls, Alive, RedialEnds(c) PROVE Asked'
  <2>1. CASE Return(c, clients)
    BY <1>24, <2>1, ReturnAsked DEF RedialEnds, DialOutcome
  <2>2. CASE ~Return(c, clients)
    BY <1>24, <2>2 DEF RedialEnds, DialOutcome
  <2> QED
    BY <2>1, <2>2
<1>25. CASE UNCHANGED vars
  BY <1>25 DEF vars
<1> QED
  BY <1>1, <1>2, <1>3, <1>4, <1>5, <1>6, <1>7, <1>8, <1>9, <1>10, <1>11,
     <1>12, <1>13, <1>14, <1>15, <1>16, <1>17, <1>18, <1>19, <1>20, <1>21,
     <1>22, <1>23, <1>24, <1>25
     DEF Next, Locked, Running

\* The map only changes under clientsLock.
LEMMA StepHeld ==
  TypeOK /\ Fits /\ Holds /\ [Next]_vars => Holds'
<1> SUFFICES ASSUME TypeOK, Fits, Holds, [Next]_vars
             PROVE  Holds'
  OBVIOUS
<1> USE InputTypes, SessionsAssumption
    DEF TypeOK, Fits, Holds, LockIsHeld, Alive, InputFits, OwnFits,
        SessionIsHeld, sessionVars, clientVars, requestVars, pinVars,
        stringVars, Goto, Session
<1>1. ASSUME NEW c \in Calls, Alive, request(c) PROVE Holds'
  BY <1>1 DEF request, Begin
<1>2. ASSUME NEW c \in Calls, Alive, Unreadable(c) PROVE Holds'
  BY <1>2 DEF Unreadable, Return
<1>3. ASSUME NEW c \in Calls, Alive, cookiesOfSession(c) PROVE Holds'
  BY <1>3 DEF cookiesOfSession, Begin
<1>4. ASSUME NEW c \in Calls, Alive, destroy(c) PROVE Holds'
  BY <1>4 DEF destroy, Begin
<1>5. ASSUME NEW c \in Calls, Alive, freeMemory(c) PROVE Holds'
  BY <1>5 DEF freeMemory, Free, vars
<1>6. ASSUME NEW c \in Calls, Alive, CreateClient(c) PROVE Holds'
  BY <1>6 DEF CreateClient, Return
<1>7. ASSUME NEW c \in Calls, Alive, getTlsClient(c) PROVE Holds'
  BY <1>7 DEF getTlsClient, InGetTlsClient, StartDraft
<1>8. ASSUME NEW c \in Calls, Alive, getTlsClientFails(c) PROVE Holds'
  BY <1>8 DEF getTlsClientFails, Return, InGetTlsClient
<1>9. ASSUME NEW c \in Calls, Alive, getTlsClientPanics(c) PROVE Holds'
  BY <1>9 DEF getTlsClientPanics, InGetTlsClient
<1>10. ASSUME NEW c \in Calls, Alive, ModificationFails(c) PROVE Holds'
  BY <1>10 DEF ModificationFails, Return, InGetTlsClient
<1>11. ASSUME NEW c \in Calls, Alive, handleModification(c) PROVE Holds'
  BY <1>11 DEF handleModification, InGetTlsClient, StartDraft
<1>12. ASSUME NEW c \in Calls, Alive, GetClient(c) PROVE Holds'
  <2>1. CASE Return(c, clients)
    BY <1>12, <2>1 DEF GetClient, Return
  <2>2. CASE ~Return(c, clients)
    <3>1. /\ UNCHANGED <<clients, clientsLock, input>>
          /\ pc[c] = "lookUp" /\ pc' = [pc EXCEPT ![c] = "cookies"]
          /\ \A d \in Calls \ {c} : own'[d] = own[d]
      BY <1>12, <2>2 DEF GetClient
    <3> QED
      BY <3>1
  <2> QED
    BY <2>1, <2>2
<1>13. ASSUME NEW c \in Calls, Alive, RemoveSession(c) PROVE Holds'
  BY <1>13 DEF RemoveSession
<1>14. ASSUME NEW c \in Calls, Alive, InitPinner(c) PROVE Holds'
  BY <1>14 DEF InitPinner
<1>15. ASSUME NEW c \in Calls, Alive, ClientReady(c) PROVE Holds'
  BY <1>15 DEF ClientReady
<1>16. ASSUME NEW c \in Calls, Alive, BuildRequestFails(c) PROVE Holds'
  <2>1. CASE Return(c, clients)
    BY <1>16, <2>1 DEF BuildRequestFails, Return
  <2>2. CASE ~Return(c, clients)
    BY <1>16, <2>2 DEF BuildRequestFails
  <2> QED
    BY <2>1, <2>2
<1>17. ASSUME NEW c \in Calls, Alive, Do(c) PROVE Holds'
  BY <1>17 DEF Do, StartDial, StartDial
<1>18. ASSUME NEW c \in Calls, Alive, DialEnds(c) PROVE Holds'
  <2>1. CASE Return(c, clients)
    BY <1>18, <2>1 DEF DialEnds, DialOutcome, Return
  <2>2. CASE ~Return(c, clients)
    BY <1>18, <2>2 DEF DialEnds, DialOutcome
  <2> QED
    BY <2>1, <2>2
<1>19. ASSUME NEW c \in Calls, Alive, BuildResponse(c) PROVE Holds'
  <2>1. CASE Return(c, clients)
    BY <1>19, <2>1 DEF BuildResponse, Return
  <2>2. CASE ~Return(c, clients)
    BY <1>19, <2>2 DEF BuildResponse
  <2> QED
    BY <2>1, <2>2
<1>20. ASSUME NEW c \in Calls, Alive, UseClient(c) PROVE Holds'
  <2>1. CASE Return(c, clients)
    BY <1>20, <2>1 DEF UseClient, Return
  <2>2. CASE ~Return(c, clients)
    BY <1>20, <2>2 DEF UseClient
  <2> QED
    BY <2>1, <2>2
<1>21. ASSUME NEW c \in Calls, Alive, CloseIdle(c) PROVE Holds'
  BY <1>21 DEF CloseIdle
<1>22. ASSUME NEW c \in Calls, Alive, Removed(c) PROVE Holds'
  BY <1>22 DEF Removed, Return
<1>23. ASSUME NEW c \in Calls, Alive, Redial(c) PROVE Holds'
  BY <1>23 DEF Redial, StartDial
<1>24. ASSUME NEW c \in Calls, Alive, RedialEnds(c) PROVE Holds'
  <2>1. CASE Return(c, clients)
    BY <1>24, <2>1 DEF RedialEnds, DialOutcome, Return
  <2>2. CASE ~Return(c, clients)
    BY <1>24, <2>2 DEF RedialEnds, DialOutcome
  <2> QED
    BY <2>1, <2>2
<1>25. CASE UNCHANGED vars
  BY <1>25 DEF vars
<1> QED
  BY <1>1, <1>2, <1>3, <1>4, <1>5, <1>6, <1>7, <1>8, <1>9, <1>10, <1>11,
     <1>12, <1>13, <1>14, <1>15, <1>16, <1>17, <1>18, <1>19, <1>20, <1>21,
     <1>22, <1>23, <1>24, <1>25
     DEF Next, Locked, Running


-----------------------------------------------------------------------------
(* Looking up pins *)

\* A set of numbers has a least one.
LEMMA NatMin ==
  ASSUME NEW T \in SUBSET Nat, T # {}
  PROVE  \E n \in T : \A m \in T : n <= m
<1>1. \E n \in T : \A m \in T : ~(<<m, n>> \in OpToRel(<, Nat))
  BY WFMin, NatLessThanWellFounded, Zenon
<1>2. \A m, n \in Nat : m < n => <<m, n>> \in OpToRel(<, Nat)
  BY DEF OpToRel
<1>3. \E n \in T : \A m \in T : ~(m < n)
  BY <1>1, <1>2, Zenon
<1> QED
  BY <1>3

\* A host name is a sequence of labels.
IsHostName(h) == h \in Seq({h[i] : i \in DOMAIN h})

\* A host name without its first i - 1 labels.
Suffix(h, i) == SubSeq(h, i, Len(h))

\* A suffix of a suffix is a suffix.
LEMMA SuffixOfSuffix ==
  ASSUME NEW h, IsHostName(h), NEW i \in 1 .. Len(h), NEW j \in i .. Len(h)
  PROVE  /\ Len(Suffix(h, i)) = Len(h) - i + 1
         /\ Suffix(Suffix(h, i), j - i + 1) = Suffix(h, j)
<1> DEFINE S == {h[k] : k \in DOMAIN h}
           n == Len(h)
<1>1. h \in Seq(S) /\ n \in Nat /\ \A k \in 1 .. n : h[k] \in S
  BY DEF IsHostName
<1> HIDE DEF S
<1>2. /\ SubSeq(h, i, n) \in Seq(S) /\ Len(SubSeq(h, i, n)) = n - i + 1
      /\ \A k \in 1 .. n - i + 1 : SubSeq(h, i, n)[k] = h[i + k - 1]
  BY <1>1, SubSeqProperties
<1>3. SubSeq(SubSeq(h, i, n), j - i + 1, n - i + 1) = SubSeq(h, j, n)
  <2>1. /\ j - i + 1 \in 1 .. n - i + 1 /\ n - i + 1 \in 1 .. n - i + 1
        /\ i + (j - i + 1) - 1 = j /\ i + (n - i + 1) - 1 = n
        /\ n \in 1 .. Len(h)
    BY <1>1
  <2> QED
    BY <1>1, <2>1, SubSeqOfSubSeq
<1> QED
  BY <1>2, <1>3 DEF Suffix

\* A parent of a parent is a parent.
LEMMA ParentsOfParents ==
  ASSUME NEW h, IsHostName(h), NEW p \in Parents(h), NEW q \in Parents(p)
  PROVE  q \in Parents(h)
<1>1. PICK i \in 2 .. Len(h) : p = Suffix(h, i)
  BY DEF Parents, Suffix
<1>0. Len(h) \in Nat
  BY DEF IsHostName
<1>2. Len(h) \in Nat /\ Len(p) = Len(h) - i + 1
  <2>1. i \in 1 .. Len(h) /\ i \in i .. Len(h)
    BY <1>0
  <2> QED
    BY <1>1, <1>0, <2>1, SuffixOfSuffix
<1>3. PICK j \in 2 .. Len(p) : q = Suffix(p, j)
  BY DEF Parents, Suffix
<1>4. /\ i \in 1 .. Len(h)
      /\ i + j - 1 \in i .. Len(h) /\ i + j - 1 \in 2 .. Len(h)
      /\ (i + j - 1) - i + 1 = j
  BY <1>2
<1>5. q = Suffix(h, i + j - 1)
  BY <1>1, <1>3, <1>4, SuffixOfSuffix
<1> QED
  BY <1>4, <1>5 DEF Parents, Suffix

\* Of two hosts that cover the same one, one covers the other.
LEMMA ParentsCompare ==
  ASSUME NEW h, IsHostName(h),
         NEW p \in {h} \cup Parents(h), NEW q \in {h} \cup Parents(h)
  PROVE  p = q \/ p \in Parents(q) \/ q \in Parents(p)
<1>1. Len(h) \in Nat
  BY DEF IsHostName
<1>2. ASSUME NEW i \in 2 .. Len(h), NEW j \in 2 .. Len(h), i < j
      PROVE  Suffix(h, j) \in Parents(Suffix(h, i))
  <2>1. i \in 1 .. Len(h) /\ j \in i .. Len(h)
    BY <1>1, <1>2
  <2>2. /\ Len(Suffix(h, i)) = Len(h) - i + 1
        /\ Suffix(Suffix(h, i), j - i + 1) = Suffix(h, j)
    BY <2>1, SuffixOfSuffix
  <2>3. j - i + 1 \in 2 .. Len(Suffix(h, i))
    BY <1>1, <1>2, <2>2
  <2> QED
    BY <2>2, <2>3 DEF Parents, Suffix
<1>3. \A r \in Parents(h) : \E i \in 2 .. Len(h) : r = Suffix(h, i)
  BY DEF Parents, Suffix
<1>4. CASE p \in Parents(h) /\ q \in Parents(h)
  <2>1. PICK i \in 2 .. Len(h) : p = Suffix(h, i)
    BY <1>3, <1>4
  <2>2. PICK j \in 2 .. Len(h) : q = Suffix(h, j)
    BY <1>3, <1>4
  <2>3. i < j \/ i = j \/ j < i
    BY <1>1
  <2> QED
    BY <1>2, <2>1, <2>2, <2>3
<1> QED
  BY <1>4

\* A host name p covers host h in the store.
Covers(p, h) ==
  /\ p \in PinHosts /\ certificatePinStorage[p] # None
  /\ p = h \/ (p \in Parents(h) /\ certificatePinStorage[p].sub)

\* Lookup finds an entry that covers the host, if there is one.
LEMMA LookupFinds ==
  ASSUME NEW h, IsHostName(h)
  PROVE  /\ Lookup(h) # None =>
              \E p : Covers(p, h) /\ Lookup(h) = certificatePinStorage[p]
         /\ \A p : Covers(p, h) => Lookup(h) # None
<1> DEFINE Stored(p) == p \in PinHosts /\ certificatePinStorage[p] # None
           covers == {p \in Parents(h) :
                        Stored(p) /\ certificatePinStorage[p].sub}
           nearest == CHOOSE p \in covers : \A q \in covers : Len(q) <= Len(p)
<1>1. Lookup(h) = IF Stored(h) THEN certificatePinStorage[h]
                  ELSE IF covers = {} THEN None
                  ELSE certificatePinStorage[nearest]
  BY Zenon DEF Lookup
<1>2. ASSUME covers # {} PROVE nearest \in covers
  <2> DEFINE T == {i \in 2 .. Len(h) : Suffix(h, i) \in covers}
  <2>1. Len(h) \in Nat
    BY DEF IsHostName
  <2>2. \A q \in covers : \E i \in 2 .. Len(h) : q = Suffix(h, i)
    BY DEF Parents, Suffix
  <2>3. T \in SUBSET Nat /\ T # {}
    BY <1>2, <2>1, <2>2
  <2> HIDE DEF covers
  <2>4. PICK i \in T : \A j \in T : i <= j
    BY <2>3, NatMin
  <2>5. ASSUME NEW j \in T PROVE Len(Suffix(h, j)) <= Len(Suffix(h, i))
    <3>1. /\ i \in 1 .. Len(h) /\ j \in 1 .. Len(h) /\ i <= j
          /\ i \in i .. Len(h) /\ j \in j .. Len(h)
      BY <2>1, <2>4
    <3>2. /\ Len(Suffix(h, i)) = Len(h) - i + 1
          /\ Len(Suffix(h, j)) = Len(h) - j + 1
      BY <3>1, SuffixOfSuffix
    <3> QED
      BY <2>1, <3>1, <3>2
  <2>6. \A q \in covers : Len(q) <= Len(Suffix(h, i))
    BY <2>2, <2>5
  <2>7. \E p \in covers : \A q \in covers : Len(q) <= Len(p)
    BY <2>4, <2>6
  <2> QED
    BY <2>7, Zenon
<1> HIDE DEF nearest
<1>3. ASSUME Lookup(h) # None
      PROVE  \E p : Covers(p, h) /\ Lookup(h) = certificatePinStorage[p]
  <2>1. CASE Stored(h)
    BY <1>1, <2>1 DEF Covers
  <2>2. CASE ~Stored(h)
    BY <1>1, <1>2, <1>3, <2>2 DEF Covers
  <2> QED
    BY <2>1, <2>2
<1>4. ASSUME NEW p, Covers(p, h) PROVE Lookup(h) # None
  BY <1>1, <1>2, <1>4 DEF Covers
<1> QED
  BY <1>3, <1>4

-----------------------------------------------------------------------------
(* Pins that nobody disputes *)

\* What is stored has been registered, and what is registered are entries.
StoreIsGiven ==
  /\ DOMAIN certificatePinStorage = PinHosts
  /\ given \subseteq PinEntry
  /\ \A h \in PinHosts :
       certificatePinStorage[h] # None =>
         \E e \in given :
           /\ e.host = h
           /\ certificatePinStorage[h] = [pins |-> e.pins, sub |-> e.sub]

\* An entry is in effect if the store covers its host.
InEffect(e) == \E p : Covers(p, e.host)

\* The pins of every client are in effect, unless they are disputed.
ClientsArePinned ==
  \A k \in ClientIds :
    Undisputed(client[k].pins, given) => \A e \in client[k].pins : InEffect(e)

\* So are those of a draft that have been registered; a changed client keeps its
\* pins.
DraftsArePinned ==
  \A c \in Calls :
    pc[c] = "pin" =>
      /\ todo[c] \subseteq draft[c].pins
      /\ Undisputed(draft[c].pins, given) =>
           \A e \in draft[c].pins \ todo[c] : InEffect(e)
      /\ own[c] # None => draft[c].pins = client[own[c]].pins

Pinned == ClientsArePinned /\ DraftsArePinned

PinsHold == Pinned /\ PinsInEffect
PinInv == StoreIsGiven /\ PinsHold

\* What nobody disputes, nobody has disputed before.
LEMMA UndisputedBefore ==
  ASSUME NEW pins, NEW G, NEW H, G \subseteq H, Undisputed(pins, H)
  PROVE  Undisputed(pins, G)
BY DEF Undisputed

\* RegisterPins puts an entry in effect, and another one that is in effect stays
\* so if what is registered does not dispute it.
LEMMA PinsRegistered ==
  ASSUME StoreIsGiven, NEW g \in PinEntry, RegisterPins(g),
         given' = given \cup {g}
  PROVE  /\ StoreIsGiven'
         /\ InEffect(g)'
         /\ \A pins : Undisputed(pins, given') =>
              \A e \in pins : InEffect(e) => InEffect(e)'
<1>1. g.host \in PinHosts /\ IsHostName(g.host)
  BY SessionsAssumption DEF PinEntry, IsHostName
<1> DEFINE r == [pins |-> g.pins, sub |-> g.sub]
<1>2. r # None /\ r.pins = g.pins /\ r.sub = g.sub
  BY SessionsAssumption DEF PinEntry
<1>3. CASE /\ certificatePinStorage' = certificatePinStorage
           /\ Lookup(g.host) # None
  <2>1. \E p : Covers(p, g.host)
    BY <1>1, <1>3, LookupFinds
  <2> QED
    BY <1>3, <2>1 DEF StoreIsGiven, InEffect, Covers
<1>4. CASE /\ certificatePinStorage' =
                [certificatePinStorage EXCEPT ![g.host] = r]
           /\ Lookup(g.host) = None \/ Lookup(g.host).pins # g.pins
  <2>1. /\ DOMAIN certificatePinStorage' = PinHosts
        /\ certificatePinStorage'[g.host] = r
        /\ \A h \in PinHosts : h # g.host =>
             certificatePinStorage'[h] = certificatePinStorage[h]
    BY <1>1, <1>4 DEF StoreIsGiven
  <2>2. certificatePinStorage[g.host] # None =>
          certificatePinStorage[g.host].pins # g.pins
    BY <1>1, <1>4 DEF Lookup
  <2> HIDE DEF r
  <2>3. StoreIsGiven'
    BY <2>1 DEF StoreIsGiven, r
  <2>4. Covers(g.host, g.host)'
    BY <1>1, <1>2, <2>1 DEF Covers
  <2>5. ASSUME NEW pins, Undisputed(pins, given'), NEW e \in pins,
               NEW p, Covers(p, e.host)
        PROVE  Covers(p, e.host)'
    <3>1. CASE p # g.host
      BY <2>1, <2>5, <3>1 DEF Covers
    <3>2. CASE p = g.host /\ p = e.host
      BY <2>4, <3>2 DEF Covers
    <3>3. CASE p = g.host /\ p \in Parents(e.host)
      <4>1. PICK f \in given :
              /\ f.host = p
              /\ certificatePinStorage[p] = [pins |-> f.pins, sub |-> f.sub]
        BY <2>5 DEF Covers, StoreIsGiven
      <4>2. f \in pins \/ f.pins = e.pins
        BY <2>5, <3>3, <4>1 DEF Undisputed
      <4>3. g \in pins \/ g.pins = e.pins
        BY <2>5, <3>3 DEF Undisputed
      <4>4. f \in pins \/ g \in pins => f = g
        BY <2>5, <3>3, <4>1 DEF Undisputed
      <4>5. f.pins # g.pins
        BY <2>2, <2>5, <3>3, <4>1 DEF Covers
      <4> QED
        BY <4>2, <4>3, <4>4, <4>5
    <3> QED
      BY <2>5, <3>1, <3>2, <3>3 DEF Covers
  <2>6. \A pins : Undisputed(pins, given') =>
          \A e \in pins : InEffect(e) => InEffect(e)'
    BY <2>5, Zenon DEF InEffect
  <2> QED
    BY <2>3, <2>4, <2>6 DEF InEffect
<1> QED
  BY <1>3, <1>4, Zenon DEF RegisterPins

\* A certificate that Pin lets pass has one of the client's own pins for the
\* host, if it has any.
LEMMA PinEnforces ==
  ASSUME StoreIsGiven, NEW pins, Undisputed(pins, given),
         \A e \in pins : InEffect(e),
         NEW host \in Hosts, NEW k, Pin(pins, host, k)
  PROVE  OwnPins(pins, host) = {} \/ k \in OwnPins(pins, host)
<1> SUFFICES ASSUME OwnPins(pins, host) # {}
             PROVE  k \in OwnPins(pins, host)
  OBVIOUS
<1> DEFINE Mine(e) == \/ e.host = host
                      \/ e.sub /\ e.host \in Parents(host)
<1>1. PICK e \in pins : Mine(e)
  BY DEF OwnPins
<1>2. IsHostName(host)
  BY SessionsAssumption DEF IsHostName
<1>3. \E p : Covers(p, host)
  <2>1. PICK p : Covers(p, e.host)
    BY <1>1 DEF InEffect
  <2>2. CASE e.host = host
    BY <2>1, <2>2
  <2>3. CASE e.sub /\ e.host \in Parents(host) /\ p = e.host
    <3>1. PICK f \in given :
            /\ f.host = p
            /\ certificatePinStorage[p] = [pins |-> f.pins, sub |-> f.sub]
      BY <2>1 DEF Covers, StoreIsGiven
    <3>2. certificatePinStorage[p].sub
      BY <1>1, <2>3, <3>1 DEF Undisputed
    <3> QED
      BY <2>1, <2>3, <3>2 DEF Covers
  <2>4. CASE e.sub /\ e.host \in Parents(host) /\ p # e.host
    <3>1. p \in Parents(host)
      BY <1>2, <2>1, <2>4, ParentsOfParents DEF Covers
    <3> QED
      BY <2>1, <2>4, <3>1 DEF Covers
  <2> QED
    BY <1>1, <2>2, <2>3, <2>4
<1>4. Lookup(host) # None
  BY <1>2, <1>3, LookupFinds
<1>5. PICK q : Covers(q, host) /\ Lookup(host) = certificatePinStorage[q]
  BY <1>2, <1>4, LookupFinds
<1>6. PICK f \in given :
        /\ f.host = q
        /\ certificatePinStorage[q] = [pins |-> f.pins, sub |-> f.sub]
  BY <1>5 DEF Covers, StoreIsGiven
<1>7. Mine(f)
  BY <1>5, <1>6 DEF Covers
<1>8. PICK n \in DOMAIN f.pins : f.pins[n] = k
  BY <1>1, <1>4, <1>5, <1>6 DEF Pin
<1>9. e.host = q \/ e.host \in Parents(q) \/ q \in Parents(e.host)
  <2>1. e.host \in {host} \cup Parents(host) /\ q \in {host} \cup Parents(host)
    BY <1>1, <1>5 DEF Covers
  <2> QED
    BY <1>2, <2>1, ParentsCompare
<1>10. f \in pins \/ f.pins = e.pins
  BY <1>1, <1>6, <1>9 DEF Undisputed
<1> HIDE DEF Mine
<1>11. \A x \in pins : Mine(x) =>
         \A i \in DOMAIN x.pins : x.pins[i] \in OwnPins(pins, host)
  BY DEF OwnPins, Mine
<1> QED
  BY <1>1, <1>7, <1>8, <1>10, <1>11

\* What a step does to the pins that have been registered: those in effect stay
\* so unless they are disputed now.
EffectKept ==
  /\ given \subseteq given'
  /\ \A pins : Undisputed(pins, given') =>
       \A e \in pins : InEffect(e) => InEffect(e)'

\* Only InitPinner changes the store.
LEMMA StepStore ==
  TypeOK /\ Fits /\ PinInv /\ [Next]_vars => StoreIsGiven' /\ EffectKept
<1> SUFFICES ASSUME TypeOK, Fits, PinInv, [Next]_vars
             PROVE  StoreIsGiven' /\ EffectKept
  OBVIOUS
<1>1. ASSUME NEW c \in Calls, InitPinner(c)
      PROVE  StoreIsGiven' /\ EffectKept
  <2>1. PICK e \in todo[c] : RegisterPins(e) /\ given' = given \cup {e}
    BY <1>1 DEF InitPinner
  <2>2. e \in PinEntry
    BY <1>1 DEF InitPinner, PinInv, PinsHold, Pinned, DraftsArePinned, Fits,
                OwnFits, ClientState
  <2> QED
    BY <2>1, <2>2, PinsRegistered DEF PinInv, EffectKept
<1>2. CASE UNCHANGED <<certificatePinStorage, given>>
  BY <1>2 DEF PinInv, StoreIsGiven, InEffect, Covers, EffectKept
<1> QED
  BY <1>1, <1>2, ZenonT(60)
     DEF Next, Locked, Running, request, cookiesOfSession, destroy, Begin,
         Unreadable, freeMemory, Free, CreateClient, getTlsClient,
         getTlsClientFails, getTlsClientPanics, ModificationFails,
         handleModification, InGetTlsClient, GetClient, RemoveSession,
         ClientReady, BuildRequestFails, Do, Redial, StartDial, DialEnds,
         RedialEnds, DialOutcome, BuildResponse, UseClient, CloseIdle, Removed,
         pinVars, vars

\* A step leaves the pins of clients that are in use, of drafts and of exchanges
\* as they are.
KeepsPins ==
  /\ \A k \in ClientIds : client'[k].pins \in {client[k].pins, {}}
  /\ \A d \in Calls : pc'[d] \in {"pin", "exchange"} =>
       /\ pc'[d] = pc[d] /\ own'[d] = own[d] /\ input'[d] = input[d]
       /\ draft'[d] = draft[d] /\ todo'[d] = todo[d]
       /\ protocol'[d] = protocol[d] /\ key'[d] = key[d]
       /\ own[d] \in ClientIds =>
            client'[own[d]].pins = client[own[d]].pins

\* Such a step keeps the invariants on pins.
LEMMA PinsKept ==
  ASSUME Fits, PinsHold, EffectKept, KeepsPins
  PROVE  PinsHold'
<1> USE DEF Fits, OwnFits, PinsHold, Pinned, EffectKept, KeepsPins
<1>1. ASSUME NEW k \in ClientIds, Undisputed(client'[k].pins, given'),
             NEW e \in client'[k].pins
      PROVE  InEffect(e)'
  <2>1. client'[k].pins = client[k].pins
    BY <1>1
  <2>2. Undisputed(client[k].pins, given)
    BY <1>1, <2>1, UndisputedBefore
  <2> QED
    BY <1>1, <2>1, <2>2 DEF ClientsArePinned
<1>2. ClientsArePinned'
  BY <1>1, Zenon DEF ClientsArePinned
<1>3. ASSUME NEW d \in Calls, pc'[d] = "pin"
      PROVE  /\ todo'[d] \subseteq draft'[d].pins
             /\ own'[d] # None => draft'[d].pins = client'[own'[d]].pins
  BY <1>3 DEF DraftsArePinned
<1>4. ASSUME NEW d \in Calls, pc'[d] = "pin",
             Undisputed(draft'[d].pins, given'),
             NEW e \in draft'[d].pins \ todo'[d]
      PROVE  InEffect(e)'
  <2>1. pc[d] = "pin" /\ draft'[d] = draft[d] /\ todo'[d] = todo[d]
    BY <1>4
  <2>2. Undisputed(draft[d].pins, given)
    BY <1>4, <2>1, UndisputedBefore
  <2> QED
    BY <1>4, <2>1, <2>2 DEF DraftsArePinned
<1>5. DraftsArePinned'
  BY <1>3, <1>4, Zenon DEF DraftsArePinned
<1>6. ASSUME NEW d \in Calls, pc'[d] = "exchange", protocol'[d] = "tcp",
             Undisputed(client'[own'[d]].pins, given')
      PROVE  MeetsPins(d)'
  <2>1. /\ pc[d] = "exchange" /\ protocol[d] = "tcp" /\ own'[d] = own[d]
        /\ input'[d] = input[d] /\ key'[d] = key[d]
        /\ client'[own[d]].pins = client[own[d]].pins
    BY <1>6
  <2>2. Undisputed(client[own[d]].pins, given)
    BY <1>6, <2>1, UndisputedBefore
  <2> QED
    BY <2>1, <2>2 DEF PinsInEffect, MeetsPins
<1>7. PinsInEffect'
  BY <1>6, Zenon DEF PinsInEffect
<1> QED
  BY <1>2, <1>5, <1>7

\* A call that returns leaves the clients that are in use as they are.
LEMMA ReturnKeeps ==
  ASSUME TypeOK, Fits, NEW c \in Calls, NEW m, Return(c, m),
         \A d \in Calls \ {c} : /\ todo'[d] = todo[d]
                                /\ protocol'[d] = protocol[d]
                                /\ key'[d] = key[d]
  PROVE  KeepsPins
<1> USE DEF TypeOK, Fits, OwnFits, Return, Goto
<1>1. \A k \in ClientIds :
        client'[k] = IF InUse(k, m, c) THEN client[k] ELSE NoClient
  OBVIOUS
<1>2. NoClient.pins = {}
  BY DEF NoClient
<1>3. ASSUME NEW d \in Calls, pc'[d] \in {"pin", "exchange"}
      PROVE  /\ d # c /\ pc'[d] = pc[d] /\ own'[d] = own[d]
             /\ input'[d] = input[d] /\ draft'[d] = draft[d]
             /\ own[d] \in ClientIds => client'[own[d]] = client[own[d]]
  BY <1>1, <1>3 DEF InUse
<1> QED
  BY <1>1, <1>2, <1>3 DEF KeepsPins

\* A dial ends with a certificate only if Pin lets it pass, and then one of the
\* client's own pins is met.
LEMMA OutcomePins ==
  ASSUME TypeOK, Fits, StoreIsGiven, PinsHold, EffectKept,
         NEW c \in Calls, pc[c] \in {"dial", "redial"}, DialOutcome(c)
  PROVE  PinsHold'
<1> USE SessionsAssumption
    DEF TypeOK, Fits, OwnFits, sessionVars, clientVars, pinVars, stringVars,
        Goto
<1>1. CASE Return(c, clients) /\ UNCHANGED <<cached, protocol, key>>
  BY <1>1, ReturnKeeps, PinsKept DEF DialOutcome
<1>2. CASE ~(Return(c, clients) /\ UNCHANGED <<cached, protocol, key>>)
  <2>1. PICK p \in {"tcp", "quic"}, k \in Keys :
          /\ p = "tcp" => Pin(client[own[c]].pins, input[c].host, k)
          /\ protocol' = [protocol EXCEPT ![c] = p]
          /\ key' = [key EXCEPT ![c] = k]
    BY <1>2 DEF DialOutcome
  <2>2. /\ UNCHANGED <<certificatePinStorage, given, client, own, input, draft,
                       todo>>
        /\ pc' = [pc EXCEPT ![c] = "exchange"]
    BY <1>2 DEF DialOutcome
  <2>3. input[c].host \in Hosts /\ own[c] \in ClientIds
    BY InputTypes DEF InputFits
  <2>4. Pinned'
    BY <2>2
       DEF PinsHold, Pinned, ClientsArePinned, DraftsArePinned, InEffect,
           Covers
  <2>5. ASSUME NEW d \in Calls, d # c, pc'[d] = "exchange",
               protocol'[d] = "tcp", Undisputed(client'[own'[d]].pins, given')
        PROVE  MeetsPins(d)'
    <3>1. /\ pc[d] = "exchange" /\ protocol[d] = "tcp" /\ key'[d] = key[d]
          /\ Undisputed(client[own[d]].pins, given)
      BY <2>1, <2>2, <2>5
    <3>2. MeetsPins(d)
      BY <3>1 DEF PinsHold, PinsInEffect
    <3> QED
      BY <2>2, <3>1, <3>2 DEF MeetsPins
  <2>6. ASSUME protocol'[c] = "tcp", Undisputed(client'[own'[c]].pins, given')
        PROVE  MeetsPins(c)'
    <3>1. Undisputed(client[own[c]].pins, given)
      BY <2>2, <2>6
    <3>2. Pin(client[own[c]].pins, input[c].host, k)
      BY <2>1, <2>6
    <3>3. \A e \in client[own[c]].pins : InEffect(e)
      BY <2>3, <3>1 DEF PinsHold, Pinned, ClientsArePinned
    <3>4. \/ OwnPins(client[own[c]].pins, input[c].host) = {}
          \/ k \in OwnPins(client[own[c]].pins, input[c].host)
      BY <2>3, <3>1, <3>2, <3>3, PinEnforces
    <3>5. key'[c] = k
      BY <2>1
    <3> QED
      BY <2>2, <3>4, <3>5 DEF MeetsPins
  <2>7. PinsInEffect'
    BY <2>5, <2>6, Zenon DEF PinsInEffect
  <2> QED
    BY <2>4, <2>7 DEF PinsHold
<1> QED
  BY <1>1, <1>2

\* Every step keeps the pins of clients and drafts in effect, and so the
\* certificates that are met are those that are pinned.
LEMMA StepPins ==
  TypeOK /\ Fits /\ PinInv /\ EffectKept /\ [Next]_vars => PinsHold'
<1> SUFFICES ASSUME TypeOK, Fits, PinInv, EffectKept, [Next]_vars
             PROVE  PinsHold'
  OBVIOUS
<1>0. StoreIsGiven /\ PinsHold
  BY DEF PinInv
<1>a. KeepsPins => PinsHold'
  BY <1>0, PinsKept
<1> USE SessionsAssumption
    DEF TypeOK, Fits, OwnFits, sessionVars, clientVars, requestVars, pinVars,
        stringVars, Goto
<1>1. ASSUME NEW c \in Calls, Alive, request(c) PROVE KeepsPins
  BY <1>1 DEF request, Begin, KeepsPins
<1>2. ASSUME NEW c \in Calls, Alive, Unreadable(c) PROVE KeepsPins
  BY <1>2, ReturnKeeps DEF Unreadable
<1>3. ASSUME NEW c \in Calls, Alive, cookiesOfSession(c) PROVE KeepsPins
  BY <1>3 DEF cookiesOfSession, Begin, KeepsPins
<1>4. ASSUME NEW c \in Calls, Alive, destroy(c) PROVE KeepsPins
  BY <1>4 DEF destroy, Begin, KeepsPins
<1>5. ASSUME NEW c \in Calls, Alive, freeMemory(c) PROVE KeepsPins
  BY <1>5 DEF freeMemory, Free, vars, KeepsPins
<1>6. ASSUME NEW c \in Calls, Alive, CreateClient(c) PROVE KeepsPins
  BY <1>6, ReturnKeeps DEF CreateClient
<1>7. ASSUME NEW c \in Calls, Alive, getTlsClient(c) PROVE PinsHold'
  <2>1. /\ UNCHANGED <<certificatePinStorage, given, client, own, input, key,
                       protocol>>
        /\ own[c] = None
        /\ draft' = [draft EXCEPT ![c] = Options(input[c])]
        /\ todo' = [todo EXCEPT ![c] = Options(input[c]).pins]
        /\ pc' = [pc EXCEPT ![c] = "pin"]
    BY <1>7 DEF getTlsClient, InGetTlsClient, StartDraft
  <2>2. ClientsArePinned' /\ PinsInEffect'
    BY <1>0, <2>1
       DEF PinsHold, Pinned, ClientsArePinned, PinsInEffect, MeetsPins,
           InEffect, Covers
  <2>3. DraftsArePinned'
    BY <1>0, <2>1
       DEF PinsHold, Pinned, DraftsArePinned, InEffect, Covers
  <2> QED
    BY <2>2, <2>3 DEF PinsHold, Pinned
<1>8. ASSUME NEW c \in Calls, Alive, getTlsClientFails(c) PROVE KeepsPins
  BY <1>8, ReturnKeeps DEF getTlsClientFails, InGetTlsClient
<1>9. ASSUME NEW c \in Calls, Alive, getTlsClientPanics(c) PROVE KeepsPins
  BY <1>9 DEF getTlsClientPanics, InGetTlsClient, KeepsPins
<1>10. ASSUME NEW c \in Calls, Alive, ModificationFails(c) PROVE KeepsPins
  BY <1>10, ReturnKeeps DEF ModificationFails, InGetTlsClient
<1>11. ASSUME NEW c \in Calls, Alive, handleModification(c) PROVE PinsHold'
  <2> DEFINE k == clients[Session(c)]
             new == [client[k] EXCEPT !.proxy = ProxyAfter(input[c], k)]
  <2>1. k \in ClientIds
    BY <1>11 DEF handleModification, InGetTlsClient, InputFits, Session,
                 RequestInput
  <2>2. new.pins = client[k].pins
    BY <2>1 DEF ClientState
  <2>3. CASE ~WantsProxy(input[c], k)
    BY <1>a, <1>11, <2>3 DEF handleModification, InGetTlsClient, KeepsPins
  <2>4. CASE WantsProxy(input[c], k)
    <3>1. /\ UNCHANGED <<certificatePinStorage, given, client, input, key,
                         protocol>>
          /\ own' = [own EXCEPT ![c] = k]
          /\ draft' = [draft EXCEPT ![c] = new]
          /\ todo' = [todo EXCEPT ![c] = new.pins]
          /\ pc' = [pc EXCEPT ![c] = "pin"]
      BY <1>11, <2>4 DEF handleModification, InGetTlsClient, StartDraft
    <3> HIDE DEF new, k
    <3>2. ClientsArePinned' /\ PinsInEffect'
      BY <1>0, <3>1
         DEF PinsHold, Pinned, ClientsArePinned, PinsInEffect, MeetsPins,
             InEffect, Covers
    <3>3. DraftsArePinned'
      BY <1>0, <2>1, <2>2, <3>1
         DEF PinsHold, Pinned, DraftsArePinned, InEffect, Covers
    <3> QED
      BY <3>2, <3>3 DEF PinsHold, Pinned
  <2> QED
    BY <2>3, <2>4
<1>12. ASSUME NEW c \in Calls, Alive, GetClient(c) PROVE KeepsPins
  <2>1. CASE Return(c, clients)
    BY <1>12, <2>1, ReturnKeeps DEF GetClient
  <2>2. CASE ~Return(c, clients)
    BY <1>12, <2>2 DEF GetClient, KeepsPins
  <2> QED
    BY <2>1, <2>2
<1>13. ASSUME NEW c \in Calls, Alive, RemoveSession(c) PROVE KeepsPins
  BY <1>13 DEF RemoveSession, KeepsPins
<1>14. ASSUME NEW c \in Calls, Alive, InitPinner(c) PROVE PinsHold'
  <2>1. PICK g \in todo[c] : /\ RegisterPins(g) /\ given' = given \cup {g}
                             /\ todo' = [todo EXCEPT ![c] = todo[c] \ {g}]
    BY <1>14 DEF InitPinner
  <2>2. /\ UNCHANGED <<client, pc, input, own, draft, key, protocol>>
        /\ pc[c] = "pin"
    BY <1>14 DEF InitPinner
  <2>3. g \in PinEntry
    BY <1>0, <2>1, <2>2 DEF PinsHold, Pinned, DraftsArePinned, ClientState
  <2>4. InEffect(g)'
    BY <1>0, <2>1, <2>3, PinsRegistered
  <2>5. ClientsArePinned'
    BY <1>0, <2>2, UndisputedBefore
       DEF PinsHold, Pinned, ClientsArePinned, EffectKept
  <2>6. DraftsArePinned'
    <3>1. ASSUME NEW d \in Calls, pc[d] = "pin"
          PROVE  /\ todo'[d] \subseteq draft[d].pins
                 /\ own[d] # None => draft[d].pins = client[own[d]].pins
      BY <1>0, <2>1, <3>1 DEF PinsHold, Pinned, DraftsArePinned
    <3>2. ASSUME NEW d \in Calls, pc[d] = "pin",
                 Undisputed(draft[d].pins, given'),
                 NEW e \in draft[d].pins \ todo'[d]
          PROVE  InEffect(e)'
      <4>1. CASE e = g
        BY <2>4, <4>1
      <4>2. CASE e # g
        <5>1. e \in draft[d].pins \ todo[d]
          BY <2>1, <3>2, <4>2
        <5>2. Undisputed(draft[d].pins, given)
          BY <3>2, UndisputedBefore DEF EffectKept
        <5>3. InEffect(e)
          BY <1>0, <3>2, <5>1, <5>2 DEF PinsHold, Pinned, DraftsArePinned
        <5> QED
          BY <3>2, <5>1, <5>3 DEF EffectKept
      <4> QED
        BY <4>1, <4>2
    <3> QED
      BY <2>2, <3>1, <3>2, Zenon DEF DraftsArePinned
  <2>7. PinsInEffect'
    <3>1. ASSUME NEW d \in Calls, pc[d] = "exchange", protocol[d] = "tcp",
                 Undisputed(client[own[d]].pins, given')
          PROVE  MeetsPins(d)
      <4>1. Undisputed(client[own[d]].pins, given)
        BY <3>1, UndisputedBefore DEF EffectKept
      <4> QED
        BY <1>0, <3>1, <4>1 DEF PinsHold, PinsInEffect
    <3> QED
      BY <2>2, <3>1 DEF PinsInEffect, MeetsPins
  <2> QED
    BY <2>5, <2>6, <2>7 DEF PinsHold, Pinned
<1>15. ASSUME NEW c \in Calls, Alive, ClientReady(c) PROVE PinsHold'
  <2>1. PICK k \in ClientIds : ReadyAs(c, k)
    BY <1>15, ClientReadyAs
  <2>2. /\ UNCHANGED <<certificatePinStorage, given, input, todo, key,
                       protocol>>
        /\ pc[c] = "pin" /\ todo[c] = {}
        /\ pc' = [pc EXCEPT ![c] = "send"]
        /\ draft' = [draft EXCEPT ![c] = None]
        /\ client' = [client EXCEPT ![k] = draft[c]]
        /\ own' = [own EXCEPT ![c] = k]
    BY <1>15, <2>1 DEF ClientReady, ReadyAs
  <2>3. own[c] = k => draft[c].pins = client[k].pins
    <3>1. k # None
      BY SessionsAssumption
    <3> QED
      BY <1>0, <2>2, <3>1 DEF PinsHold, Pinned, DraftsArePinned
  <2>4. \A d \in Calls \ {c} : own[d] = k => own[c] = k
    BY <2>1 DEF ReadyAs, InUse
  <2>5. \A d \in Calls \ {c} : own[d] \in ClientIds =>
          client'[own[d]].pins = client[own[d]].pins
    BY <2>2, <2>3, <2>4
  <2>6. ClientsArePinned'
    <3>1. \A e : InEffect(e) => InEffect(e)'
      BY <2>2 DEF InEffect, Covers
    <3>2. Undisputed(draft[c].pins, given) =>
            \A e \in draft[c].pins : InEffect(e)
      BY <1>0, <2>2 DEF PinsHold, Pinned, DraftsArePinned
    <3>3. ASSUME NEW j \in ClientIds, Undisputed(client'[j].pins, given'),
                 NEW e \in client'[j].pins
          PROVE  InEffect(e)
      <4>1. CASE j = k
        BY <2>2, <3>2, <3>3, <4>1
      <4>2. CASE j # k
        BY <1>0, <2>2, <3>3, <4>2 DEF PinsHold, Pinned, ClientsArePinned
      <4> QED
        BY <4>1, <4>2
    <3> QED
      BY <3>1, <3>3, Zenon DEF ClientsArePinned
  <2>7. DraftsArePinned'
    BY <1>0, <2>2, <2>5
       DEF PinsHold, Pinned, DraftsArePinned, InEffect, Covers
  <2>8. PinsInEffect'
    BY <1>0, <2>2, <2>5 DEF PinsHold, PinsInEffect, MeetsPins
  <2> QED
    BY <2>6, <2>7, <2>8 DEF PinsHold, Pinned
<1>16. ASSUME NEW c \in Calls, Alive, BuildRequestFails(c) PROVE KeepsPins
  <2>1. CASE Return(c, clients)
    BY <1>16, <2>1, ReturnKeeps DEF BuildRequestFails
  <2>2. CASE ~Return(c, clients)
    BY <1>16, <2>2 DEF BuildRequestFails, KeepsPins
  <2> QED
    BY <2>1, <2>2
<1>17. ASSUME NEW c \in Calls, Alive, Do(c) PROVE KeepsPins
  BY <1>17 DEF Do, StartDial, KeepsPins
<1>18. ASSUME NEW c \in Calls, Alive, DialEnds(c) PROVE PinsHold'
  BY <1>0, <1>18, OutcomePins DEF DialEnds
<1>19. ASSUME NEW c \in Calls, Alive, BuildResponse(c) PROVE KeepsPins
  <2>1. CASE Return(c, clients)
    BY <1>19, <2>1, ReturnKeeps DEF BuildResponse
  <2>2. CASE ~Return(c, clients)
    BY <1>19, <2>2 DEF BuildResponse, KeepsPins
  <2> QED
    BY <2>1, <2>2
<1>20. ASSUME NEW c \in Calls, Alive, UseClient(c) PROVE KeepsPins
  <2>1. CASE Return(c, clients)
    BY <1>20, <2>1, ReturnKeeps DEF UseClient
  <2>2. CASE ~Return(c, clients)
    BY <1>20, <2>2 DEF UseClient, KeepsPins
  <2> QED
    BY <2>1, <2>2
<1>21. ASSUME NEW c \in Calls, Alive, CloseIdle(c) PROVE KeepsPins
  BY <1>21 DEF CloseIdle, KeepsPins
<1>22. ASSUME NEW c \in Calls, Alive, Removed(c) PROVE KeepsPins
  BY <1>22, ReturnKeeps DEF Removed
<1>23. ASSUME NEW c \in Calls, Alive, Redial(c) PROVE KeepsPins
  BY <1>23 DEF Redial, StartDial, KeepsPins
<1>24. ASSUME NEW c \in Calls, Alive, RedialEnds(c) PROVE PinsHold'
  BY <1>0, <1>24, OutcomePins DEF RedialEnds
<1>25. CASE UNCHANGED vars
  BY <1>25, <1>a DEF vars, KeepsPins
<1> QED
  BY <1>a, <1>1, <1>2, <1>3, <1>4, <1>5, <1>6, <1>7, <1>8, <1>9, <1>10, <1>11,
     <1>12, <1>13, <1>14, <1>15, <1>16, <1>17, <1>18, <1>19, <1>20, <1>21,
     <1>22, <1>23, <1>24, <1>25
     DEF Next, Locked, Running

-----------------------------------------------------------------------------
(* The theorems *)

\* At first there is no session, no client and no call.
LEMMA InitInv == Init => IInv /\ PinInv
<1> SUFFICES ASSUME Init PROVE IInv /\ PinInv
  OBVIOUS
<1>1. TypeOK
  <2>1. NoClient \in ClientState
    BY DEF NoClient, ClientState, ProxyUrls
  <2> QED
    BY <2>1 DEF Init, TypeOK, States
<1>2. InputFits /\ OwnFits /\ LockIsHeld /\ SessionIsHeld /\ DraftIsAsked
  BY SessionsAssumption
     DEF Init, InputFits, OwnFits, LockIsHeld, SessionIsHeld, DraftIsAsked
<1>3. ProxyIsAsked
  BY SessionsAssumption DEF Init, ProxyIsAsked, Live
<1>4. FreedInv /\ NoUnaskedWay
  BY DEF Init, FreedInv, FreedOnce, NoUnaskedWay
<1>5. StoreIsGiven /\ DraftsArePinned /\ PinsInEffect
  BY DEF Init, StoreIsGiven, DraftsArePinned, PinsInEffect
<1>6. ClientsArePinned
  BY DEF Init, ClientsArePinned, NoClient
<1> QED
  BY <1>1, <1>2, <1>3, <1>4, <1>5, <1>6
     DEF IInv, Fits, Holds, Asked, PinInv, PinsHold, Pinned

\* The inductive invariant holds in every reachable state.
THEOREM Invariance == Spec => []IInv
<1>1. IInv /\ [Next]_vars => IInv'
  BY StepType, StepFits, StepHeld, StepAsked, StepFreed DEF IInv
<1> QED
  BY InitInv, <1>1, PTL DEF Spec

\* The state of the C interface is of its type.
THEOREM TypeCorrect == Spec => []TypeOK
<1>1. IInv => TypeOK
  BY DEF IInv
<1> QED
  BY Invariance, <1>1, PTL

\* clientsLock is held by one call at a time, from the step that takes it to the
\* one that releases it.
THEOREM OneHolder == Spec => []LockIsHeld
<1>1. IInv => LockIsHeld
  BY DEF IInv, Holds
<1> QED
  BY Invariance, <1>1, PTL

\* However often the caller releases a string, it is freed once, and one that
\* has been returned and not been freed is in the table.
THEOREM StringsAreFreedOnce == Spec => []FreedOnce
<1>1. IInv => FreedOnce
  BY DEF IInv, FreedInv
<1> QED
  BY Invariance, <1>1, PTL

\* A request never goes on with the nil client that a failed construction left
\* under its session.
THEOREM RequestsSurviveNil == Spec => []RequestsMeetNil
<1>1. IInv => RequestsMeetNil
  BY DEF IInv, Fits, OwnFits, RequestsMeetNil
<1> QED
  BY Invariance, <1>1, PTL

\* A request goes by a proxy that a request of the same client asked for.
THEOREM EveryWayIsAsked == Spec => []NoUnaskedWay
<1>1. IInv => NoUnaskedWay
  BY DEF IInv, Asked
<1> QED
  BY Invariance, <1>1, PTL

\* A session only loses its client to a destroy function.
THEOREM SessionsKeepClients == Spec => SessionKeepsClient
<1> DEFINE Kept == \A s \in SessionIds :
                     clients[s] \in ClientIds /\ clients'[s] # clients[s] =>
                       clients'[s] = None
<1>1. ASSUME IInv, [Next]_vars PROVE Kept
  <2> USE <1>1, SessionsAssumption DEF IInv, Fits, Holds, TypeOK, Session
  <2>1. ASSUME NEW c \in Calls, getTlsClientFails(c) PROVE Kept
    BY <2>1 DEF getTlsClientFails, InGetTlsClient
  <2>2. ASSUME NEW c \in Calls, ClientReady(c) PROVE Kept
    <3>1. PICK k \in ClientIds : ReadyAs(c, k)
      BY <2>2, ClientReadyAs
    <3> QED
      BY <2>2, <3>1 DEF ClientReady, ReadyAs, SessionIsHeld
  <2>3. ASSUME NEW c \in Calls, Removed(c) PROVE Kept
    BY <2>3 DEF Removed
  <2>4. CASE UNCHANGED clients
    BY <2>4
  <2> HIDE DEF Kept
  <2> QED
    BY <2>1, <2>2, <2>3, <2>4, ZenonT(60)
       DEF Next, Locked, Running, request, cookiesOfSession, destroy, Begin,
           Unreadable, freeMemory, Free, CreateClient, getTlsClient,
           getTlsClientPanics, ModificationFails, handleModification,
           StartDraft, GetClient, RemoveSession, InitPinner, BuildRequestFails,
           Do, Redial, StartDial, DialEnds, RedialEnds, DialOutcome,
           BuildResponse, UseClient, CloseIdle, sessionVars, vars
<1>2. IInv /\ [Next]_vars => [Kept]_vars
  BY <1>1
<1> QED
  BY Invariance, <1>2, PTL DEF Spec, SessionKeepsClient

\* A request over TCP to a host its client has pins for is exchanged only with a
\* server that presents one of them, unless somebody has registered an entry
\* that says something else.
THEOREM PinsAreEnforced == Spec => []PinsInEffect
<1>1. IInv /\ PinInv /\ [Next]_vars => PinInv'
  BY StepStore, StepPins DEF IInv, PinInv
<1>2. PinInv => PinsInEffect
  BY DEF PinInv, PinsHold
<1> QED
  BY InitInv, Invariance, <1>1, <1>2, PTL DEF Spec

=============================================================================
