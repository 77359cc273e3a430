------------------------------- MODULE Racer -------------------------------
(***************************************************************************)
(* The protocol racer of tls-client (racer.go) on top of the round         *)
(* tripper.  A raced call first uses the protocol remembered for its       *)
(* address, and on any failure forgets it and starts a race: an HTTP/3 leg *)
(* with a transport of its own, and an HTTP/2 leg that goes through the    *)
(* round tripper's cache.  The first leg to answer wins.                   *)
(*                                                                         *)
(* The HTTP/2 legs are slots of RoundTripper.  A leg that lost, or whose   *)
(* race timed out, runs on without an owner and still reads, fills and     *)
(* drops what the round tripper caches.                                    *)
(***************************************************************************)
EXTENDS RoundTripper, Naturals, Sequences

CONSTANT Calls   \* callers of a racing client

\* What a call can return: a response, the last error, or the race's timeout.
Outcomes == {"ok", "error", "timeout"}

ASSUME RacerAssumption == None \notin Calls /\ None \notin Outcomes

VARIABLES
  protocolCache,  \* by address: the protocol that won the last race
  http3Cached,    \* addresses with a transport under the key addr + ":h3"
  callPc,         \* where a call is
  callAddr,       \* its address
  tried,          \* the remembered protocol it tried before racing
  leg,            \* the slot of its HTTP/2 leg or cached attempt
  http3Leg,       \* whether its HTTP/3 leg is running
  resultCh,       \* results its legs have sent, oldest first
  received,       \* results it has taken from the channel
  result,         \* what the call returned
  \* history of a call, which no code reads
  disturbed,      \* the network failed its leg or was slow, or a server changed
  erased          \* the kind of a transport cached for its address was erased

cachesVars == <<protocolCache, http3Cached>>
raceVars == <<leg, http3Leg, resultCh, received>>
callVars == <<callPc, callAddr, tried, result>>
historyVars == <<disturbed, erased>>
racerVars == <<cachesVars, raceVars, callVars, historyVars>>
allVars == <<vars, racerVars>>

CallStates == {"returned", "tryCached", "cachedHttp2", "cachedHttp3", "clear",
               "startRace", "waiting", "cacheWinner", "storeHttp3"}

Results == [protocol : {"h3", "h2"}, ok : BOOLEAN]

RaceInit ==
  /\ Init
  /\ protocolCache = [a \in Addrs |-> None]
  /\ http3Cached = {}
  /\ callPc = [c \in Calls |-> "returned"]
  /\ callAddr \in [Calls -> Addrs]
  /\ tried = [c \in Calls |-> None]
  /\ leg = [c \in Calls |-> None]
  /\ http3Leg = [c \in Calls |-> FALSE]
  /\ resultCh = [c \in Calls |-> << >>]
  /\ received = [c \in Calls |-> 0]
  /\ result = [c \in Calls |-> None]
  /\ disturbed = [c \in Calls |-> FALSE]
  /\ erased = [c \in Calls |-> FALSE]

CallGoto(c, state) == callPc' = [callPc EXCEPT ![c] = state]

\* race returns; legs that are still running lose their owner.
CallReturns(c, o) ==
  /\ CallGoto(c, "returned")
  /\ result' = [result EXCEPT ![c] = o]
  /\ leg' = [leg EXCEPT ![c] = None]
  /\ http3Leg' = [http3Leg EXCEPT ![c] = FALSE]
  /\ resultCh' = [resultCh EXCEPT ![c] = << >>]
  /\ received' = [received EXCEPT ![c] = 0]

\* A goroutine to run an HTTP/2 leg in.
Unowned(r) == \A c \in Calls : leg[c] # r

StartLeg(c, r) ==
  /\ Unowned(r)
  /\ Start(r, callAddr[c], "https")
  /\ leg' = [leg EXCEPT ![c] = r]

-----------------------------------------------------------------------------
(* race and tryUseCachedProtocol *)

\* race begins with a read of the protocol remembered for the address.
Call(c, a) ==
  /\ callPc[c] = "returned"
  /\ CallGoto(c, "tryCached")
  /\ callAddr' = [callAddr EXCEPT ![c] = a]
  /\ tried' = [tried EXCEPT ![c] = protocolCache[a]]
  /\ result' = [result EXCEPT ![c] = None]
  /\ disturbed' = [disturbed EXCEPT ![c] = FALSE]
  /\ erased' = [erased EXCEPT ![c] = FALSE]
  /\ UNCHANGED <<vars, cachesVars, leg, http3Leg, resultCh, received>>

NoCachedProtocol(c) ==
  /\ callPc[c] = "tryCached"
  /\ tried[c] = None
  /\ CallGoto(c, "startRace")
  /\ UNCHANGED <<vars, cachesVars, raceVars, callAddr, tried, result,
                 historyVars>>

\* getOrCreateTransport for "h3", under cachedTransportsLck.
UseCachedHttp3(c) ==
  /\ callPc[c] = "tryCached"
  /\ tried[c] = "h3"
  /\ cachedTransportsLck = None
  /\ http3Cached' = http3Cached \cup {callAddr[c]}
  /\ CallGoto(c, "cachedHttp3")
  /\ UNCHANGED <<vars, protocolCache, raceVars, callAddr, tried, result,
                 historyVars>>

\* No transport is cached for "h3" and none can be built.
CreateHttp3Fails(c) ==
  /\ callPc[c] = "tryCached"
  /\ tried[c] = "h3"
  /\ cachedTransportsLck = None
  /\ callAddr[c] \notin http3Cached
  /\ CallGoto(c, "clear")
  /\ UNCHANGED <<vars, cachesVars, raceVars, callAddr, tried, result,
                 historyVars>>

\* getOrCreateTransport for "h2": the lookup and setup of the round tripper.
UseCachedHttp2(c, r) ==
  /\ callPc[c] = "tryCached"
  /\ tried[c] = "h2"
  /\ StartLeg(c, r)
  /\ CallGoto(c, "cachedHttp2")
  /\ UNCHANGED <<cachesVars, http3Leg, resultCh, received, callAddr,
                 tried, result, historyVars>>

CachedHttp3Answers(c) ==
  /\ callPc[c] = "cachedHttp3"
  /\ CallReturns(c, "ok")
  /\ UNCHANGED <<vars, cachesVars, callAddr, tried, historyVars>>

CachedHttp3Fails(c) ==
  /\ callPc[c] = "cachedHttp3"
  /\ CallGoto(c, "clear")
  /\ UNCHANGED <<vars, cachesVars, raceVars, callAddr, tried, result,
                 historyVars>>

\* clearProtocolCache, whatever is remembered by now.
ClearProtocolCache(c) ==
  /\ callPc[c] = "clear"
  /\ protocolCache' = [protocolCache EXCEPT ![callAddr[c]] = None]
  /\ CallGoto(c, "startRace")
  /\ UNCHANGED <<vars, http3Cached, raceVars, callAddr, tried, result,
                 historyVars>>

-----------------------------------------------------------------------------
(* startRace, its two legs and waitForRaceWinner *)

StartRace(c, r) ==
  /\ callPc[c] = "startRace"
  /\ StartLeg(c, r)
  /\ http3Leg' = [http3Leg EXCEPT ![c] = TRUE]
  /\ CallGoto(c, "waiting")
  /\ UNCHANGED <<cachesVars, resultCh, received, callAddr, tried, result,
                 historyVars>>

SendResult(c, p, ok) ==
  resultCh' = [resultCh EXCEPT ![c] = Append(@, [protocol |-> p, ok |-> ok])]

\* attemptHTTP3 ends.
Http3LegEnds(c, ok) ==
  /\ http3Leg[c]
  /\ SendResult(c, "h3", ok)
  /\ http3Leg' = [http3Leg EXCEPT ![c] = FALSE]
  /\ UNCHANGED <<vars, cachesVars, leg, received, callVars, historyVars>>

\* Faulty variant: the racer forgets the protocol but keeps the transport.
LegDrops_Nothing(r) ==
  /\ pc[r] = "changed"
  /\ Return(r, idle)
  /\ UNCHANGED <<cacheVars, lockVars, server, requestVars>>

\* Faulty variant: the leg drops whatever is cached for its address.
LegDrops_Whatever(r) ==
  \/ DropTransport_Whatever(r)
  \/ DropKind(r)
  \/ DropCloseIdle(r)

\* dropTransport, the round tripper's own, when the leg meets a new protocol.
LegDrops(r) == Drop(r)

\* What the round tripper does for an HTTP/2 leg.  A bad pin of a setup dial is
\* an error like any other here.
LegFaults(r) ==
  \/ SetupFails(r)
  \/ SendWithoutDialTLS(r)
  \/ StopWaiting(r)
  \/ DialFails(r)
  \/ Exchange(r) /\ Fits(r)

LegAnswers(r) ==
  \/ SendWithoutDialTLS(r)
  \/ Exchange(r) /\ Fits(r)

LegContinues(r) ==
  \/ LookUp(r)
  \/ SetupLock(r)
  \/ \E t \in Transports : SetupBuilds(r, t)
  \/ SendDials(r)
  \/ DialBegins(r)
  \/ DialKeepsKind(r)
  \/ DialProtocolChanged(r)
  \/ LegDrops(r)
  \/ Exchange(r) /\ ~Fits(r)   \* an old transport was given the stash of a new

\* A leg's RoundTrip has returned to the call that owns it: the cached attempt
\* is over, or the race has a result.
LegDelivers(c, ok) ==
  /\ leg' = [leg EXCEPT ![c] = None]
  /\ \/ /\ callPc[c] = "cachedHttp2"
        /\ CallGoto(c, IF ok THEN "returned" ELSE "clear")
        /\ result' = IF ok THEN [result EXCEPT ![c] = "ok"] ELSE result
        /\ UNCHANGED resultCh
     \/ /\ callPc[c] # "cachedHttp2"
        /\ SendResult(c, "h2", ok)
        /\ UNCHANGED <<callPc, result>>
  /\ UNCHANGED <<cachesVars, http3Leg, received, callAddr, tried>>

\* A step of slot r after which its RoundTrip has returned or goes on.
AfterLegStep(r, ok) ==
  IF waiting[r] /\ ~waiting'[r] /\ ~Unowned(r)
    THEN \E c \in Calls : leg[c] = r /\ LegDelivers(c, ok)
    ELSE UNCHANGED <<cachesVars, raceVars, callVars>>

\* The network fails a leg, which disturbs the call it belongs to.
LegFails(r) ==
  /\ LegFaults(r)
  /\ AfterLegStep(r, FALSE)
  /\ disturbed' = [c \in Calls |-> disturbed[c] \/ leg[c] = r]
  /\ UNCHANGED erased

LegSucceeds(r) ==
  /\ LegAnswers(r)
  /\ AfterLegStep(r, TRUE)
  /\ UNCHANGED historyVars

\* A drop forgets the kind of a transport that has come in meanwhile.
ErasesKind(r) == pc[r] = "dropKind" /\ cachedTransports[addr[r]] # None

LegSteps(r) ==
  /\ LegContinues(r)
  /\ AfterLegStep(r, FALSE)
  /\ erased' = [c \in Calls |->
                  erased[c] \/ (ErasesKind(r) /\ callAddr[c] = addr[r])]
  /\ UNCHANGED disturbed

\* A result arrives: a response ends the wait, the second error does too.
TakeResult(c) ==
  /\ callPc[c] = "waiting"
  /\ resultCh[c] # << >>
  /\ IF Head(resultCh[c]).ok
       THEN /\ CallGoto(c, "cacheWinner")
            /\ UNCHANGED <<raceVars, result>>
       ELSE /\ IF received[c] = 1
                 THEN CallReturns(c, "error")
                 ELSE /\ resultCh' = [resultCh EXCEPT ![c] = Tail(@)]
                      /\ received' = [received EXCEPT ![c] = 1]
                      /\ UNCHANGED <<callPc, leg, http3Leg, result>>
  /\ UNCHANGED <<vars, cachesVars, callAddr, tried, historyVars>>

\* The race's own ten seconds are over: the error of the leg that has failed by
\* then, or else the timeout.
RaceTimesOut(c) ==
  /\ callPc[c] = "waiting"
  /\ CallReturns(c, IF received[c] = 1 THEN "error" ELSE "timeout")
  /\ disturbed' = [disturbed EXCEPT ![c] = TRUE]
  /\ UNCHANGED <<vars, cachesVars, callAddr, tried, erased>>

\* cacheWinningProtocol, first half: remember the winner.
CacheWinner(c) ==
  LET winner == Head(resultCh[c]).protocol
  IN /\ callPc[c] = "cacheWinner"
     /\ protocolCache' = [protocolCache EXCEPT ![callAddr[c]] = winner]
     /\ IF winner = "h3"
          THEN /\ CallGoto(c, "storeHttp3")
               /\ UNCHANGED <<raceVars, result>>
          ELSE CallReturns(c, "ok")
     /\ UNCHANGED <<vars, http3Cached, callAddr, tried, historyVars>>

\* Second half: another HTTP/3 transport, put under the address's h3 key over
\* whatever is there, unless it cannot be built.
StoreHttp3(c, built) ==
  /\ callPc[c] = "storeHttp3"
  /\ built => cachedTransportsLck = None
  /\ http3Cached' = IF built THEN http3Cached \cup {callAddr[c]}
                              ELSE http3Cached
  /\ CallReturns(c, "ok")
  /\ UNCHANGED <<vars, protocolCache, callAddr, tried, historyVars>>

-----------------------------------------------------------------------------

\* Servers change and connections die under the racer too.
RaceEnvironment ==
  /\ Environment
  /\ disturbed' = [c \in Calls |-> disturbed[c] \/ server' # server]
  /\ UNCHANGED <<erased, cachesVars, raceVars, callVars>>

RaceCall(c) ==
  \/ NoCachedProtocol(c)
  \/ UseCachedHttp3(c)
  \/ CreateHttp3Fails(c)
  \/ \E r \in Requests : UseCachedHttp2(c, r) \/ StartRace(c, r)
  \/ CachedHttp3Answers(c)
  \/ CachedHttp3Fails(c)
  \/ ClearProtocolCache(c)
  \/ \E ok \in BOOLEAN : Http3LegEnds(c, ok)
  \/ TakeResult(c)
  \/ CacheWinner(c)
  \/ \E built \in BOOLEAN : StoreHttp3(c, built)

LegStep(r) == LegFails(r) \/ LegSucceeds(r) \/ LegSteps(r)

RaceNext ==
  \/ \E c \in Calls :
       \/ \E a \in Addrs : Call(c, a)
       \/ RaceCall(c)
       \/ RaceTimesOut(c)
  \/ \E r \in Requests : LegStep(r)
  \/ RaceEnvironment

RaceSpec == RaceInit /\ [][RaceNext]_allVars

-----------------------------------------------------------------------------
(* Properties *)

\* Types of the racer's own state.
RaceTypeOK ==
  /\ protocolCache \in [Addrs -> {"h3", "h2", None}]
  /\ http3Cached \subseteq Addrs
  /\ callPc \in [Calls -> CallStates]
  /\ callAddr \in [Calls -> Addrs]
  /\ tried \in [Calls -> {"h3", "h2", None}]
  /\ leg \in [Calls -> Requests \cup {None}]
  /\ http3Leg \in [Calls -> BOOLEAN]
  /\ \A c \in Calls : Len(resultCh[c]) <= 2
  /\ received \in [Calls -> 0 .. 1]
  /\ result \in [Calls -> Outcomes \cup {None}]
  /\ disturbed \in [Calls -> BOOLEAN]
  /\ erased \in [Calls -> BOOLEAN]

\* A call that starts from a remembered "h2", while the network works and no
\* server changes, succeeds, even when the transport cached before it is
\* outgrown ("even the request that runs into the change succeeds, over the
\* protocol the server has moved to", tests/alpn_change_racing_test.go) and
\* legs of other calls, or of races long over, dial, rebuild and drop at the
\* same address.  The one way left to fail it is a late drop that erases the
\* kind of the transport rebuilt meanwhile.
UndisturbedCallSucceeds ==
  \A c \in Calls :
    tried[c] = "h2" /\ result[c] = "error" => disturbed[c] \/ erased[c]

=============================================================================
