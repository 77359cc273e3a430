---------------------------- MODULE RoundTripper ----------------------------
(***************************************************************************)
(* The round tripper of tls-client (roundtripper.go): the cache of         *)
(* transports per address, the kind recorded for each, the stash that      *)
(* carries the set-up connection to the first request, and the three       *)
(* mutexes around them.                                                    *)
(*                                                                         *)
(* Every slot of Requests is one goroutine in RoundTrip together with the  *)
(* dial its transport makes for it.  The HTTP/1, HTTP/2 and HTTP/3         *)
(* transports are libraries: they appear as the moves they can make        *)
(* (reuse a connection, call the dialer they were given, give up on the    *)
(* caller's deadline while the dial goes on).                              *)
(*                                                                         *)
(* A step is everything a goroutine does between two points where another  *)
(* one can tell the difference: taking a mutex, the network answering, or  *)
(* the gap between two mutexes.                                            *)
(***************************************************************************)
CONSTANTS
  Addrs,         \* "host:port" keys
  Requests,      \* goroutines in RoundTrip at the same time
  TransportIds,  \* tells transports of one kind apart
  Protocols,     \* ALPN results a handshake can end with
  Schemes,       \* URL schemes requests are made with
  None           \* absent map entry, free mutex

NoALPN == "no ALPN"

\* http2.NextProtoTLS and http3.NextProtoH3 are "h2" and "h3".
AllProtocols == {NoALPN, "http/1.1", "h2", "h3"}

Kinds == {"HTTP1", "HTTP2", "HTTP3"}

Transports == [kind : Kinds, id : TransportIds]

ASSUME RoundTripperAssumption ==
  /\ Protocols \subseteq AllProtocols
  /\ Schemes \subseteq {"http", "https", "other"}
  /\ None \notin Transports
  /\ None \notin Requests
  /\ None \notin Addrs
  /\ None \notin Kinds
  /\ None \notin AllProtocols

VARIABLES
  cachedTransports,   \* by address, guarded by cachedTransportsLck
  cachedKinds,        \* by address, guarded by cachedKindsLck
  cachedConnections,  \* the stash, by address: the protocol of the connection
  cachedTransportsLck,  \* its holder
  rtLck,              \* holder of the embedded mutex, held for a whole dial
  idle,               \* transports with a connection they can reuse
  server,             \* what the server at an address negotiates now
  pc,                 \* where a request is
  addr, scheme,       \* its address and URL scheme
  tr,                 \* the transport it sends on
  conn,               \* the protocol of the connection its dial returned
  waiting             \* FALSE once the caller has given up on the deadline

cacheVars == <<cachedTransports, cachedKinds, cachedConnections>>
lockVars == <<cachedTransportsLck, rtLck>>
requestVars == <<addr, scheme>>
vars == <<cacheVars, lockVars, idle, server, pc, requestVars, tr, conn,
          waiting>>

DialStates == {"dial", "handshake", "exchange"}

States == {"done", "roundTrip", "setup", "setupHandshake", "badPin", "send",
           "changed", "dropKind", "closeIdle", "panicked"} \cup DialStates

-----------------------------------------------------------------------------
(* Which transport a protocol needs. *)

\* Faulty variant: the ALPN string compared, not the transport it maps to.
kindForProtocol_Raw(p) ==
  IF p = "h2" THEN "HTTP2"
  ELSE IF p = "h3" THEN "HTTP3"
  ELSE IF p = "http/1.1" THEN "HTTP1" ELSE p

\* kindForProtocol, the comparison a reconnect makes.
kindForProtocol(p) ==
  IF p = "h2" THEN "HTTP2" ELSE IF p = "h3" THEN "HTTP3" ELSE "HTTP1"

\* The switch of the setup dial that builds the transport.
builtKind(p) ==
  IF p = "h2" THEN "HTTP2" ELSE IF p = "h3" THEN "HTTP3" ELSE "HTTP1"

\* A newly built transport: an identity nothing refers to any more.
Fresh(t) ==
  /\ \A a \in Addrs : cachedTransports[a] # t
  /\ \A r \in Requests : tr[r] # t

-----------------------------------------------------------------------------
(* newRoundTripper *)

Init ==
  /\ cachedTransports = [a \in Addrs |-> None]
  /\ cachedKinds = [a \in Addrs |-> None]
  /\ cachedConnections = [a \in Addrs |-> None]
  /\ cachedTransportsLck = None
  /\ rtLck = None
  /\ idle = {}
  /\ server \in [Addrs -> Protocols]
  /\ pc = [r \in Requests |-> "done"]
  /\ addr \in [Requests -> Addrs]
  /\ scheme \in [Requests -> Schemes]
  /\ tr = [r \in Requests |-> None]
  /\ conn = [r \in Requests |-> None]
  /\ waiting = [r \in Requests |-> FALSE]

\* RoundTrip returns, or the dial its caller stopped waiting for ends.  Of the
\* transports with reusable connections, ready, those stay of interest that
\* something still refers to.
Return(r, ready) ==
  /\ idle' = {t \in ready : \/ \E a \in Addrs : cachedTransports[a] = t
                          \/ \E q \in Requests \ {r} : tr[q] = t}
  /\ pc' = [pc EXCEPT ![r] = "done"]
  /\ tr' = [tr EXCEPT ![r] = None]
  /\ conn' = [conn EXCEPT ![r] = None]
  /\ waiting' = [waiting EXCEPT ![r] = FALSE]

Goto(r, state) == pc' = [pc EXCEPT ![r] = state]

-----------------------------------------------------------------------------
(* RoundTrip: look the transport up, or set it up *)

\* A caller makes a request; RoundTrip is about to take cachedTransportsLck.
Start(r, a, s) ==
  /\ pc[r] = "done"
  /\ Goto(r, "roundTrip")
  /\ addr' = [addr EXCEPT ![r] = a]
  /\ scheme' = [scheme EXCEPT ![r] = s]
  /\ waiting' = [waiting EXCEPT ![r] = TRUE]
  /\ UNCHANGED <<cacheVars, lockVars, idle, server, tr, conn>>

\* A transport is cached: use it, with the lock released.
RoundTripHit(r) ==
  /\ pc[r] = "roundTrip"
  /\ cachedTransportsLck = None
  /\ cachedTransports[addr[r]] # None
  /\ tr' = [tr EXCEPT ![r] = cachedTransports[addr[r]]]
  /\ Goto(r, "send")
  /\ UNCHANGED <<cacheVars, lockVars, idle, server, requestVars, conn, waiting>>

\* getTransport for "http": an HTTP/1 transport, no dial and no kind recorded.
GetTransportHttp(r, t) ==
  /\ pc[r] = "roundTrip"
  /\ cachedTransportsLck = None
  /\ cachedTransports[addr[r]] = None
  /\ scheme[r] = "http"
  /\ t.kind = "HTTP1" /\ Fresh(t)
  /\ cachedTransports' = [cachedTransports EXCEPT ![addr[r]] = t]
  /\ tr' = [tr EXCEPT ![r] = t]
  /\ Goto(r, "send")
  /\ UNCHANGED <<cachedKinds, cachedConnections, lockVars, idle, server,
                 requestVars, conn, waiting>>

\* getTransport for a scheme that is neither http nor https.
GetTransportInvalid(r) ==
  /\ pc[r] = "roundTrip"
  /\ cachedTransportsLck = None
  /\ cachedTransports[addr[r]] = None
  /\ scheme[r] = "other"
  /\ Return(r, idle)
  /\ UNCHANGED <<cacheVars, lockVars, server, requestVars>>

\* getTransport for "https": dialTLSSetup, with cachedTransportsLck kept.
GetTransportHttps(r) ==
  /\ pc[r] = "roundTrip"
  /\ cachedTransportsLck = None
  /\ cachedTransports[addr[r]] = None
  /\ scheme[r] = "https"
  /\ cachedTransportsLck' = r
  /\ Goto(r, "setup")
  /\ UNCHANGED <<cacheVars, rtLck, idle, server, requestVars, tr, conn,
                 waiting>>

-----------------------------------------------------------------------------
(* dialTLSWithSetup, setup = true *)

\* rt.Lock(), then the stash.  A stashed connection would be returned with a
\* nil error, and getTransport panics on that; the panic leaves
\* cachedTransportsLck locked, since RoundTrip does not defer its Unlock.
SetupLock(r) ==
  /\ pc[r] = "setup"
  /\ rtLck = None
  /\ IF cachedConnections[addr[r]] # None
       THEN /\ cachedConnections' =
                 [cachedConnections EXCEPT ![addr[r]] = None]
            /\ Goto(r, "panicked")
            /\ UNCHANGED rtLck
       ELSE /\ rtLck' = r
            /\ Goto(r, "setupHandshake")
            /\ UNCHANGED cachedConnections
  /\ UNCHANGED <<cachedTransports, cachedKinds, cachedTransportsLck, idle,
                 server, requestVars, tr, conn, waiting>>

ReleaseBoth ==
  /\ rtLck' = None
  /\ cachedTransportsLck' = None

\* Faulty variant: the early return forgets cachedTransportsLck.
SetupFails_KeepsLock(r) ==
  /\ pc[r] = "setupHandshake"
  /\ rtLck' = None
  /\ Return(r, idle)
  /\ UNCHANGED <<cacheVars, cachedTransportsLck, server, requestVars>>

\* The dial or the handshake fails, or an HTTP/3 transport cannot be built.
SetupFails(r) ==
  /\ pc[r] = "setupHandshake"
  /\ ReleaseBoth
  /\ Return(r, idle)
  /\ UNCHANGED <<cacheVars, server, requestVars>>

\* The pinner rejects the connection, which is closed.
SetupBadPin(r) ==
  /\ pc[r] = "setupHandshake"
  /\ ReleaseBoth
  /\ Goto(r, "badPin")
  /\ UNCHANGED <<cacheVars, idle, server, requestVars, tr, conn, waiting>>

\* RoundTrip calls the bad pin handler, after it has unlocked.
ReportBadPin(r) ==
  /\ pc[r] = "badPin"
  /\ Return(r, idle)
  /\ UNCHANGED <<cacheVars, lockVars, server, requestVars>>

\* Faulty variant: the ALPN string recorded instead of the kind.
SetupBuilds_RecordsProtocol(r, t) ==
  LET a == addr[r]
      p == server[a]
  IN /\ pc[r] = "setupHandshake"
     /\ t.kind = builtKind(p) /\ Fresh(t)
     /\ cachedTransports' = [cachedTransports EXCEPT ![a] = t]
     /\ cachedKinds' = [cachedKinds EXCEPT ![a] = p]
     /\ cachedConnections' = [cachedConnections EXCEPT ![a] = p]
     /\ ReleaseBoth
     /\ tr' = [tr EXCEPT ![r] = t]
     /\ Goto(r, "send")
     /\ UNCHANGED <<idle, server, requestVars, conn, waiting>>

\* The handshake settles on a protocol: build its transport, record the kind,
\* stash the connection and let RoundTrip go on with the new transport.
SetupBuilds(r, t) ==
  LET a == addr[r]
      p == server[a]
  IN /\ pc[r] = "setupHandshake"
     /\ t.kind = builtKind(p) /\ Fresh(t)
     /\ cachedTransports' = [cachedTransports EXCEPT ![a] = t]
     /\ cachedKinds' = [cachedKinds EXCEPT ![a] = builtKind(p)]
     /\ cachedConnections' = [cachedConnections EXCEPT ![a] = p]
     /\ ReleaseBoth
     /\ tr' = [tr EXCEPT ![r] = t]
     /\ Goto(r, "send")
     /\ UNCHANGED <<idle, server, requestVars, conn, waiting>>

-----------------------------------------------------------------------------
(* The transport's own RoundTrip (fhttp, http2, http3) *)

\* The request is answered, or fails, without a call of dialTLS: on a
\* connection the transport has, over plain TCP (rt.dial), over QUIC, or with
\* an error for a scheme the transport does not serve.
SendWithoutDialTLS(r) ==
  /\ pc[r] = "send"
  /\ \/ scheme[r] = "https" /\ tr[r].kind = "HTTP3"
     \/ scheme[r] = "https" /\ tr[r] \in idle
     \/ scheme[r] # "https"
  /\ Return(r, idle)
  /\ UNCHANGED <<cacheVars, lockVars, server, requestVars>>

\* No usable connection: the transport calls DialTLSContext, or DialTLS.  An
\* HTTP/1 connection serves one request at a time, so that transport may dial
\* although others of its connections live.
SendDials(r) ==
  /\ pc[r] = "send"
  /\ scheme[r] = "https"
  /\ tr[r].kind = "HTTP1" \/ (tr[r].kind = "HTTP2" /\ tr[r] \notin idle)
  /\ Goto(r, "dial")
  /\ UNCHANGED <<cacheVars, lockVars, idle, server, requestVars, tr, conn,
                 waiting>>

\* The caller stops waiting for the dial, which goes on without it: its deadline
\* passes, or an HTTP/1 connection comes free first.
StopWaiting(r) ==
  /\ pc[r] \in DialStates
  /\ waiting[r]
  /\ waiting' = [waiting EXCEPT ![r] = FALSE]
  /\ UNCHANGED <<cacheVars, lockVars, idle, server, pc, requestVars, tr, conn>>

\* A connection the transport can speak on.
Fits(r) == kindForProtocol(conn[r]) = tr[r].kind

\* The request runs on the connection the dial returned, which the transport
\* may keep.  One of another protocol than its own only yields an error.
Exchange(r) ==
  /\ pc[r] = "exchange"
  /\ \/ Return(r, idle)
     \/ Fits(r) /\ Return(r, idle \cup {tr[r]})
  /\ UNCHANGED <<cacheVars, lockVars, server, requestVars>>

-----------------------------------------------------------------------------
(* dialTLSWithSetup, setup = false: a transport's dialer *)

\* The stashed connection is there: it is handed out, whoever asks.
DialTakesStash(r) ==
  /\ pc[r] = "dial"
  /\ rtLck = None
  /\ cachedConnections[addr[r]] # None
  /\ conn' = [conn EXCEPT ![r] = cachedConnections[addr[r]]]
  /\ cachedConnections' = [cachedConnections EXCEPT ![addr[r]] = None]
  /\ Goto(r, "exchange")
  /\ UNCHANGED <<cachedTransports, cachedKinds, lockVars, idle, server,
                 requestVars, tr, waiting>>

\* It is not: dial and shake hands, with the mutex held throughout.
DialLock(r) ==
  /\ pc[r] = "dial"
  /\ rtLck = None
  /\ cachedConnections[addr[r]] = None
  /\ rtLck' = r
  /\ Goto(r, "handshake")
  /\ UNCHANGED <<cacheVars, cachedTransportsLck, idle, server, requestVars,
                 tr, conn, waiting>>

\* The dial, the handshake or the pin fails; no handler runs on this path.
DialFails(r) ==
  /\ pc[r] = "handshake"
  /\ rtLck' = None
  /\ Return(r, idle)
  /\ UNCHANGED <<cacheVars, cachedTransportsLck, server, requestVars>>

\* Faulty variants: the new connection handed back whatever was negotiated, and
\* a reconnect that writes its own transport into the cache.
DialKeepsKind_Unchecked(r) ==
  /\ pc[r] = "handshake"
  /\ rtLck' = None
  /\ conn' = [conn EXCEPT ![r] = server[addr[r]]]
  /\ Goto(r, "exchange")
  /\ UNCHANGED <<cacheVars, cachedTransportsLck, idle, server, requestVars,
                 tr, waiting>>

DialKeepsKind_Caches(r) ==
  /\ pc[r] = "handshake"
  /\ cachedKinds[addr[r]] = kindForProtocol(server[addr[r]])
  /\ rtLck' = None
  /\ cachedTransports' = [cachedTransports EXCEPT ![addr[r]] = tr[r]]
  /\ conn' = [conn EXCEPT ![r] = server[addr[r]]]
  /\ Goto(r, "exchange")
  /\ UNCHANGED <<cachedKinds, cachedConnections, cachedTransportsLck, idle,
                 server, requestVars, tr, waiting>>

\* The recorded kind still fits what was negotiated: the connection is good.
DialKeepsKind(r) ==
  /\ pc[r] = "handshake"
  /\ cachedKinds[addr[r]] = kindForProtocol(server[addr[r]])
  /\ rtLck' = None
  /\ conn' = [conn EXCEPT ![r] = server[addr[r]]]
  /\ Goto(r, "exchange")
  /\ UNCHANGED <<cacheVars, cachedTransportsLck, idle, server, requestVars,
                 tr, waiting>>

\* It does not, or no kind is recorded: errProtocolChanged.  A caller that has
\* given up never sees the error, so it drops nothing.
DialProtocolChanged(r) ==
  /\ pc[r] = "handshake"
  /\ cachedKinds[addr[r]] # kindForProtocol(server[addr[r]])
  /\ rtLck' = None
  /\ IF waiting[r]
       THEN /\ Goto(r, "changed")
            /\ UNCHANGED <<idle, tr, conn, waiting>>
       ELSE Return(r, idle)
  /\ UNCHANGED <<cacheVars, cachedTransportsLck, server, requestVars>>

-----------------------------------------------------------------------------
(* dropCachedTransport: three steps, two mutexes *)

\* Faulty variants: no comparison with the transport that failed, and no delete
\* at all.
DropTransport_Whatever(r) ==
  /\ pc[r] = "changed"
  /\ cachedTransportsLck = None
  /\ cachedTransports' = [cachedTransports EXCEPT ![addr[r]] = None]
  /\ Goto(r, "dropKind")
  /\ UNCHANGED <<cachedKinds, cachedConnections, lockVars, idle, server,
                 requestVars, tr, conn, waiting>>

DropTransport_Nothing(r) ==
  /\ pc[r] = "changed"
  /\ cachedTransportsLck = None
  /\ Goto(r, "dropKind")
  /\ UNCHANGED <<cacheVars, lockVars, idle, server, requestVars, tr, conn,
                 waiting>>

\* Forget the transport if it is still the one that failed.
DropTransport(r) ==
  /\ pc[r] = "changed"
  /\ cachedTransportsLck = None
  /\ cachedTransports' = IF cachedTransports[addr[r]] = tr[r]
                           THEN [cachedTransports EXCEPT ![addr[r]] = None]
                           ELSE cachedTransports
  /\ Goto(r, "dropKind")
  /\ UNCHANGED <<cachedKinds, cachedConnections, lockVars, idle, server,
                 requestVars, tr, conn, waiting>>

\* Forget the kind, whichever transport it belongs to by now.
DropKind(r) ==
  /\ pc[r] = "dropKind"
  /\ cachedKinds' = [cachedKinds EXCEPT ![addr[r]] = None]
  /\ Goto(r, "closeIdle")
  /\ UNCHANGED <<cachedTransports, cachedConnections, lockVars, idle, server,
                 requestVars, tr, conn, waiting>>

\* Close the dropped transport's idle connections and return.
DropCloseIdle(r) ==
  /\ pc[r] = "closeIdle"
  /\ Return(r, idle \ {tr[r]})
  /\ UNCHANGED <<cacheVars, lockVars, server, requestVars>>

-----------------------------------------------------------------------------
(* Everyone else *)

\* CloseIdleConnections, called on the client at any time.
CloseIdleConnections ==
  /\ cachedTransportsLck = None
  /\ idle' = idle \ {cachedTransports[a] : a \in Addrs}
  /\ UNCHANGED <<cacheVars, lockVars, server, pc, requestVars, tr, conn,
                 waiting>>

\* A transport's connections are closed by the server or by IdleConnTimeout.
ConnectionsDie(t) ==
  /\ t \in idle
  /\ idle' = idle \ {t}
  /\ UNCHANGED <<cacheVars, lockVars, server, pc, requestVars, tr, conn,
                 waiting>>

\* The next handshake at a meets another machine of the load balancer.
ServerChanges(a, p) ==
  /\ server[a] # p
  /\ server' = [server EXCEPT ![a] = p]
  /\ UNCHANGED <<cacheVars, lockVars, idle, pc, requestVars, tr, conn,
                 waiting>>

-----------------------------------------------------------------------------

\* The network answers a dial of setup, or of a transport.
SetupEnds(r) ==
  \/ SetupFails(r)
  \/ SetupBadPin(r)
  \/ \E t \in Transports : SetupBuilds(r, t)

DialEnds(r) ==
  \/ DialFails(r)
  \/ DialKeepsKind(r)
  \/ DialProtocolChanged(r)

\* Taking cachedTransportsLck in RoundTrip.
LookUp(r) ==
  \/ RoundTripHit(r)
  \/ \E t \in Transports : GetTransportHttp(r, t)
  \/ GetTransportInvalid(r)
  \/ GetTransportHttps(r)

Send(r) ==
  \/ SendWithoutDialTLS(r)
  \/ SendDials(r)

\* Taking the embedded mutex in a transport's dial.
DialBegins(r) ==
  \/ DialTakesStash(r)
  \/ DialLock(r)

Drop(r) ==
  \/ DropTransport(r)
  \/ DropKind(r)
  \/ DropCloseIdle(r)

Request(r) ==
  \/ LookUp(r)
  \/ SetupLock(r)
  \/ SetupEnds(r)
  \/ ReportBadPin(r)
  \/ Send(r)
  \/ StopWaiting(r)
  \/ DialBegins(r)
  \/ DialEnds(r)
  \/ Exchange(r)
  \/ Drop(r)

Environment ==
  \/ CloseIdleConnections
  \/ \E t \in Transports : ConnectionsDie(t)
  \/ \E a \in Addrs, p \in Protocols : ServerChanges(a, p)

Next ==
  \/ \E r \in Requests :
       \/ \E a \in Addrs, s \in Schemes : Start(r, a, s)
       \/ Request(r)
  \/ Environment

Spec == Init /\ [][Next]_vars

-----------------------------------------------------------------------------
(* Fairness *)

\* A goroutine that can run does run, and sync.Mutex hands itself to a waiter
\* that has been passed over for a millisecond.  A setup dial carries the
\* request's context, so it ends by the client's deadline at the latest.
GoroutineFairness(r) ==
  /\ SF_vars(LookUp(r))
  /\ SF_vars(SetupLock(r))
  /\ WF_vars(SetupEnds(r))
  /\ WF_vars(ReportBadPin(r))
  /\ WF_vars(Send(r))
  /\ SF_vars(DialBegins(r))
  /\ WF_vars(Exchange(r))
  /\ SF_vars(DropTransport(r))
  /\ WF_vars(DropKind(r) \/ DropCloseIdle(r))

\* Servers answer: every handshake ends.
FairSpec ==
  /\ Spec
  /\ \A r \in Requests : GoroutineFairness(r) /\ WF_vars(DialEnds(r))

\* Servers may fall silent: what ends then is what has a deadline.  A dial of
\* the HTTP/1 transport has the request's context, one of the HTTP/2 transport
\* runs in context.Background() (dialTLSHTTP2).
DeadlineSpec ==
  /\ Spec
  /\ \A r \in Requests :
       /\ GoroutineFairness(r)
       /\ WF_vars(pc[r] = "handshake" /\ tr[r].kind = "HTTP1" /\ DialEnds(r))
       /\ WF_vars(StopWaiting(r))

-----------------------------------------------------------------------------
(* Properties *)

\* Types of the maps, the locks and the per-request state.
TypeOK ==
  /\ cachedTransports \in [Addrs -> Transports \cup {None}]
  /\ cachedKinds \in [Addrs -> Kinds \cup {None}]
  /\ cachedConnections \in [Addrs -> Protocols \cup {None}]
  /\ cachedTransportsLck \in Requests \cup {None}
  /\ rtLck \in Requests \cup {None}
  /\ idle \subseteq Transports
  /\ server \in [Addrs -> Protocols]
  /\ pc \in [Requests -> States]
  /\ addr \in [Requests -> Addrs]
  /\ scheme \in [Requests -> Schemes]
  /\ tr \in [Requests -> Transports \cup {None}]
  /\ conn \in [Requests -> Protocols \cup {None}]
  /\ waiting \in [Requests -> BOOLEAN]

\* getTransport never panics: no setup dial ever finds a stashed connection
\* (the "Should never happen" of getTransport).  Setup dials, reconnects of
\* transports old and new and three-step drops interleave freely.
NoPanic == \A r \in Requests : pc[r] # "panicked"

\* A stashed connection belongs to the transport that is cached: it is there
\* only while a transport is, and speaks that transport's protocol.
StashFits ==
  \A a \in Addrs :
    cachedConnections[a] # None =>
      /\ cachedTransports[a] # None
      /\ cachedTransports[a].kind = kindForProtocol(cachedConnections[a])

\* The cache behaves as TransportCache promises: a transport is put at an
\* address that has none, is removed once, by a request that holds it, and is
\* neither overwritten nor brought back by a late drop or a late dial.
TC == INSTANCE TransportCache
        WITH Callers <- Requests, entry <- cachedTransports, held <- tr

CacheSpec == TC!Spec

\* As long as all requests are https, a transport that is still cached is never
\* given a connection of a protocol it does not speak, whatever the server
\* negotiates from one handshake to the next (comment in dialTLSWithSetup).
CachedTransportFits ==
  \A r \in Requests :
    pc[r] = "exchange" /\ cachedTransports[addr[r]] = tr[r] => Fits(r)

\* cachedKinds "records which kind of transport is cached for each address":
\* with https requests only, a cached transport has its kind recorded.
KindRecorded ==
  \A a \in Addrs :
    cachedTransports[a] # None => cachedKinds[a] = cachedTransports[a].kind

\* Every request returns: no cycle of waiting across the three mutexes, the
\* setup dial and the drops, and no waiter that is passed over for ever.
EveryRequestReturns == \A r \in Requests : waiting[r] ~> ~waiting[r]

\* Once the kind of protocol that every server negotiates stays the same, even
\* if it alternates between no ALPN and http/1.1, requests stop failing with
\* errProtocolChanged: "the client RECOVERS" (tests/alpn_change_test.go).
ServerKinds == [a \in Addrs |-> kindForProtocol(server[a])]

Recovers ==
  <>[][UNCHANGED ServerKinds]_vars
    => <>[](\A r \in Requests : pc[r] # "changed")

=============================================================================
