--------------------------- MODULE ConnectDialer ---------------------------
(***************************************************************************)
(* The CONNECT dialer of tls-client (connect.go).  DialContext asks an     *)
(* HTTP or HTTPS proxy for a tunnel: over the HTTP/2 connection that is    *)
(* cached if it takes another stream, and otherwise, or when that fails,   *)
(* over a connection of its own.  An HTTP/2 connection that has carried a  *)
(* tunnel becomes the cached one, so tunnels of several callers share it.  *)
(*                                                                         *)
(* A connection is a member of Conns.  Its identity is used again once it  *)
(* is closed and nothing refers to it.                                     *)
(***************************************************************************)
EXTENDS Naturals

CONSTANTS
  Dials,      \* concurrent callers of DialContext
  Conns,      \* identities of connections to the proxy
  Protocols,  \* what the proxy may negotiate
  Timeout,    \* the client's timeout in seconds; 0 is no deadline
  None

ASSUME ConnectAssumption ==
  /\ Protocols \subseteq {"none", "http/1.1", "h2", "other"}
  /\ Protocols # {}
  /\ Timeout \in Nat
  /\ None \notin Dials \cup Conns

VARIABLES
  cached,     \* cachedH2RawConn, cachedH2ClientConn, under cacheH2Mu
  open,       \* connections that are open
  proto,      \* by connection: the protocol negotiated
  replaced,   \* connections that were cached until another took their place
  pc,         \* where a dial is
  raw,        \* the connection a dial, or the tunnel it returned, uses
  pipe        \* whether req.Body is the pipe of a failed HTTP/2 attempt

connVars == <<cached, open, proto, replaced>>
dialVars == <<pc, raw, pipe>>
vars == <<connVars, dialVars>>

States == {"idle", "start", "reuse", "dial", "http1", "http2", "store",
           "tunnel"}

Init ==
  /\ cached = None
  /\ open = {}
  /\ proto \in [Conns -> {CHOOSE p \in Protocols : TRUE}]
  /\ replaced = {}
  /\ pc = [d \in Dials |-> "idle"]
  /\ raw = [d \in Dials |-> None]
  /\ pipe = [d \in Dials |-> FALSE]

Goto(d, state) == pc' = [pc EXCEPT ![d] = state]

Fail(d) ==
  /\ Goto(d, "idle")
  /\ raw' = [raw EXCEPT ![d] = None]

ReturnTunnel(d) == Goto(d, "tunnel")

CloseRaw(d) == open' = open \ {raw[d]}

\* Nothing refers to c: its identity can stand for a new connection.
Free(c) == c \notin open /\ cached # c /\ \A d \in Dials : raw[d] # c

-----------------------------------------------------------------------------
(* DialContext *)

DialContext(d) ==
  /\ pc[d] = "idle"
  /\ Goto(d, "start")
  /\ pipe' = [pipe EXCEPT ![d] = FALSE]
  /\ UNCHANGED <<connVars, raw>>

\* Under cacheH2Mu: there is a cached connection and it can take a request.  It
\* may be closed all the same, until http2's read loop has noticed.
TakeCached(d) ==
  /\ pc[d] = "start"
  /\ cached # None
  /\ raw' = [raw EXCEPT ![d] = cached]
  /\ Goto(d, "reuse")
  /\ UNCHANGED <<connVars, pipe>>

\* There is none, or it is closed or has no stream left.
SkipCached(d) ==
  /\ pc[d] = "start"
  /\ Goto(d, "dial")
  /\ UNCHANGED <<connVars, raw, pipe>>

DialFails(d) ==
  /\ pc[d] = "dial"
  /\ Fail(d)
  /\ UNCHANGED <<connVars, pipe>>

\* A new connection, c, on which the proxy negotiates p.
DialProxy(d, c, p) ==
  /\ pc[d] = "dial"
  /\ Free(c)
  /\ proto' = [proto EXCEPT ![c] = p]
  /\ replaced' = replaced \ {c}
  /\ IF p = "other"
       THEN /\ Fail(d)
            /\ UNCHANGED open
       ELSE /\ Goto(d, IF p = "h2" THEN "http2" ELSE "http1")
            /\ raw' = [raw EXCEPT ![d] = c]
            /\ open' = open \cup {c}
  /\ UNCHANGED <<cached, pipe>>

-----------------------------------------------------------------------------
(* connectHttp1 *)

\* Faulty variant: an HTTP/1 connection is cached too.
Http1Accepts_Caches(d) ==
  /\ pc[d] = "http1"
  /\ raw[d] \in open
  /\ Timeout > 0 /\ ~pipe[d]
  /\ cached' = raw[d]
  /\ ReturnTunnel(d)
  /\ UNCHANGED <<open, proto, replaced, raw, pipe>>

\* The proxy answers 200 before the deadline, which is then cleared.  A request
\* that still has the pipe of a failed HTTP/2 attempt for a body gets no further
\* than its header: req.Write goes on to copy the body, to whose other end
\* nobody writes.
Http1Accepts(d) ==
  /\ pc[d] = "http1"
  /\ raw[d] \in open
  /\ Timeout > 0 /\ ~pipe[d]
  /\ ReturnTunnel(d)
  /\ UNCHANGED <<connVars, raw, pipe>>

\* Faulty variant: the connection stays open.
Http1Fails_LeavesOpen(d) ==
  /\ pc[d] = "http1"
  /\ Fail(d)
  /\ UNCHANGED <<connVars, pipe>>

\* A write, a read or the answer fails, or the read of the pipe, once http2 has
\* closed it.
Http1Fails(d) ==
  /\ pc[d] = "http1"
  /\ CloseRaw(d)
  /\ Fail(d)
  /\ UNCHANGED <<cached, proto, replaced, pipe>>

\* The deadline, Timeout seconds after the connection was made, has passed for a
\* read or a write of the connection.
Http1TimesOut(d) ==
  /\ pc[d] = "http1"
  /\ CloseRaw(d)
  /\ Fail(d)
  /\ UNCHANGED <<cached, proto, replaced, pipe>>

-----------------------------------------------------------------------------
(* connectHttp2, on the cached connection or on a new one *)

Http2Accepts(d) ==
  /\ pc[d] \in {"reuse", "http2"}
  /\ raw[d] \in open
  /\ IF pc[d] = "reuse"
       THEN ReturnTunnel(d)
       ELSE Goto(d, "store")
  /\ UNCHANGED <<connVars, raw, pipe>>

\* Faulty variant: the dial starts over instead of carrying on.
Http2Fails_StartsOver(d) ==
  /\ pc[d] \in {"reuse", "http2"}
  /\ CloseRaw(d)
  /\ pipe' = [pipe EXCEPT ![d] = TRUE]
  /\ Goto(d, "start")
  /\ raw' = [raw EXCEPT ![d] = None]
  /\ UNCHANGED <<cached, proto, replaced>>

\* RoundTrip fails, for the dial's own context too, or the proxy refuses.  The
\* connection is closed, whoever else has a tunnel on it; after the cached
\* connection the dial carries on with one of its own.
Http2Fails(d) ==
  /\ pc[d] \in {"reuse", "http2"}
  /\ CloseRaw(d)
  /\ pipe' = [pipe EXCEPT ![d] = TRUE]
  /\ IF pc[d] = "reuse"
       THEN /\ Goto(d, "dial")
            /\ raw' = [raw EXCEPT ![d] = None]
       ELSE Fail(d)
  /\ UNCHANGED <<cached, proto, replaced>>

\* Under cacheH2Mu: the new connection replaces the cached one, which is not
\* closed.
StoreConn(d) ==
  /\ pc[d] = "store"
  /\ replaced' = IF cached = None THEN replaced ELSE replaced \cup {cached}
  /\ cached' = raw[d]
  /\ ReturnTunnel(d)
  /\ UNCHANGED <<open, proto, raw, pipe>>

\* http2Conn.Close ends the stream; an HTTP/1 tunnel is its connection.
CloseTunnel(d) ==
  /\ pc[d] = "tunnel"
  /\ open' = IF proto[raw[d]] = "h2" THEN open ELSE open \ {raw[d]}
  /\ Goto(d, "idle")
  /\ raw' = [raw EXCEPT ![d] = None]
  /\ UNCHANGED <<cached, proto, replaced, pipe>>

\* The proxy or the network ends a connection.
ProxyCloses(c) ==
  /\ c \in open
  /\ open' = open \ {c}
  /\ UNCHANGED <<cached, proto, replaced, dialVars>>

-----------------------------------------------------------------------------

\* What DialContext does next, once the network has answered.
DialStep(d) ==
  \/ TakeCached(d)
  \/ SkipCached(d)
  \/ DialFails(d)
  \/ \E c \in Conns, p \in Protocols : DialProxy(d, c, p)
  \/ Http1Accepts(d)
  \/ Http1Fails(d)
  \/ Http1TimesOut(d)
  \/ Http2Accepts(d)
  \/ Http2Fails(d)
  \/ StoreConn(d)

Next ==
  \/ \E d \in Dials : DialContext(d) \/ DialStep(d) \/ CloseTunnel(d)
  \/ \E c \in Conns : ProxyCloses(c)

\* Goroutines run, and the deadline on its connection ends a CONNECT over HTTP/1
\* that has nothing but its header to send.  Nothing is assumed of the dial
\* (tls.Dial takes no context), of an HTTP/2 request (a reconnect of the round
\* tripper has context.Background()) and of a req.Write that reads the pipe.
Spec ==
  /\ Init
  /\ [][Next]_vars
  /\ \A d \in Dials :
       /\ WF_vars(TakeCached(d) \/ SkipCached(d))
       /\ WF_vars(StoreConn(d))
       /\ WF_vars(~pipe[d] /\ Http1TimesOut(d))

-----------------------------------------------------------------------------
(* Properties *)

\* Types of the dialer's state; a dial that speaks to the proxy, and a tunnel,
\* have a connection.
TypeOK ==
  /\ cached \in Conns \cup {None}
  /\ open \subseteq Conns
  /\ proto \in [Conns -> Protocols]
  /\ replaced \subseteq Conns
  /\ pc \in [Dials -> States]
  /\ raw \in [Dials -> Conns \cup {None}]
  /\ pipe \in [Dials -> BOOLEAN]
  /\ \A d \in Dials :
       raw[d] = None <=> pc[d] \in {"idle", "start", "dial"}

\* Every open connection has somebody to close it, a dial, a tunnel or the
\* cache, except one that lost its place in the cache: no failing path of
\* DialContext leaves its connection open.
NothingLeftOpen ==
  \A c \in open :
    \/ cached = c
    \/ \E d \in Dials : raw[d] = c
    \/ c \in replaced

\* A dial takes the connection away from somebody else's tunnel only if they
\* share it over HTTP/2: an HTTP/1 tunnel ends by its owner or by the proxy.
Http1TunnelsAreAlone ==
  [][\A d, e \in Dials :
       d # e /\ DialStep(d) /\ pc[e] = "tunnel" /\ raw[e] \in open
         /\ raw[e] \notin open' => proto[raw[e]] = "h2"]_vars

\* Where a dial may wait without a deadline.
WaitsUnbounded(d) ==
  \/ pc[d] \in {"dial", "reuse", "http2"}
  \/ pc[d] = "http1" /\ pipe[d]

\* Every dial returns, unless the network holds it for ever in one wait that has
\* no deadline: the cached connection is tried once, however often other dials
\* replace or break it, and a silent HTTP/1 proxy costs the timeout.
DialReturns ==
  \A d \in Dials :
    []<>(pc[d] \in {"idle", "tunnel"}) \/ <>[]WaitsUnbounded(d)

=============================================================================
