------------------------------ MODULE WebSocket ------------------------------
(***************************************************************************)
(* A WebSocket of a client (websocket.go), made and connected while the    *)
(* proxy of the client changes.  NewWebsocket takes two dial functions     *)
(* from the client and keeps them: GetTLSDialer's, which is bound to the   *)
(* transport of that moment, for wss URLs, and the client's own dialer for *)
(* ws URLs.  WebSockets go over TCP only.                                  *)
(***************************************************************************)
EXTENDS Client

VARIABLES
  dialer,  \* httpClient.dialer: the way over TCP the client was built with
  ws,      \* the ways of the WebSocket's dial functions, by scheme, or None
  wsWay,   \* the way its last connection went
  \* history
  due      \* the ways that a request could go when the WebSocket was made

wsVars == <<dialer, ws, wsWay, due>>

Schemes == {"ws", "wss"}

WsInit ==
  /\ Init
  /\ dialer = transport.tcp
  /\ ws = None
  /\ wsWay = None
  /\ due = {}

\* Faulty variant: the fallback for transports of another type, always.
GetTLSDialer_Fallback == dialer

\* rt.dialTLSForWebsocket of the transport in use now.
GetTLSDialer == transport.tcp

\* The proxies a request may use now, see NoBypass, and a custom dialContext.
InEffect == {"dialContext"} \cup Allowed

\* validateWebsocketConfig lets it pass: it has a client and a URL.
NewWebsocket ==
  /\ ws' = [s \in Schemes |-> IF s = "wss" THEN GetTLSDialer ELSE dialer]
  /\ due' = InEffect
  /\ wsWay' = None
  /\ UNCHANGED <<dialer, vars>>

\* Each connection, also a second one of the same WebSocket, is dialled anew.
Connect(scheme) ==
  /\ ws # None
  /\ wsWay' = [scheme |-> scheme, way |-> ws[scheme]]
  /\ UNCHANGED <<dialer, ws, due, vars>>

WsNext ==
  \/ NewWebsocket
  \/ \E scheme \in Schemes : Connect(scheme)
  \/ Next /\ UNCHANGED wsVars

WsSpec == WsInit /\ [][WsNext]_<<vars, wsVars>>

-----------------------------------------------------------------------------
(* Properties *)

\* A wss connection goes by a proxy that was in effect when its WebSocket was
\* made, also if the client was built with another, and also if a change was
\* being made or rolled back at the time.  (A ws connection goes by the proxy
\* the client was built with.)
WssNoBypass ==
  wsWay # None /\ wsWay.scheme = "wss" => wsWay.way \in due

=============================================================================
