---------------------------- MODULE ClientProofs ----------------------------
(***************************************************************************)
(* Proofs about Client, and about the WebSocket that is made of one, for   *)
(* any number of callers, hops and proxy URLs.                             *)
(*                                                                         *)
(* What the code has to get right is the rollback of SetProxy.  Outside    *)
(* SetProxy the transport belongs to config.proxyUrl; inside, the URL has  *)
(* changed and the transport has not, so the invariant has to say that the *)
(* transport still belongs to the URL SetProxy can roll back to.           *)
(***************************************************************************)
EXTENDS WebSocket, TLAPS

\* The transport belongs to the URL that SetProxy found.
OldTransport == setPc # "idle" => MadeFor(currentProxy)

\* The URL in the config is the one asked for, or the old one again after the
\* rollback.
UrlIsKnown ==
  /\ setPc = "apply" => proxyUrl = asked
  /\ setPc = "rolledBack" => proxyUrl = currentProxy

\* The URL to roll back to has been validated too.
RollbackIsValid ==
  config.racing /\ setPc # "idle" => currentProxy \in {"direct"} \cup Socks5Urls

SetProxyStates == {"idle", "apply", "rolledBack"}

IInv ==
  /\ setPc \in SetProxyStates
  /\ ProxyInEffect
  /\ OldTransport
  /\ UrlIsKnown
  /\ RacingNeedsSocks5
  /\ RollbackIsValid

-----------------------------------------------------------------------------

\* A new client has the transport of the URL it was validated with.
LEMMA InitInv == Init => IInv
BY DEF Init, IInv, SetProxyStates, ProxyInEffect, OldTransport, UrlIsKnown,
       RacingNeedsSocks5, RollbackIsValid, MadeFor, validateConfig,
       validateProxyConfig

\* Every operation of the client keeps URL and transport together.
LEMMA StepInv == IInv /\ [Next]_vars => IInv'
<1> SUFFICES ASSUME IInv, [Next]_vars PROVE IInv'
  OBVIOUS
<1> USE DEF IInv, SetProxyStates, ProxyInEffect, OldTransport, UrlIsKnown,
            RacingNeedsSocks5, RollbackIsValid, MadeFor, buildFromConfig,
            applyProxy, newRoundTripper, DialerFor, buildHTTP3Transport
<1>1. ASSUME \/ \E f \in BOOLEAN : SetFollowRedirect(f)
             \/ applyFollowRedirect
             \/ ApplyCustomRedirect
      PROVE  IInv'
  BY <1>1 DEF SetFollowRedirect, applyFollowRedirect, ApplyCustomRedirect,
              proxyVars
<1>2. ASSUME NEW u \in ProxyUrls, SetProxy(u) PROVE IInv'
  BY <1>2 DEF SetProxy, validateProxyConfig
<1>3. CASE ApplyProxy
  BY <1>3 DEF ApplyProxy
<1>4. CASE RollBack
  BY <1>4 DEF RollBack
<1>5. CASE RollBackFails
  BY <1>5 DEF RollBackFails
<1>6. ASSUME NEW c \in Calls,
             \/ Do(c)
             \/ \E protocol \in {"tcp", "quic"} : Send(c, protocol)
             \/ Return(c)
             \/ FollowRedirect(c)
      PROVE  IInv'
  BY <1>6 DEF Do, Send, Return, FollowRedirect, proxyVars
<1>7. CASE UNCHANGED vars
  BY <1>7 DEF vars, proxyVars
<1> QED
  BY <1>1, <1>2, <1>3, <1>4, <1>5, <1>6, <1>7 DEF Next

\* The invariant of the proxy: URL and transport belong together, and the URL
\* that SetProxy may roll back to is known and valid.
THEOREM Invariance == Spec => []IInv
BY InitInv, StepInv, PTL DEF Spec

\* GetProxy tells the truth about the transport, whatever changes of the proxy
\* have failed and been rolled back.
THEOREM ProxyAlwaysInEffect == Spec => []ProxyInEffect
<1>1. IInv => ProxyInEffect
  BY DEF IInv
<1> QED
  BY Invariance, <1>1, PTL

\* A racing client keeps to proxies that carry QUIC.
THEOREM RacingStaysOnSocks5 == Spec => []RacingNeedsSocks5
<1>1. IInv => RacingNeedsSocks5
  BY DEF IInv
<1> QED
  BY Invariance, <1>1, PTL

-----------------------------------------------------------------------------

\* Over TCP and over QUIC, a transport for u leads by u or refuses, unless the
\* client has a dialContext of its own.
LEMMA WaysOfTransport ==
  ASSUME NEW u, NEW protocol \in {"tcp", "quic"}, MadeFor(u),
         protocol = "tcp" \/ transport[protocol] # "refused"
  PROVE  transport[protocol] \in WaysBy(u) \cup {"dialContext"}
<1>1. PICK d \in {DialerFor(u, "direct"), DialerFor(u, "proxy.Direct")} :
        transport = newRoundTripper(u, d)
  BY DEF MadeFor, buildFromConfig, applyProxy
<1>2. d \in WaysBy(u) \cup {"dialContext"}
  BY DEF DialerFor, WaysBy
<1>3. CASE protocol = "tcp"
  BY <1>1, <1>2, <1>3 DEF newRoundTripper
<1>4. CASE protocol = "quic"
  BY <1>1, <1>4 DEF newRoundTripper, buildHTTP3Transport, WaysBy
<1> QED
  BY <1>3, <1>4

\* Whatever the transport does not refuse goes an allowed way.
LEMMA TransportAllowed ==
  ASSUME IInv, NEW protocol \in {"tcp", "quic"},
         protocol = "tcp" \/ transport[protocol] # "refused"
  PROVE  transport[protocol] \in Allowed \cup {"dialContext"}
<1>1. CASE setPc = "idle"
  <2>1. MadeFor(proxyUrl)
    BY <1>1 DEF IInv, ProxyInEffect
  <2> QED
    BY <1>1, <2>1, WaysOfTransport DEF Allowed
<1>2. CASE setPc # "idle"
  <2>1. MadeFor(currentProxy)
    BY <1>2 DEF IInv, OldTransport
  <2> QED
    BY <1>2, <2>1, WaysOfTransport DEF Allowed
<1> QED
  BY <1>1, <1>2

\* Hops are counted, and both they and the ways are kept by caller.
CallsInv ==
  /\ hops \in [Calls -> Nat]
  /\ way = [c \in Calls |-> way[c]]

\* Every step of a call, or beside it, counts its hops up or starts at zero.
LEMMA CallsInvariance == Spec => []CallsInv
<1>1. Init => CallsInv
  BY DEF Init, CallsInv
<1>2. CallsInv /\ [Next]_vars => CallsInv'
  <2> SUFFICES ASSUME CallsInv, [Next]_vars PROVE CallsInv'
    OBVIOUS
  <2>1. CASE UNCHANGED callVars
    BY <2>1 DEF CallsInv, callVars
  <2>2. ASSUME NEW c \in Calls, Do(c) PROVE CallsInv'
    BY <2>2 DEF Do, CallsInv
  <2>3. ASSUME NEW c \in Calls, NEW protocol \in {"tcp", "quic"},
               Send(c, protocol)
        PROVE  CallsInv'
    BY <2>3 DEF Send, CallsInv
  <2>4. ASSUME NEW c \in Calls, Return(c) \/ FollowRedirect(c)
        PROVE  CallsInv'
    BY <2>4 DEF Return, FollowRedirect, CallsInv
  <2> QED
    BY <2>1, <2>2, <2>3, <2>4
       DEF Next, vars, SetFollowRedirect, applyFollowRedirect,
           ApplyCustomRedirect, SetProxy, ApplyProxy, RollBack, RollBackFails
<1> QED
  BY <1>1, <1>2, PTL DEF Spec

\* A step that sends a request of call c sends it by a known way.
WayIsKnown(c) ==
  hops'[c] > hops[c] /\ way'[c] # "dialContext" => way'[c] \in Allowed

\* No request bypasses the proxy: every hop goes by the proxy in effect or,
\* while SetProxy runs, by the one before it or the one asked for.
THEOREM NoRequestBypasses == Spec => NoBypass
<1>1. ASSUME IInv, CallsInv, [Next]_vars, NEW c \in Calls
      PROVE  WayIsKnown(c)
  <2>1. CASE UNCHANGED hops
    BY <1>1, <2>1 DEF CallsInv, WayIsKnown
  <2>2. ASSUME NEW d \in Calls, Do(d) PROVE WayIsKnown(c)
    BY <1>1, <2>2 DEF Do, CallsInv, WayIsKnown
  <2>3. ASSUME NEW d \in Calls, NEW protocol \in {"tcp", "quic"},
               Send(d, protocol)
        PROVE  WayIsKnown(c)
    <3>1. CASE c # d
      BY <1>1, <2>3, <3>1 DEF Send, CallsInv, WayIsKnown
    <3>2. CASE c = d
      <4>1. way'[c] = transport[protocol] /\ transport[protocol] # "refused"
        BY <1>1, <2>3, <3>2 DEF Send, CallsInv
      <4> QED
        BY <1>1, <4>1, TransportAllowed DEF WayIsKnown
    <3> QED
      BY <3>1, <3>2
  <2> QED
    BY <1>1, <2>1, <2>2, <2>3
       DEF Next, vars, callVars, SetFollowRedirect, applyFollowRedirect,
           ApplyCustomRedirect, SetProxy, ApplyProxy, RollBack, RollBackFails,
           Return, FollowRedirect
<1>2. IInv /\ CallsInv /\ [Next]_vars =>
        [\A c \in Calls : WayIsKnown(c)]_vars
  BY <1>1
<1> QED
  BY Invariance, CallsInvariance, <1>2, PTL DEF Spec, NoBypass, WayIsKnown

-----------------------------------------------------------------------------

\* Where SetFollowRedirect is tells which policy net/http finds: the one of the
\* setting outside it, one of the two settings before its first write, and the
\* default policy in place of the custom one between its two writes.
RedirectInv ==
  /\ follow \in BOOLEAN
  /\ config.custom \in BOOLEAN
  /\ followPc \in {"idle", "apply", "custom"}
  /\ followPc = "idle" => checkRedirect = redirectFunc(follow)
  /\ followPc = "apply" => \E f \in BOOLEAN : checkRedirect = redirectFunc(f)
  /\ followPc = "custom" => follow /\ config.custom

\* Every write of SetFollowRedirect keeps this.
LEMMA RedirectInvariance == Spec => []RedirectInv
<1>1. Init => RedirectInv
  BY DEF Init, RedirectInv
<1>2. RedirectInv /\ [Next]_vars => RedirectInv'
  <2> SUFFICES ASSUME RedirectInv, [Next]_vars PROVE RedirectInv'
    OBVIOUS
  <2>1. ASSUME NEW f \in BOOLEAN, SetFollowRedirect(f) PROVE RedirectInv'
    BY <2>1 DEF SetFollowRedirect, RedirectInv, redirectFunc
  <2>2. CASE applyFollowRedirect
    BY <2>2 DEF applyFollowRedirect, RedirectInv, redirectFunc
  <2>3. CASE ApplyCustomRedirect
    BY <2>3 DEF ApplyCustomRedirect, RedirectInv, redirectFunc
  <2>4. CASE UNCHANGED <<config, redirectVars>>
    BY <2>4 DEF redirectVars, RedirectInv, redirectFunc
  <2> QED
    BY <2>1, <2>2, <2>3, <2>4
       DEF Next, vars, SetProxy, ApplyProxy, RollBack, RollBackFails, Do, Send,
           Return, FollowRedirect
<1> QED
  BY <1>1, <1>2, PTL DEF Spec

\* A redirect of call c that a step follows is followed as the setting says.
FollowedAsSet(c) ==
  pc[c] = "sent" /\ pc'[c] = "send" =>
    /\ follow \/ followPc = "apply"
    /\ config.custom => checkRedirect = "custom" \/ followPc = "custom"

\* Requests under way follow redirects as SetFollowRedirect says, but for the
\* moment between its two writes.
THEOREM RedirectsFollowTheSetting == Spec => RedirectsAsSet
<1>1. ASSUME RedirectInv, NEW d \in Calls, FollowRedirect(d), NEW c \in Calls
      PROVE  FollowedAsSet(c)
  BY <1>1 DEF FollowRedirect, FollowedAsSet, RedirectInv, redirectFunc
<1>2. ASSUME pc = [c \in Calls |-> pc[c]], [Next]_vars, NEW c \in Calls,
             pc[c] = "sent", pc'[c] = "send"
      PROVE  \E d \in Calls : FollowRedirect(d)
  <2>1. CASE UNCHANGED pc
    BY <1>2, <2>1
  <2>2. ASSUME NEW d \in Calls, Do(d) PROVE FALSE
    BY <1>2, <2>2 DEF Do, Goto
  <2>3. ASSUME NEW d \in Calls, NEW protocol \in {"tcp", "quic"},
               Send(d, protocol)
        PROVE  FALSE
    BY <1>2, <2>3 DEF Send, Goto
  <2>4. ASSUME NEW d \in Calls, Return(d) PROVE FALSE
    BY <1>2, <2>4 DEF Return, Goto
  <2> QED
    BY <1>2, <2>1, <2>2, <2>3, <2>4
       DEF Next, vars, callVars, SetFollowRedirect, applyFollowRedirect,
           ApplyCustomRedirect, SetProxy, ApplyProxy, RollBack, RollBackFails
<1>3. Spec => [](pc = [c \in Calls |-> pc[c]])
  <2> DEFINE PcIsFunction == pc = [c \in Calls |-> pc[c]]
  <2>1. Init => PcIsFunction
    BY DEF Init
  <2>2. PcIsFunction /\ [Next]_vars => PcIsFunction'
    BY DEF Next, vars, callVars, SetFollowRedirect, applyFollowRedirect,
           ApplyCustomRedirect, SetProxy, ApplyProxy, RollBack, RollBackFails,
           Do, Send, Return, FollowRedirect, Goto
  <2> QED
    BY <2>1, <2>2, PTL DEF Spec
<1>4. RedirectInv /\ pc = [c \in Calls |-> pc[c]] /\ [Next]_vars =>
        [\A c \in Calls : FollowedAsSet(c)]_vars
  BY <1>1, <1>2 DEF FollowedAsSet
<1> QED
  BY RedirectInvariance, <1>3, <1>4, PTL DEF Spec, RedirectsAsSet,
     FollowedAsSet

-----------------------------------------------------------------------------

\* The way of wss connections is one that a request could have gone.
WssInv ==
  /\ ws # None => ws["wss"] \in due
  /\ WssNoBypass

\* What GetTLSDialer returns is in effect: the transport belongs to the URL of
\* the config or, within SetProxy, to the one before.
LEMMA TLSDialerInEffect == IInv => GetTLSDialer \in InEffect
BY TransportAllowed DEF GetTLSDialer, InEffect

\* A wss connection goes by a proxy that was in effect when its WebSocket was
\* made, whatever changes of the proxy come before and after.
THEOREM WssNeverBypasses == WsSpec => []WssNoBypass
<1>1. WsInit => IInv /\ WssInv
  BY InitInv DEF WsInit, WssInv, WssNoBypass
<1>2. IInv /\ WssInv /\ [WsNext]_<<vars, wsVars>> => IInv' /\ WssInv'
  <2> SUFFICES ASSUME IInv, WssInv, [WsNext]_<<vars, wsVars>>
               PROVE  IInv' /\ WssInv'
    OBVIOUS
  <2>1. [Next]_vars
    BY DEF WsNext, NewWebsocket, Connect
  <2>2. IInv'
    BY <2>1, StepInv
  <2>3. CASE NewWebsocket
    BY <2>2, <2>3, TLSDialerInEffect
       DEF NewWebsocket, WssInv, WssNoBypass, Schemes
  <2>4. ASSUME NEW scheme \in Schemes, Connect(scheme) PROVE WssInv'
    BY <2>4 DEF Connect, WssInv, WssNoBypass, Schemes
  <2>5. CASE UNCHANGED wsVars
    BY <2>2, <2>5 DEF wsVars, WssInv, WssNoBypass
  <2> QED
    BY <2>2, <2>3, <2>4, <2>5 DEF WsNext
<1>3. WssInv => WssNoBypass
  BY DEF WssInv
<1> QED
  BY <1>1, <1>2, <1>3, PTL DEF WsSpec

=============================================================================
