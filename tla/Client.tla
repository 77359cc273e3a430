------------------------------- MODULE Client -------------------------------
(***************************************************************************)
(* The proxy and the redirect policy of a client (client.go).  SetProxy    *)
(* and SetFollowRedirect change them while requests follow their           *)
(* redirects: net/http reads Client.Transport before every hop and         *)
(* Client.CheckRedirect after every redirect, without a lock, so the       *)
(* writes of both are steps of their own.                                  *)
(*                                                                         *)
(* A proxy URL is represented by its scheme, and by whether                *)
(* newConnectDialer accepts it; "direct" is the empty URL, no proxy.       *)
(* SetProxy and SetFollowRedirect are called by one goroutine at a time,   *)
(* as cffi_src/factory.go does under clientsLock.                          *)
(***************************************************************************)
EXTENDS Naturals

CONSTANTS
  Calls,      \* callers of Do
  MaxHops,    \* bound on the requests of one call
  ProxyUrls,  \* URLs given to WithProxyUrl and SetProxy
  None

Socks5Urls == {"socks5", "socks5-no-host"}
Dialers == {"built-in", "factory", "dialContext"}

ASSUME ClientAssumption ==
  /\ MaxHops \in Nat \ {0}
  /\ ProxyUrls \subseteq {"direct", "http", "ftp"} \cup Socks5Urls

VARIABLES
  config,         \* the options that stay: dialer, racing, custom redirect func
  follow,         \* config.followRedirects
  checkRedirect,  \* Client.CheckRedirect
  followPc,       \* where SetFollowRedirect is
  proxyUrl,       \* config.proxyUrl
  transport,      \* the ways of Client.Transport over TCP and over QUIC
  setPc,          \* where SetProxy is
  asked,          \* its argument
  currentProxy,   \* the URL it can roll back to
  setResult,      \* what it returned
  pc,             \* where a call of Do is
  hops,           \* the number of requests it has sent
  way             \* which way the last of them went

redirectVars == <<follow, checkRedirect, followPc>>
proxyVars == <<proxyUrl, transport, setPc, asked, currentProxy, setResult>>
callVars == <<pc, hops, way>>
vars == <<config, redirectVars, proxyVars, callVars>>

-----------------------------------------------------------------------------
(* Building a client *)

\* newConnectDialer makes a dialer out of u.
newConnectDialer(u) == u \in {"http", "socks5"}

validateProxyConfig(u) == u = "direct" \/ ~config.racing \/ u \in Socks5Urls

\* The checks of validateConfig on what is modelled here.
validateConfig ==
  /\ config.dialer # "built-in" => proxyUrl = "direct"
  /\ validateProxyConfig(proxyUrl)

\* Faulty variant: a proxy that only carries TCP is ignored for HTTP/3.
buildHTTP3Transport_Direct(u) == IF u \in Socks5Urls THEN u ELSE "direct"

\* The way of QUIC: only SOCKS5 can carry it.
buildHTTP3Transport(u) ==
  IF u \in {"direct"} \cup Socks5Urls THEN u ELSE "refused"

\* The dialer for URL u.  A factory is given the URL, a dialContext is not.
\* direct is the dialer of a client without a proxy and without a factory.
DialerFor(u, direct) ==
  CASE config.dialer = "dialContext" -> "dialContext"
    [] config.dialer = "built-in" /\ u = "direct" -> direct
    [] OTHER -> u

newRoundTripper(u, d) == [tcp |-> d, quic |-> buildHTTP3Transport(u)]

\* Connections without a proxy are made by newDirectDialer's dialer, which has
\* the timeout, the local address and the net.Dialer of the options.
buildFromConfig(u) == newRoundTripper(u, DialerFor(u, "direct"))

\* applyProxy makes them by proxy.Direct, which has none of these.
applyProxy(u) == newRoundTripper(u, DialerFor(u, "proxy.Direct"))

\* Whether a dialer for u may, and whether it must, be made without error.
DialerMayFail(u) ==
  config.dialer = "factory" \/ (u # "direct" /\ ~newConnectDialer(u))

DialerMaySucceed(u) ==
  config.dialer = "factory" \/ u = "direct" \/ newConnectDialer(u)

\* The policy for a setting of followRedirects.
redirectFunc(f) ==
  IF ~f THEN "lastResponse" ELSE IF config.custom THEN "custom" ELSE "default"

Init ==
  /\ config \in [dialer : Dialers, racing : BOOLEAN, custom : BOOLEAN]
  /\ follow \in BOOLEAN
  /\ checkRedirect = redirectFunc(follow)
  /\ followPc = "idle"
  /\ proxyUrl \in ProxyUrls
  /\ validateConfig
  /\ DialerMaySucceed(proxyUrl)
  /\ transport = buildFromConfig(proxyUrl)
  /\ setPc = "idle" /\ asked = proxyUrl /\ currentProxy = proxyUrl
  /\ setResult = None
  /\ pc = [c \in Calls |-> "idle"]
  /\ hops = [c \in Calls |-> 0]
  /\ way = [c \in Calls |-> None]

-----------------------------------------------------------------------------
(* SetFollowRedirect and SetProxy *)

SetFollowRedirect(f) ==
  /\ followPc = "idle"
  /\ follow' = f
  /\ followPc' = "apply"
  /\ UNCHANGED <<config, checkRedirect, proxyVars, callVars>>

\* Faulty variant: the custom function is not put back.
applyFollowRedirect_Default ==
  /\ followPc = "apply"
  /\ checkRedirect' = IF follow THEN "default" ELSE "lastResponse"
  /\ followPc' = "idle"
  /\ UNCHANGED <<config, follow, proxyVars, callVars>>

\* applyFollowRedirect writes the policy of net/http or the one that stops ...
applyFollowRedirect ==
  /\ followPc = "apply"
  /\ checkRedirect' = IF follow THEN "default" ELSE "lastResponse"
  /\ followPc' = IF config.custom /\ follow THEN "custom" ELSE "idle"
  /\ UNCHANGED <<config, follow, proxyVars, callVars>>

\* ... and then the client's own over it.
ApplyCustomRedirect ==
  /\ followPc = "custom"
  /\ checkRedirect' = "custom"
  /\ followPc' = "idle"
  /\ UNCHANGED <<config, follow, proxyVars, callVars>>

\* Faulty variant: only NewHttpClient validates.
SetProxy_Unchecked(u) ==
  /\ setPc = "idle"
  /\ asked' = u
  /\ currentProxy' = proxyUrl
  /\ proxyUrl' = u
  /\ setPc' = "apply"
  /\ setResult' = None
  /\ UNCHANGED <<config, redirectVars, transport, callVars>>

\* The checks of validateProxyConfig again; the config changes first.
SetProxy(u) ==
  /\ setPc = "idle"
  /\ asked' = u
  /\ currentProxy' = proxyUrl
  /\ \/ /\ validateProxyConfig(u)
        /\ proxyUrl' = u
        /\ setPc' = "apply"
        /\ setResult' = None
     \/ /\ ~validateProxyConfig(u)
        /\ setResult' = "error"
        /\ UNCHANGED <<proxyUrl, setPc>>
  /\ UNCHANGED <<config, redirectVars, transport, callVars>>

\* applyProxy replaces the transport, the first time or after the rollback, and
\* SetProxy returns what it returns.
ApplyProxy ==
  /\ setPc \in {"apply", "rolledBack"}
  /\ DialerMaySucceed(proxyUrl)
  /\ transport' = applyProxy(proxyUrl)
  /\ setResult' = "ok"
  /\ setPc' = "idle"
  /\ UNCHANGED <<config, redirectVars, proxyUrl, asked, currentProxy, callVars>>

\* Faulty variant: the failed URL stays in the config.
RollBack_KeepsUrl ==
  /\ setPc = "apply"
  /\ DialerMayFail(proxyUrl)
  /\ setResult' = "error"
  /\ setPc' = "idle"
  /\ UNCHANGED <<config, redirectVars, proxyUrl, transport, asked, currentProxy,
                 callVars>>

\* applyProxy fails: the previous URL is put back, to be applied again.
RollBack ==
  /\ setPc = "apply"
  /\ DialerMayFail(proxyUrl)
  /\ proxyUrl' = currentProxy
  /\ setPc' = "rolledBack"
  /\ UNCHANGED <<config, redirectVars, transport, asked, currentProxy,
                 setResult, callVars>>

\* It fails again, and leaves the transport as it is.
RollBackFails ==
  /\ setPc = "rolledBack"
  /\ DialerMayFail(proxyUrl)
  /\ setResult' = "error"
  /\ setPc' = "idle"
  /\ UNCHANGED <<config, redirectVars, proxyUrl, transport, asked, currentProxy,
                 callVars>>

-----------------------------------------------------------------------------
(* Do *)

Goto(c, state) == pc' = [pc EXCEPT ![c] = state]

Do(c) ==
  /\ pc[c] = "idle"
  /\ Goto(c, "send")
  /\ hops' = [hops EXCEPT ![c] = 0]
  /\ way' = [way EXCEPT ![c] = None]
  /\ UNCHANGED <<config, redirectVars, proxyVars>>

\* A request goes out by the transport the client has now.
Send(c, protocol) ==
  /\ pc[c] = "send"
  /\ hops[c] < MaxHops
  /\ transport[protocol] # "refused"
  /\ Goto(c, "sent")
  /\ hops' = [hops EXCEPT ![c] = @ + 1]
  /\ way' = [way EXCEPT ![c] = transport[protocol]]
  /\ UNCHANGED <<config, redirectVars, proxyVars>>

\* An error, or a response that is no redirect; or HTTP/3 is refused.
Return(c) ==
  /\ pc[c] \in {"send", "sent"}
  /\ Goto(c, "idle")
  /\ UNCHANGED <<config, redirectVars, proxyVars, hops, way>>

\* A redirect is followed if CheckRedirect, as it is now, allows it.
FollowRedirect(c) ==
  /\ pc[c] = "sent"
  /\ checkRedirect # "lastResponse"
  /\ Goto(c, "send")
  /\ UNCHANGED <<config, redirectVars, proxyVars, hops, way>>

-----------------------------------------------------------------------------

Next ==
  \/ \E f \in BOOLEAN : SetFollowRedirect(f)
  \/ applyFollowRedirect
  \/ ApplyCustomRedirect
  \/ \E u \in ProxyUrls : SetProxy(u)
  \/ ApplyProxy
  \/ RollBack
  \/ RollBackFails
  \/ \E c \in Calls :
       \/ Do(c)
       \/ \E protocol \in {"tcp", "quic"} : Send(c, protocol)
       \/ Return(c)
       \/ FollowRedirect(c)

Spec == Init /\ [][Next]_vars

-----------------------------------------------------------------------------
(* Properties *)

\* The ways that lead by URL u; both direct dialers do without a proxy.
WaysBy(u) == {u} \cup IF u = "direct" THEN {"proxy.Direct"} ELSE {}

\* The ways a request may go now: by the proxy of the config or, while SetProxy
\* runs, by the one before or the one asked for.
Allowed ==
  IF setPc = "idle" THEN WaysBy(proxyUrl)
                    ELSE WaysBy(currentProxy) \cup WaysBy(asked)

\* No request bypasses the proxy, over TCP or over QUIC, at the first hop or
\* after a redirect: outside SetProxy it goes by the proxy GetProxy reports,
\* and during SetProxy by the one before or the one asked for, never directly
\* or by a third.  A custom dialContext is on its own over TCP.
NoBypass ==
  [][\A c \in Calls :
       hops'[c] > hops[c] /\ way'[c] # "dialContext" =>
         way'[c] \in Allowed]_vars

\* A transport that was made for URL u, by NewHttpClient or by SetProxy.
MadeFor(u) == transport \in {buildFromConfig(u), applyProxy(u)}

\* GetProxy tells the truth: outside SetProxy, after any number of failed and
\* rolled back changes, the transport in use is one for config.proxyUrl.
ProxyInEffect == setPc = "idle" => MadeFor(proxyUrl)

\* A racing client never has a proxy that cannot carry QUIC, also not after
\* changes: otherwise "a client created without a proxy could be switched to a
\* TCP only proxy at runtime".
RacingNeedsSocks5 == config.racing => proxyUrl \in {"direct"} \cup Socks5Urls

\* SetFollowRedirect takes effect for requests that are under way.  Once its
\* write of CheckRedirect is done no redirect is followed while following is
\* off; and on a client with a redirect function of its own a redirect is
\* followed without asking that function only between the two writes of
\* applyFollowRedirect.
RedirectsAsSet ==
  [][\A c \in Calls :
       pc[c] = "sent" /\ pc'[c] = "send" =>
         /\ follow \/ followPc = "apply"
         /\ config.custom =>
              checkRedirect = "custom" \/ followPc = "custom"]_vars

=============================================================================
