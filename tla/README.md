# tls-client: a TLA+ development

tls-client is a Go HTTP client that imitates the TLS, HTTP/2 and HTTP/3
fingerprints of browsers. This directory holds TLA+ models of the parts of it
that are concurrent, stateful or easy to get wrong, the TLC configurations that
check them, and proofs of what matters most.

Contents: [the system](#the-system) · [modules](#modules-and-code) ·
[runs](#runs) · [fairness](#fairness) · [proofs](#proofs) ·
[where the code departs from its documentation](#where-the-code-departs-from-its-documentation) ·
[not modelled](#not-modelled) · [plan](#plan)

## The system

A caller builds an `HttpClient` with options and calls `Do`. `Do` runs hooks
and hands the request to `net/http` (the fork `fhttp`), which follows redirects
and calls the round tripper for each hop. The round tripper keeps one transport
per address, chosen by what the server negotiated in a first TLS handshake; if
racing is on, the racer sits in front of it. Connections are made by the dialer
the client was built with: direct, CONNECT over HTTP/1 or HTTP/2, SOCKS, or the
caller's own. HTTP/3 goes over QUIC, directly or through a SOCKS5 UDP
association. A C interface keeps clients in a process-wide map of sessions.

| Component | State | Operations | Hard behaviour | What makes it correct |
|---|---|---|---|---|
| Round tripper, `roundtripper.go` | `cachedTransports`, `cachedKinds`, the stash `cachedConnections`; three mutexes | `RoundTrip`, `getTransport`, `dialTLSWithSetup` for set-up and for reconnect, `dropCachedTransport`, `CloseIdleConnections` | a mutex held for a whole handshake; drops in two critical sections; dials that outlive their request; servers that change protocol between handshakes | no panic in `getTransport`; the stash belongs to the cached transport; a transport is neither replaced nor removed for another; a reconnect of a cached transport gets a connection it can speak on; every request returns; the client recovers from a protocol change |
| Racer, `racer.go` | `protocolCache`, HTTP/3 transports under `addr:h3` | `race`, `tryUseCachedProtocol`, two legs, `waitForRaceWinner`, `cacheWinningProtocol` | legs that run on without an owner; a remembered protocol the server has outgrown | `getTransport` does not panic under racing either; no leg blocks on its channel; a call that meets a protocol change still succeeds |
| CONNECT dialer, `connect.go` | the cached HTTP/2 connection under `cacheH2Mu` | `DialContext`, `connectHttp1`, `connectHttp2`, `Close` of a tunnel | tunnels of several callers on one connection, which breaks or is replaced | nothing is left open on a failing path; tunnels over HTTP/1 are disturbed by nobody; a dial returns unless it is held in one of the waits without a deadline |
| SOCKS5 QUIC dialer, `socks5_udp.go` | a UDP socket, a control connection, a QUIC transport | `newSOCKS5QUICDialer`, `socks5UDPAssociate`, `ReadFrom`, `WriteTo` | six steps that can each fail; a silent proxy; stray datagrams; sizes at the limit | everything is released on every path and nothing earlier; QUIC hears the relay only; no packet is cut; a dial ends |
| Client: proxy and redirects, `client.go` | `config.proxyUrl`, `Client.Transport`, `CheckRedirect` | `NewHttpClient`, `SetProxy`, `SetFollowRedirect`, `Do` | changes between two hops of a request; a rollback that can fail | no hop bypasses the proxy; `GetProxy` tells the truth; racing keeps to proxies that carry QUIC; redirects are followed as set |
| Client: hooks, `client.go` | two slices, each under a lock | `AddPreRequestHook`, `AddPostResponseHook`, `ResetPreHooks`, `ResetPostHooks`, `Do` | a slice walked without the lock while its array is appended to in place | a call runs the hooks it took, and never a nil one |
| WebSocket, `websocket.go` | two dial functions taken from the client | `NewWebsocket`, `Connect` | the proxy of the client changes before it connects | a connection goes by a proxy that was in effect when it was made |
| C interface, `cffi_src/factory.go`, `cffi_dist/main.go` | `clients` by session under `clientsLock`, `unsafePointers` | `request`, `getCookiesFromSession`, `addCookiesToSession`, `destroySession`, `destroyAll`, `freeMemory` | a client shared and modified by concurrent requests; a failed construction; a destroy that waits for a dial with the lock held | one client per session; a request goes by a proxy its session asked for; no C string is freed twice, however often it is released |
| Certificate pinner, `pinner.go` | `certificatePinStorage`, one for the process | `init`, `Pin` | all clients share the store, and register while others connect | a TCP connection passes only with one of its client's pins, unless another client says something else about the host |
| Cookie jar, `jar.go` | `allCookies`, slices by host key | `SetCookies`, `Cookies`, `GetAllCookies`, `SetCookieJar` | merges by name, emptiness and expiry; slices handed out without a copy | the jar is a store of one cookie per site and name; what was handed out does not change |
| Profiles and custom clients, `profiles/`, `ja3.go`, `mapper.go` | the anchors drawn at load or construction, the session cache, maps shared by all transports | `SpecFactory` of a profile, `GetSpecFactoryFromJa3String`, `NewClientProfile`, `buildHTTP3Transport`, `getHttp3Settings`, `supportsSessionResumption` | objects and maps that connections share and a library writes into; data copied from captures by hand; orders that must list what is sent | hellos that servers accept; values that belong to one connection; first frames that are complete and the same for every transport |
| Bandwidth tracker, options, logger | none, or two counters | | | |

The parts interact by calls and by shared state: the racer calls the round
tripper's `getTransport` and `dropCachedTransport` under its locks, the
transports call the round tripper's dialers back, `SetProxy` replaces the whole
round tripper while requests and WebSockets use the old one, the calls of a
session share a client, the clients of a process share the pin store, and the
connections of a client share the maps of its profile.

## Modules and code

| Module | Models | EXTENDS or uses |
|---|---|---|
| `TransportCache` | the promise of the transport cache, without locks or dials | |
| `RoundTripper` | `roundtripper.go` | refines `TransportCache` |
| `Racer` | `racer.go` composed with the round tripper | `RoundTripper` |
| `RoundTripperProofs` | | `Racer` |
| `ConnectDialer` | `connect.go` | |
| `ConnectProofs` | | `ConnectDialer` |
| `Socks5Quic` | `socks5_udp.go` | |
| `Socks5Proofs` | | `Socks5Quic` |
| `Client` | proxy and redirect policy of `client.go` | |
| `WebSocket` | `websocket.go` composed with the client | `Client` |
| `ClientProofs` | | `WebSocket` |
| `Hooks` | hooks of `client.go` | |
| `HooksProofs` | | `Hooks` |
| `Pinner` | `pinner.go` | |
| `Sessions` | `cffi_src/factory.go`, `cffi_dist/main.go`, composed with the pin store | `Pinner` |
| `SessionsProofs` | | `Sessions` |
| `CookieStore` | the promise of the cookie jar | |
| `CookieJar` | `jar.go` | refines `CookieStore` |
| `CookieJarProofs` | | `CookieJar` |
| `ExtensionData` | `profiles/extension_data.go`, `profiles/grease.go` | |
| `Profiles` | the profiles themselves | `ExtensionData` |
| `Ja3` | `ja3.go`, `mapper.go`, `getCustomTlsClientProfile` | `Profiles` |
| `Fingerprint` | a client with a profile, its connections and transports | `Ja3` |
| `FingerprintProofs` | | `Fingerprint` |

Each `MC…` module extends one of these with a symmetry set or a constant for
TLC. A definition whose name carries an underscore (`DropTransport_Whatever`)
is a faulty variant of the one after it, the way a plausible mistake in that
code would look; putting it in place of the original makes TLC violate a
property, which shows that the property depends on that code. `PROJECT.json`
says which one belongs to which property, and names the source lines of each
definition.

### RoundTripper

The three maps are functions from addresses, with `None` for no entry. A
transport is its kind and an identity; a connection is the protocol negotiated
on it. `cachedTransportsLck` and `rtLck` are the mutexes that are held across
steps. `cachedKindsLck` is only held for one map access and is part of the
step that makes it. `pc`, `addr`, `scheme`, `tr`, `conn` and `waiting` are the
goroutine of a request with the dial its transport makes for it; `waiting`
turns false when the caller gives up while the dial goes on.

A step is what a goroutine does between two points at which another one can
tell the difference: taking a mutex, the network answering, the gap between two
critical sections. `RoundTrip` is `Start`, then `RoundTripHit` or one of the
`GetTransport…` actions; a set-up dial is `SetupLock` and `SetupFails`,
`SetupBadPin` or `SetupBuilds`; a transport's own dial is `DialTakesStash`, or
`DialLock` and `DialFails`, `DialKeepsKind` or `DialProtocolChanged`; a drop is
`DropTransport`, `DropKind`, `DropCloseIdle`. The transports are libraries:
they appear as the moves they can make (`SendWithoutDialTLS`, `SendDials`,
`Exchange`, `StopWaiting`, `ConnectionsDie`). `ServerChanges` is the load
balancer that leads the next handshake to another machine.

### Racer

`Racer` extends `RoundTripper`: an HTTP/2 leg, or an attempt on a remembered
"h2", is a slot of `Requests`, and `LegStep` is a step of the round tripper
together with what it means for the call that owns the slot. A slot without an
owner is a leg that has lost; it runs on. The HTTP/3 transports live under keys
of their own (`http3Cached`), which the plain path does not touch. When the
timer of a race fires the call returns the error of the leg that has failed by
then, or else the timeout. There are two history variables: `disturbed` records
whether a server changed, the network failed a leg or the timer fired during a
call, `erased` whether a late drop erased the kind recorded for its address, as
in `rt_kind`. http requests of a racing client do not come here
(`roundtripper.go:320`).

### ConnectDialer

A connection is an identity; `open`, `proto` and `cached` say what it is. `pipe`
records that a failed HTTP/2 attempt has left its pipe in `req.Body`. If the
next connection of the dial speaks HTTP/1, `req.Write` sends the header and goes
on to copy that body, to whose other end nobody writes: it never gets as far as
the proxy's answer, and waits until http2 closes the pipe, which the deadline of
the connection does not bring about. `replaced` is a history variable for
connections that lost their place in the cache, which the code does not close.

### Socks5Quic

Addresses are their families, packets their lengths and header fields, the
negotiation its outcomes. `Arrive` can happen as soon as the socket exists.
`decodeSocks5UDPHeader`, `encodeSocks5UDPHeader`, `pickIPAddr` and the limit of
`WriteTo` are modelled as the functions they are, at the sizes that matter.
`arrived` has all datagrams of a dial and `read` how many the socket has given
to `ReadFrom`; `PacketsAreCarried` compares ranks: the n-th well-formed datagram
among those read is the n-th packet delivered.

### Client and Hooks

A proxy URL is its scheme and whether a dialer can be made of it ("ftp" and
"socks5-no-host" cannot). A transport is the way it leads over TCP and over
QUIC. `SetProxy` is three kinds of step, because requests run in between: the
validation with the change of the configuration, `applyProxy`, and the rollback
with a second `applyProxy`. It is called by one goroutine at a time, as
`handleModification` does under `clientsLock`. Without a proxy there are two
ways, since there are two dialers: "direct" is the one `buildFromConfig` makes
of the options, "proxy.Direct" the one `applyProxy` starts from.
`SetFollowRedirect` is three steps: the flag, the policy of
`applyFollowRedirect`, and over it the caller's own redirect function; requests
read `CheckRedirect` at any moment in between.

A hook list is a Go slice: an array as long as its capacity and a length.
`append` writes in place or doubles the array, and a call that walks the old
array keeps it (`left`). `registered` is a history variable: the hooks of the
slice at the moment it was copied.

### WebSocket

`WebSocket` adds to `Client` the client's own `dialer`, which `SetProxy` does
not change, and the two dial functions a WebSocket keeps. `due` is a history
variable: the proxies a request could have used when the WebSocket was made.

### Sessions and Pinner

A call of an exported function is a program counter, its argument and the client
it got. `clientsLock` is held from the look-up in `getTlsClient` until the pins
of a new round tripper are registered; `draft` is the client as it will be seen
after that. `dials` says for which client a call dials. A set-up dial holds the
`cachedTransportsLck` of that client, which is what `CloseIdleConnections` of
`RemoveSession` waits for; a reconnect (`Redial`) holds only the embedded mutex,
for which a set-up dial waits, and may never end. Registration is a step per
entry, since other clients connect meanwhile; `given` has every entry that was
ever registered. `protocol` says whether the connection is TLS over TCP, where
`Pin` is asked, or the QUIC connection of a race, where it is not. A panic ends
the process: nothing happens after it. `BuildResponse` panics on a negative
block size and stays in its loop for ever on one of 0. `freeMemory` takes any
id, also one released before or never returned; `frees` counts the calls of
`C.free` for each string. `asked` is a history variable, the proxies that the
requests of a client have asked for. A client nobody refers to loses its
identity, so that runs of any length need few; a request that has to build a
client waits for a free identity, which bounds the clients at one time and not
those of a run.

### CookieJar and CookieStore

A list of cookies is a Go slice, an array and a length, as in `Hooks`;
`nonEmpty`, `unique` and `notExpired` are the functions of the source, over
sequences. Their loops, and the two of `SetCookies`, are `Keep` with the
positions at which the body appends. `StoreSpec` compares each operation with
its counterpart in `CookieStore` for the same argument: refinement of the whole
next-state relation would let another argument explain a wrong outcome.

### ExtensionData, Profiles, Ja3 and Fingerprint

A profile is data, and `Profiles` has each of them: the extensions of its hello
in order and by number, its groups and key shares, and what it says in HTTP/2
and HTTP/3. What makes such a table a good one is `SoundProfile`, and
`ProfilesAssumption` says that each registered one is: TLC evaluates it on the
tables before it starts, and the proofs rest on it. `Fingerprint` is what
happens to that data. A factory's result has an extension object at each place
of the hello, and `object` holds what utls has written into them; `ApplyPreset`
and `SendHello` are utls and external. The captures of trust anchors are
sequences of bytes, and `splitTrustAnchors` and `shuffleTrustAnchors` the
functions they are, with the answers of the random source as an argument. A
`CustomTlsClient` is taken apart only as far as the profile depends on it: which
extensions, curves and settings it names, its pseudo headers, priority frames
and header priority, whether its signature algorithms have GREASE, whether its
numbers and algorithms parse, and whether its ja3 string has its five parts. Two
comments of the source disagree on what utls makes of GREASE among the signature
algorithms (below); the model allows both. `MaxResponseHeaderBytes` of the
client is a choice out of `HeaderLimits`, and `GoInts` are the values an `int`
of the build can hold: `buildHTTP3Transport` fails for a limit that is none of
them. Hellos that utls has built in (`Utls(...)` in `Profiles`) are not looked
into, and whether such a client resumes sessions is left out.

## Runs

States are distinct states.

| Run | Instance | Checks | States |
|---|---|---|---|
| `rt` | 2 requests, 1 address, http and https, HTTP/1 and 2, fair | `TypeOK`, `NoPanic`, `StashFits`, `CacheSpec`, `EveryRequestReturns` | 35,146 |
| `rt_recovers` | 1 request at a time, all protocols and no ALPN, fair | `CachedTransportFits`, `Recovers` | 308 |
| `race` | 1 caller after another, 2 HTTP/2 legs at a time, a network that may stay silent | `UndisturbedCallSucceeds`, `NoPanic` | 933,992 |
| `connect` | 2 dials, 3 connections, fair where the code has a deadline | `NothingLeftOpen`, `Http1TunnelsAreAlone`, `DialReturns` | 34,729 |
| `socks5` | 1 dial after another, 2 datagrams out of 9, 3 sizes | `AssociationLasts`, `PacketsAreCarried`, `FamilyMatches`, `DialEnds` | 190,915 |
| `client` | 1 request of 2 hops, 1 WebSocket, 4 URLs, all options | `ProxyInEffect`, `RacingNeedsSocks5`, `WssNoBypass`, `NoBypass`, `RedirectsAsSet` | 3,178,162 |
| `hooks` | 2 calls, 2 hooks, lists up to 4 and 1 | `SnapshotsHold` | 1,009,947 |
| `sessions` | 2 threads, 1 session, 11 kinds of request, all other functions | `NoUnaskedWay`, `FreedOnce`, `RequestsMeetNil`, `PinsInEffect`, `SessionKeepsClient` | 2,365,631 |
| `jar` | 3 hosts of 2 sites, 2 names, lists of up to 3 cookies, all options | `SiteHasItsCookies`, `SnapshotsHold`, `StoreSpec` | 4,060 |
| `profiles` | 2 connections, every registered profile, 383 custom definitions, 4 limits | `HelloWellFormed`, `DrawnForIt`, `AnchorsSound`, `PrefaceComplete`, `Http3SettingsHold`, `SessionsPresented` | 196,725 |

The type invariants of the modules that no run names are parts of the inductive
invariants, and proved with them; the runs spend their checks on the properties
above.

Two more runs end in a violation, and are described
[below](#where-the-code-departs-from-its-documentation): `rt_kind` and
`rt_deadline`.

Why the bounds are enough to meet the interesting cases:

- `rt`. Two requests can be in a drop and a rebuild of the
  same address, in a set-up and in a reconnect, or one dialling for a caller
  that has left. Addresses only share the mutexes; a second one adds nothing to
  the cache properties, which are proved for any number. There are two
  identities per kind, because a dropped transport still in use and its
  successor are all that two requests can refer to. HTTP/3, whose transports
  never dial through the round tripper, is in `rt_recovers`.
- `rt_recovers` has one request at a time on purpose: with two, a late drop
  erases the kind of the rebuilt transport (`rt_kind`), and recovery takes
  another failing request.
- `race` has two slots for HTTP/2 legs, so that the leg of a race that is over
  looks up, rebuilds and drops beside the leg of the present call, and two
  identities per kind for the transports they hold. A caller comes back without
  bound. Without `erased` the property is false with two legs: a late drop
  erases the kind (`rt_kind`), the transport's next reconnect fails, and if the
  HTTP/3 leg fails too so does the call. The theorem is for any number of
  callers and legs.
- `connect` has a third connection so that one can lose its place in the cache
  while two are in use.
- `socks5` has datagrams of length 9 and 10, 21 and 22, a fragment, a domain
  name, another port and a stranger; payloads at both sides of the limit; dials
  repeat without bound, and each begins afresh.
- `client` has a TCP-only and a SOCKS5 URL of which a dialer can be made, one of
  which it cannot, and none; the second hop of a request is where a change has
  happened since the first. There is one request: requests do not see each
  other, and the theorems about them are proved for any number. The WebSocket is
  made and connected at any moment of a change, and again after it.
- `hooks`: an array has room to spare from length 3 (capacity 4), so lists up to
  4 contain an append in place. Post-response hooks use the same operators; a
  list of one is enough to order them after the request.
- `sessions` has two threads, so that every pair of functions meets, and two
  client identities: the client of the session and its successor, or one without
  a session, which share the pin store. The theorems are for any number. The
  requests are one by a proxy, one that changes it, one that fails to, one with
  racing, which makes a change refusable, two without session whose clients have
  other pins, one for the same host with another list and one for a subdomain
  with the same, and one with each defect; a configuration that is refused fails
  as a proxy of which no dialer can be made does.
- `jar`: two hosts share a key and the third has another site; one of them sets
  lists with repeated names, deletions and expired cookies in several orders.
  `append` may leave no room in an array or room for one.
- `profiles`: two connections are enough to write into each other's objects. The
  custom definitions are one that is sound, 19 that are not or leave something
  out, and every capture of up to five bytes out of 0, 1 and 2, which contains
  each way a length can be wrong. The capture of Chrome 152 has 28 records; the
  run uses three, since its shuffle has 28! outcomes. The limits of the header
  are none, a positive one, a negative one, and one that does not fit an `int`
  (which goes up to 2 here).

Deadlock is checked except in two runs. In `sessions` a panic ends the process.
In `profiles` a client is refused, or has made its connections. All others can
always be given another request.

## Fairness

- `FairSpec` (RoundTripper). A goroutine that can run runs: weak fairness of its
  steps. Where a step takes a mutex, strong fairness, since the mutex may be
  taken and released for ever: Go's `sync.Mutex` goes into starvation mode and
  hands itself to a waiter after a millisecond. Handshakes are assumed to be
  answered or refused. The deadline of a set-up dial is the request's context;
  `StopWaiting` is not assumed to happen.
- `DeadlineSpec` drops the assumption on handshakes and keeps what has a
  deadline: set-up dials, dials of the HTTP/1 transport, and callers that give
  up. An HTTP/2 reconnect has none.
- `ConnectDialer!Spec`: a goroutine that looks at the cache, or stores into it,
  runs on, and the deadline that `connectHttp1` sets on its connection passes,
  if the request has nothing but its header to send. Nothing is assumed of the
  dial (`tls.Dial` takes neither context nor deadline), of a request over HTTP/2
  (a reconnect of the round tripper dials in `context.Background()`) and of a
  `req.Write` that reads the pipe; `DialReturns` names these waits.
- `Socks5Quic!Spec`: the client's goroutines run, connecting, resolving and the
  QUIC dial end by the context, the negotiation by its own deadline. The proxy
  may stay silent. The lookups of the proxy's and the relay's host names do not
  observe the context and are assumed to end.
- `RaceSpec`, `Client!Spec`, `WsSpec`, `Hooks!Spec`, `Sessions!Spec`,
  `CookieJar!Spec` and `Fingerprint!Spec` state none: their properties are about
  safety. That every call of the C interface returns is not claimed: a reconnect
  can hold `RemoveSession`, and with it `clientsLock`, for ever (below).

## Proofs

The theorems hold for every value of the constants that satisfies the named
assumptions (`RoundTripperAssumption`, `RacerAssumption`, `ConnectAssumption`,
`SocksAssumption`, `ClientAssumption`, `HooksAssumption`, `SessionsAssumption`,
`CookieJarAssumption`, `NoneAssumption`, `CaptureAssumption`,
`ProfilesAssumption`, `FingerprintAssumption`): protocols, schemes, URLs and
datagrams are among those the code distinguishes, hosts are sequences of labels,
and `None` is none of the values it is the absence of. Sets may be infinite.
Each proof shows an invariant `IInv` to be inductive, one lemma per action or
per part.

**RoundTripperProofs.** `IInv` is

- `TypeOK`;
- `LocksMatch`: who holds a mutex is what the program counters say. Without it
  two set-up dials could coexist;
- `HoldsTransport`: a request refers to a transport exactly from lookup to
  return;
- `SetupIsFirst`: during a set-up dial its address has no transport. It follows
  from `cachedTransportsLck` being held, and makes `SetupBuilds` an
  installation rather than a replacement;
- `StashFits`: a stashed connection belongs to the transport cached. With
  `SetupIsFirst` it gives `NoPanic`;
- `StashStaysEmpty`: a dial that found the stash empty, and the drop it may lead
  to, know it stays empty while their transport is the one cached, because it is
  filled only together with a new transport. This is why a drop may delete a
  transport without looking at the stash, and the step that a reader of the code
  has to find.

`TypeCorrect`, `GetTransportNeverPanics` and `StashAlwaysFits` follow.
`RefinementStep` maps
each action to an action of `TransportCache` or to a stutter under
`entry <- cachedTransports`, `held <- tr`, and `ImplementsTransportCache`
follows. `ReconnectsFit` proves `CachedTransportFits` with https requests only
(`HttpsOnly`), from `FitsInv`, which adds that a recorded kind is the kind of
the cached transport. It needs `KindsAgree`: the set-up dial and the reconnect
map protocols to kinds alike.

Under racing, every step is an https step of the round tripper or leaves it
alone (the lemma `RacingIsRoundTripping`), so `IInv` holds there too, and with
it `NoPanic` (`RacingNeverPanics`). `"https" \in Schemes` is assumed, since legs
make https requests. `RacerInv` adds what a race keeps: `ChannelFits`, by which
a leg that runs has sent nothing and one that has ended has sent one result, so
that the channel never holds more than the two it has room for
(`RacesAreBounded`); and `LegIsOwned`, by which a leg with an owner has one, and
that one waits for it.

`UndisturbedCallsSucceed` is for any number of legs at work at the same time; it
supposes that there are only https requests (`Schemes = {"https"}`), as is true
of what comes to the racer. Its heart is `StaysUpToDate`: an address is
`UpToDate` when it has no transport, or one whose kind is recorded, is what the
server now negotiates, and which nobody is about to drop; and no step of any leg
ends that, except for erasing the kind. A cached attempt meets a change only on
an outgrown transport; `AttemptWell` says that once this transport is out of the
cache, by its own drop or that of another leg, the address is up to date. So is
it when the race starts, the leg of the race takes that transport or builds one
(`LegWell`), and never meets a change; only the HTTP/3 leg can fail, which it
does once (`StillWell`). `KindsStayRecorded` says that `KindRecorded`, which
`rt_kind` refutes for two requests, holds for https requests that come one at a
time (`OneAtATime`), where the cache changes by one hand alone (`LegIsAlone`).

**ConnectProofs.** Closing a tunnel over HTTP/2 leaves its connection open, so
`NothingLeftOpen` needs to know who else has it: the cache holds HTTP/2 only and
every dial speaks what was negotiated (`SpeaksItsProtocol`), only HTTP/2
connections have several users (`SharedIsHttp2`), and what a dial borrows, or a
tunnel over HTTP/2 uses, is the cached connection or one that was replaced
(`BorrowedIsKnown`). `Http1TunnelsStayAlone` follows from the second.

**Socks5Proofs.** `Held` lists what is open at each program counter, which is
stronger than `AssociationLasts` and inductive. `NotYetResolved` says that there
is no target before its lookup. For `PacketsAreCarried` the rank of a datagram
does not change when later ones arrive, and a step of `ReadFrom` that takes a
well-formed one gives it the next rank (`HeardCount`, `HeardRank`).

**ClientProofs.** `ProxyInEffect` speaks of the time outside `SetProxy`. The
invariant adds what holds inside: the transport still belongs to the URL
`SetProxy` found (`OldTransport`), the configured URL is the one asked for or,
after the rollback, that one (`UrlIsKnown`), and it is valid too
(`RollbackIsValid`). `ProxyAlwaysInEffect`, `RacingStaysOnSocks5` and, with the
hops counted (`CallsInv`), the action property `NoRequestBypasses` follow.
`RedirectsFollowTheSetting` has an invariant of its own, `RedirectInv`, which
says what `CheckRedirect` can be at each point of `SetFollowRedirect`: what the
flag asks for outside, either policy before the first write, and the default one
in place of the caller's only between the two. `WssNeverBypasses` is about the
composed specification `WsSpec`: the function a WebSocket takes leads where the
transport led, and `due` has that way, in the middle of a change too.

**HooksProofs.** A slice is never longer than its array and full up to its
length (`ListsAreSlices`). What a call walks is the list's array up to at most
its present length, or an array that it has to itself (`WalkIsSafe`); so an
append writes behind what any call reads, and `SnapshotsAreStable` and
`NoNilHookIsRun` follow.

**SessionsProofs.** `Fits` says which arguments and clients a call has at each
program counter. `Holds` is the critical section: `clientsLock` belongs to the
call that is inside (`LockIsHeld`, also a theorem, `OneHolder`), and the session
of that call has the client it is changing, or none if it builds one
(`SessionIsHeld`). This is what makes `SessionsKeepClients` true: without it two
first requests could each store a client. `Asked` says the same as
`NoUnaskedWay` about clients and drafts, before a request goes. `FreedInv` adds
to `FreedOnce` that a string that can be released has not been freed yet: with
releases repeated at will, this is what the entry in `unsafePointers` and its
deletion in the same critical section achieve. `StringsAreFreedOnce` and
`RequestsSurviveNil` follow from `IInv`.

`PinsAreEnforced` has no hypothesis on what clients register. The exception is
in the property: it holds for a client as long as its pins are `Undisputed`
among all the entries `given` so far. `PinInv` says that what is stored was
given by somebody (`StoreIsGiven`), that the pins of a client
(`ClientsArePinned`), and of a draft as far as it has registered them
(`DraftsArePinned`), are in effect unless they are disputed, and `PinsInEffect`.
The longest argument is about `Pin`: the entry it finds for a host, its own or
that of the nearest parent, has the pins of the client's own nearest entry.

**CookieJarProofs.** The jar's lists come out of loops over lists of any length,
so this proof starts with induction. The library's induction rules cannot be
used here, but that a set of numbers has a least member can (`NatMin`): no first
round of a loop can be wrong. `KeepEnds` shows that the recursive function in
`Keep` exists, `KeepTakes` that its result has what is at the given positions,
all of it and in order. From these follow what `unique` and `nonEmpty` compute:
the last acceptable cookie of each name (`OfferedCookies`). `IInv` is `TypeOK`,
in which a list has only cookies of hosts with its key, `OnePerName`,
`SnapshotFits` (what was handed out is no longer than the slice now is, so that
appends start behind it) and `SnapshotsHold`. `SitesKeepTheirCookies` and
`SnapshotsAreStable` follow. `ImplementsCookieStore` is `StoreSpec`, operation
by operation; its core is `MergedHolds`, which compares what a site holds of a
name after either way of merging with what `Store` says. `RefinesCookieStore`
adds the initial states and stuttering: a whole behaviour of the jar is one of
`CookieStore`.

**FingerprintProofs.** Three parts come before the invariant, each about loops,
by the same use of `NatMin` as above.

- Reading a capture. The offsets of records in a list of bytes (`Offsets`) say
  when it is a list of anchors; `splitTrustAnchors` succeeds exactly then
  (`SplitAccepts`), there is a payload to send exactly then (`PayloadExists`),
  and a payload has the length and the records of the capture (`PayloadHolds`).
- The shuffle. Every round of it is a swap, which rearranges (`Rearranges`)
  and keeps the total length; two draws that give one order are the same draw
  (`ShuffleTellsDraw`), since the first round decides the last place, and the
  next one the last but one.
- Custom definitions. What `ResolveSeq` makes of the names of settings
  (`ResolveSeqGood`), and that no extension a ja3 string can name is a reserved
  value (`ExtMapApart`).

`IInv` is `Shape` (domains, and what has not begun), `Profiled` (what the
profile of a client is like, registered or made of a definition, and that the
map its connections share is still that of the profile), `Anchoring` (the
anchors drawn at load or construction come from the capture) and
`Connection(c)`: the extension objects of a connection are its own, hold what
was drawn for it, and its hello is made of them. The ownership of objects is the
point: a factory that returned the same objects twice would satisfy every
property for one connection. `HellosHaveTheirOwnValues`, `HellosAreWellFormed`,
`AnchorsAreSound`, `PrefacesAreComplete`, `Http3TransportsAreAlike` and the
action property `SessionsArePresented` follow, for any number of connections,
any definitions and captures of any bytes, and with any
`MaxResponseHeaderBytes`. What they need of the built-in profiles is
`ProfilesAssumption`, which is data and which TLC evaluates for each profile.

Only model-checked:

- liveness (`EveryRequestReturns`, `Recovers`, `DialReturns`, `DialEnds`): the
  proof system here handles neither fairness nor ENABLED.

## Where the code departs from its documentation

Shown by a run that TLC refutes:

- `rt_kind`: `dropCachedTransport` deletes the kind of an address even if the
  transport has been replaced meanwhile. The new transport's next reconnect
  then fails with `errProtocolChanged` although the server has not changed.
- `rt_deadline`: an HTTP/2 reconnect runs in `context.Background()` with the
  embedded mutex held. If the server falls silent, a set-up dial waits for that
  mutex with `cachedTransportsLck` held, and requests to every address wait for
  that beyond their "hard deadline".

Met while reading, and not runs of their own:

- An http request records no kind, and http and https share the key of a host:
  the https request that follows it fails once (`roundtripper.go:351`).
- A transport that was dropped while it dials can be handed its successor's
  connection (`roundtripper.go:398`, `468`). `CachedTransportFits` therefore
  speaks of transports that are still cached.
- A bad pin on a reconnect is not reported to the bad pin handler
  (`roundtripper.go:444`).
- Both legs of a race send the whole request, a race has ten seconds whatever
  the client's timeout is (`racer.go:159`), and the HTTP/3 transport under a
  key is replaced unclosed (`racer.go:276`). http requests of a racing client
  bypass the racer (`roundtripper.go:320`).
- By `rt_kind`, a racing call can fail over HTTP/2 although no server changed
  while it ran: the leg of a race long over erases the kind of the transport its
  own leg has just built. `UndisturbedCallSucceeds` excepts this and nothing
  else.
- A CONNECT that fails on the shared HTTP/2 connection closes it under other
  tunnels; a cached connection that is replaced is never closed.
- After a failed attempt on the cached HTTP/2 connection the code says "else:
  carry on and try again" (`connect.go:291`), but `req.Body` stays the pipe that
  `connectHttp2` has put there (`connect.go:219`). If the new connection speaks
  HTTP/1 the second try cannot succeed, and its `req.Write` waits on the pipe
  past the deadline of the connection.
- Comments on `AddPostResponseHook` say that all hooks always run;
  `executePostHooks` stops at the first failure, as its own comment says.
- A timeout of 0, "Unlimited" (`client_options.go`), becomes a deadline in the
  past for every CONNECT over HTTP/1 (`connect.go:240`), while `tls.Dial` to an
  https proxy has no deadline at all (`connect.go:320`).
- `SetProxy` returns nil when it has rolled back (`client.go:362`), so its
  caller is not told that the proxy is the old one.
- `applyProxy` starts from `proxy.Direct` (`client.go:375`), `buildFromConfig`
  from `newDirectDialer` (`client.go:217`): after `SetProxy("")`, and after a
  change that failed and was rolled back to no proxy, the client has lost its
  local address, its dialer and their timeout, against the comments on
  `WithLocalAddr` and `WithDialer` (`client_options.go:203`, `158`).
- `applyFollowRedirect` first writes the policy of net/http and then the
  caller's redirect function over it (`client.go:328`, `335`): a request that
  meets a redirect in between follows it without asking that function.
- `GetDialer` returns the dialer from before `SetProxy`: a ws connection goes by
  the proxy the client was built with, although the comment on `NewWebsocket`
  promises the configuration of the client (`websocket.go:16`). With racing and
  a custom dialer, HTTP/3 does not take the custom way.
- `Do` returns neither a response nor an error if `do` panics and `catchPanics`
  is set.
- `getTlsClient` stores a nil client if construction fails
  (`cffi_src/factory.go:456`). Requests of the session meet it with an error;
  `getCookiesFromSession`, `addCookiesToSession` and `destroySession` panic.
- `BuildRequest` writes a host override into the nil request of a URL that does
  not parse (`cffi_src/factory.go:132`), and `stringToSpec` indexes the parts of
  a ja3 string without counting them (`ja3.go:144`): both end the process.
- The pin store belongs to the process. Pins of one client apply to the others,
  the last to register a host wins, and an entry with the same pins as the one
  found is skipped although only it may include subdomains (`pinner.go:57`). So
  a client's own pins stop being enforced when another client registers others
  for the host. HTTP/3 connections are never pinned: `Pin` is called for TLS
  over TCP only (`roundtripper.go:442`, `701`). `WithCertificatePinning`
  "enables SSL Pinning for the client and will throw an error if the SSL Pin is
  not matched" (`client_options.go:229`).
- `BuildResponse` takes the block size of a streamed body as it comes
  (`cffi_src/factory.go:170`): a negative one panics in `make`, and with 0 the
  loop reads into an empty buffer and need not end.
- `RemoveSession` closes the idle connections of a client with `clientsLock`
  held (`cffi_src/factory.go:38`), which waits for its dials. By `rt_deadline` a
  dial can wait for ever for a reconnect, and then every function of the C
  interface does.
- A deletion of a cookie, empty and expired, is dropped as empty unless empty
  cookies are allowed, so that the cookie stays; with `skipExisting` an expired
  cookie keeps its successor out (`jar.go:84`). The key of a host with three
  labels is its last two (`jar.go:175`).
- A setting of HTTP/3 that a custom client leaves out of its order is dropped by
  a set-up dial (`getHttp3Settings`) and sent by the racer (`getHTTP3Config`).
- `MaxResponseHeaderBytes` changes the HTTP/3 settings and not their order
  (`roundtripper.go:287`): with a positive one Firefox 147 sends setting 6,
  which its order does not have, and with a negative one Chrome 144 keeps 6 in
  its order and does not send it. `Http3SettingsHold` excepts setting 6 when the
  caller's limit differs from that of the profile.
- Only Chrome 144 and Firefox 147 and 148 have settings for HTTP/3.
  `tests/http3_fingerprint_test.go:187` expects Chrome 133 to send a
  MAX_FIELD_SECTION_SIZE, which `profileDefaultMaxResponseHeaderBytes` turns off
  for profiles without a priority parameter.
- A ja3 string that names extension 27 without a compression algorithm is met by
  a printed warning and then refused in every dial (`ja3.go:178`, `240`).
- A comment in `grease.go` says that utls leaves a GREASE value in the signature
  algorithms alone, one in `mapper.go:51` that it replaces it. `SignatureOf`
  allows either for custom clients.
- `NikeAndroidMobile` sends a GREASE key share and no GREASE group;
  `HelloWellFormed` asks for offered groups of the other key shares only.
  `ConfirmedAndroid2` is not registered under any identifier.

## Not modelled

- Bandwidth tracker: two atomic counters with no relation between them.
- Options: setters; the combinations that matter are initial states of `Client`.
- Logger.
- Liveness of the race, which its timer ends (`racer.go:207`), and of the C
  interface.
- Of the profiles: cipher suites, signature algorithms, values of settings,
  the order that utls gives to extensions when it is asked for a random one, and
  the hellos that utls has built in.
- Of the C interface: what requests, responses and cookies contain.
- Of the modelled files: header order, debug dumps, decompression, the option
  values copied into transports. fhttp, http2, http3, QUIC and the resolver
  appear as the moves the code allows them.

## Plan

Done, in this order: `RoundTripper` with `TransportCache` and its proofs,
`Racer`, `ConnectDialer`, `Socks5Quic`, `Client`, `Hooks`; then `Pinner` and
`Sessions`, `CookieStore` and `CookieJar`, `WebSocket`, `ExtensionData`,
`Profiles`, `Ja3` and `Fingerprint`.

Proved since: every safety property that a passing run checks, `CookieStore` and
`TransportCache` as refinements of whole behaviours, and the racer's invariant,
now for any number of legs.

What a next step would add:

1. The bodies of responses, as state of `Racer`: the response of the losing leg
   stays unread in the channel (`racer.go:212`).
2. The HTTP/3 transport that a set-up dial fails to build
   (`roundtripper.go:590`) as an action of its own, with the connection it
   leaves open.
3. The liveness properties, with a prover for fairness.
