------------------------------ MODULE Sessions ------------------------------
(***************************************************************************)
(* The C interface: the clients that cffi_src/factory.go keeps by session, *)
(* and the functions that cffi_dist/main.go exports, called by any number  *)
(* of threads of a foreign program.  The clients share the pin store of    *)
(* module Pinner.                                                          *)
(*                                                                         *)
(* A Go panic in an exported function ends the process: a call that        *)
(* panics is "panicked", and nothing happens after that.  Nothing that is  *)
(* marshalled here can fail to be: the types are structs of strings,       *)
(* numbers and maps of them.                                               *)
(***************************************************************************)
EXTENDS Pinner

CONSTANTS
  Calls,       \* calls of exported functions, each with a string it returns
  SessionIds,
  ClientIds,   \* identities of clients: a bound on the clients in use at once
  Inputs,      \* arguments of request, see RequestInput
  Hosts,       \* hosts that are requested
  Keys         \* keys of the certificates that servers present

\* By their scheme; "direct" is the empty one, no proxy.
ProxyUrls == {"direct", "http", "socks5", "ftp"}

\* An entry of the pins a client is given.
PinEntry == [host : PinHosts, sub : BOOLEAN, pins : Seq(Keys)]

\* What RequestInput says, as far as it is told apart here.  proxyUrl is None
\* if it is absent; defect is what is wrong with the rest of it.
RequestInput ==
  [sessionId : SessionIds \cup {None}, proxyUrl : ProxyUrls \cup {None},
   rotating : BOOLEAN, racing : BOOLEAN, host : Hosts,
   pins : SUBSET PinEntry,
   defect : {"none", "conflict", "profile", "ja3", "config", "url",
             "urlAndHost", "negativeBlock", "zeroBlock"}]

ASSUME SessionsAssumption ==
  /\ Inputs \subseteq RequestInput
  /\ None \notin SessionIds \cup ClientIds \cup ProxyUrls \cup Calls
  /\ {"nil", "old"} \cap ClientIds = {}
  /\ \A h \in PinHosts \cup Hosts : h \in Seq({h[i] : i \in DOMAIN h})
  /\ None \notin [pins : Seq(Keys), sub : BOOLEAN]

VARIABLES
  \* factory.go
  clients,      \* the client of a session; "nil" for a nil one, None for none
  clientsLock,  \* who holds it
  client,       \* the state of a client
  cached,       \* the clients whose round tripper has cached a transport
  \* main.go
  unsafePointers,  \* the calls whose string is in the table
  frees,           \* how often the string of a call has been given to C.free
  \* a call
  pc,
  input,    \* its argument
  own,      \* the client it got
  draft,    \* the client it is building or changing, before that shows
  todo,     \* the pins it has still to register, or the sessions to close
  dials,    \* the client whose round tripper it dials with, or "old"
  way,      \* the proxy by which its request went
  protocol, \* whether its connection is over TCP or QUIC
  key,      \* the certificate it met
  \* history
  asked,    \* the proxies a client has been asked for
  given     \* the entries of pins that have been registered

sessionVars == <<clients, clientsLock>>
clientVars == <<client, asked>>
stringVars == <<unsafePointers, frees>>
requestVars == <<cached, dials, way, protocol, key>>
pinVars == <<certificatePinStorage, given>>
vars == <<pinVars, sessionVars, clientVars, stringVars, pc,
          input, own, draft, todo, requestVars>>

Goto(c, state) == pc' = [pc EXCEPT ![c] = state]

Session(c) == input[c].sessionId

\* URLs a dialer can be made for.
WorkingUrls == ProxyUrls \ {"ftp"}

\* A dialer can be made for u, and the client may race over it.
ProxyWorks(u, racing) ==
  u \in WorkingUrls /\ (racing => u \in {"direct", "socks5"})

NoClient == [proxy |-> "direct", racing |-> FALSE, pins |-> {}]

Init ==
  /\ certificatePinStorage = [h \in PinHosts |-> None]
  /\ clients = [s \in SessionIds |-> None]
  /\ clientsLock = None
  /\ client = [k \in ClientIds |-> NoClient]
  /\ asked = [k \in ClientIds |-> {}]
  /\ cached = {}
  /\ unsafePointers = {}
  /\ frees = [c \in Calls |-> 0]
  /\ pc = [c \in Calls |-> "idle"]
  /\ input = [c \in Calls |-> None]
  /\ own = [c \in Calls |-> None]
  /\ draft = [c \in Calls |-> None]
  /\ todo = [c \in Calls |-> {}]
  /\ dials = [c \in Calls |-> None]
  /\ way = [c \in Calls |-> None]
  /\ protocol = [c \in Calls |-> None]
  /\ key = [c \in Calls |-> None]
  /\ given = {}

-----------------------------------------------------------------------------
(* Calls and the strings they return *)

\* The caller makes a call, when it has released the string of the last one.
Begin(c, i, state) ==
  /\ pc[c] = "idle"
  /\ Goto(c, state)
  /\ input' = [input EXCEPT ![c] = i]
  /\ frees' = [frees EXCEPT ![c] = 0]
  /\ UNCHANGED <<pinVars, sessionVars, clientVars, unsafePointers,
                 own, draft, todo, requestVars>>

\* The map m, or a call other than c, refers to client k.
InUse(k, m, c) ==
  \/ \E s \in SessionIds : m[s] = k
  \/ \E d \in Calls \ {c} : own[d] = k

\* Every function ends by entering the string it returns in the table, under an
\* id that is in the string; handleErrorResponse does the same for an error.  A
\* client that nobody refers to any more, the map being m, is garbage.
Return(c, m) ==
  /\ Goto(c, "returned")
  /\ unsafePointers' = unsafePointers \cup {c}
  /\ frees' = [frees EXCEPT ![c] = 0]
  /\ input' = [input EXCEPT ![c] = None]
  /\ own' = [own EXCEPT ![c] = None]
  /\ client' =
       [k \in ClientIds |-> IF InUse(k, m, c) THEN client[k] ELSE NoClient]
  /\ asked' = [k \in ClientIds |-> IF InUse(k, m, c) THEN asked[k] ELSE {}]
  /\ UNCHANGED draft

\* The string of c is released; where a call was at is left.
Free(c) ==
  /\ frees' = [frees EXCEPT ![c] = @ + 1]
  /\ Goto(c, "idle")
  /\ UNCHANGED <<pinVars, sessionVars, clientVars, input, own,
                 draft, todo, requestVars>>

\* Faulty variant: the entry stays.
freeMemory_KeepsEntry(c) ==
  /\ pc[c] \in {"idle", "returned"}
  /\ c \in unsafePointers
  /\ Free(c)
  /\ UNCHANGED unsafePointers

\* The caller releases a string it has been given, once or again.  An id that
\* the table does not have, or has no longer, is ignored.
freeMemory(c) ==
  /\ pc[c] \in {"idle", "returned"}
  /\ \/ /\ c \in unsafePointers
        /\ unsafePointers' = unsafePointers \ {c}
        /\ Free(c)
     \/ /\ c \notin unsafePointers
        /\ UNCHANGED vars

\* A function is given JSON it cannot read.
Unreadable(c) ==
  /\ pc[c] = "idle"
  /\ Return(c, clients)
  /\ UNCHANGED <<pinVars, sessionVars, todo, requestVars>>

-----------------------------------------------------------------------------
(* request: the client *)

request(c) == \E i \in Inputs : Begin(c, i, "create")

\* CreateClient refuses an input that contradicts itself.
CreateClient(c) ==
  /\ pc[c] = "create"
  /\ input[c].defect = "conflict"
  /\ Return(c, clients)
  /\ UNCHANGED <<pinVars, sessionVars, todo, requestVars>>

\* getTlsClient has clientsLock; exists says whether there is the session.
InGetTlsClient(c, exists) ==
  /\ pc[c] = "create"
  /\ input[c].defect # "conflict"
  /\ clientsLock = None
  /\ exists <=> Session(c) # None /\ clients[Session(c)] # None
  /\ UNCHANGED <<pinVars, requestVars>>

\* A draft becomes a client when its pins are registered; clientsLock is kept.
StartDraft(c, d) ==
  /\ clientsLock' = c
  /\ draft' = [draft EXCEPT ![c] = d]
  /\ todo' = [todo EXCEPT ![c] = d.pins]
  /\ Goto(c, "pin")
  /\ UNCHANGED <<clients, clientVars, stringVars, input>>

ProxyOf(i) == IF i.proxyUrl = None THEN "direct" ELSE i.proxyUrl

\* What NewHttpClient is asked for.
Options(i) ==
  [proxy |-> ProxyOf(i), racing |-> i.racing, pins |-> i.pins]

\* NewHttpClient refuses the options or cannot make a dialer.
Refused(i) == i.defect = "config" \/ ~ProxyWorks(ProxyOf(i), i.racing)

\* Faulty variant: a session that exists is built anew.
getTlsClient_Always(c) ==
  /\ \E exists \in BOOLEAN : InGetTlsClient(c, exists)
  /\ input[c].defect # "profile"
  /\ ~Refused(input[c])
  /\ StartDraft(c, Options(input[c]))
  /\ UNCHANGED own

\* No client under this session id, or no session wanted: one is built.
getTlsClient(c) ==
  /\ InGetTlsClient(c, FALSE)
  /\ input[c].defect \notin {"profile", "ja3"}
  /\ ~Refused(input[c])
  /\ StartDraft(c, Options(input[c]))
  /\ UNCHANGED own

\* It cannot be built.  What NewHttpClient refuses leaves a nil client under the
\* id, since it is stored before err is looked at.
getTlsClientFails(c) ==
  /\ InGetTlsClient(c, FALSE)
  /\ \/ /\ input[c].defect = "profile"
        /\ UNCHANGED clients
     \/ /\ input[c].defect # "profile"
        /\ Refused(input[c])
        /\ clients' = [s \in SessionIds |->
                         IF s = Session(c) THEN "nil" ELSE clients[s]]
  /\ Return(c, clients)
  /\ UNCHANGED <<clientsLock, todo>>

\* Its ja3 string has not enough parts: supportsSessionResumption, which
\* newRoundTripper calls, makes a trial hello.
getTlsClientPanics(c) ==
  /\ InGetTlsClient(c, FALSE)
  /\ input[c].defect = "ja3"
  /\ ~Refused(input[c])
  /\ Goto(c, "panicked")
  /\ UNCHANGED <<sessionVars, clientVars, stringVars, input, own, draft,
                 todo>>

\* handleModification asks for another proxy than the client has, or for a new
\* connection to a rotating one.
WantsProxy(i, k) ==
  i.proxyUrl # None /\ (client[k].proxy # i.proxyUrl \/ i.rotating)

\* SetProxy refuses: a racing client needs a proxy that carries QUIC.
SetProxyRefuses(i, k) ==
  WantsProxy(i, k) /\ client[k].racing /\ i.proxyUrl \notin {"direct", "socks5"}

\* Faulty variant: a nil client is handed back as it is.
ModificationFails_NilUnchecked(c) ==
  LET k == clients[Session(c)]
  IN  /\ InGetTlsClient(c, TRUE)
      /\ \/ /\ k = "nil"
            /\ own' = [own EXCEPT ![c] = k]
            /\ Goto(c, "send")
            /\ UNCHANGED <<stringVars, input, clientVars, draft>>
         \/ /\ k # "nil"
            /\ SetProxyRefuses(input[c], k)
            /\ Return(c, clients)
      /\ UNCHANGED <<sessionVars, todo>>

\* handleModification fails.
ModificationFails(c) ==
  LET k == clients[Session(c)]
  IN  /\ InGetTlsClient(c, TRUE)
      /\ k # "nil" => SetProxyRefuses(input[c], k)
      /\ Return(c, clients)
      /\ UNCHANGED <<sessionVars, todo>>

\* Faulty variant: a proxy no dialer can be made for leaves the client without
\* any.
ProxyAfter_Direct(i, k) ==
  IF ProxyWorks(i.proxyUrl, client[k].racing) THEN i.proxyUrl ELSE "direct"

\* SetProxy rolls back what no dialer can be made for, without an error.
ProxyAfter(i, k) ==
  IF ProxyWorks(i.proxyUrl, client[k].racing)
  THEN i.proxyUrl ELSE client[k].proxy

\* The client of the session is changed.  A new proxy means a new round tripper,
\* which registers the pins again.  The redirect policy, which is set here too,
\* is in module Client.
handleModification(c) ==
  LET k == clients[Session(c)]
      i == input[c]
  IN  /\ InGetTlsClient(c, TRUE)
      /\ k # "nil"
      /\ ~SetProxyRefuses(i, k)
      /\ own' = [own EXCEPT ![c] = k]
      /\ \/ /\ ~WantsProxy(i, k)
            /\ Goto(c, "send")
            /\ UNCHANGED <<sessionVars, clientVars, stringVars, input, draft,
                           todo>>
         \/ /\ WantsProxy(i, k)
            /\ StartDraft(c, [client[k] EXCEPT !.proxy = ProxyAfter(i, k)])

\* certificatePinner.init, in the random order of a Go map.
InitPinner(c) ==
  /\ pc[c] = "pin"
  /\ \E e \in todo[c] :
       /\ RegisterPins(e)
       /\ given' = given \cup {e}
       /\ todo' = [todo EXCEPT ![c] = @ \ {e}]
  /\ UNCHANGED <<sessionVars, clientVars, stringVars, pc, input, own, draft,
                 requestVars>>

\* The draft becomes what others see, and clientsLock is released.  A changed
\* client has a new round tripper, which the dials of the old one do not lock.
ClientReady(c) ==
  LET new == own[c] = None
      k == IF new THEN CHOOSE j \in ClientIds : ~InUse(j, clients, c)
           ELSE own[c]
      u == ProxyOf(input[c])
  IN  /\ pc[c] = "pin" /\ todo[c] = {}
      /\ new => \E j \in ClientIds : ~InUse(j, clients, c)
      /\ clientsLock' = None
      /\ client' = [client EXCEPT ![k] = draft[c]]
      /\ asked' = [asked EXCEPT ![k] =
                     @ \cup (IF u \in WorkingUrls THEN {u} ELSE {})]
      /\ own' = [own EXCEPT ![c] = k]
      /\ clients' = [s \in SessionIds |->
                       IF s = Session(c) THEN k ELSE clients[s]]
      /\ cached' = cached \ {k}
      /\ dials' = [d \in Calls |-> IF dials[d] = k THEN "old" ELSE dials[d]]
      /\ draft' = [draft EXCEPT ![c] = None]
      /\ Goto(c, "send")
      /\ UNCHANGED <<pinVars, stringVars, input, todo, way,
                     protocol, key>>

-----------------------------------------------------------------------------
(* request: the request *)

\* BuildRequest fails; a host override is written into the request that could
\* not be made.
BuildRequestFails(c) ==
  /\ pc[c] = "send"
  /\ \/ /\ input[c].defect = "url"
        /\ Return(c, clients)
     \/ /\ input[c].defect = "urlAndHost"
        /\ Goto(c, "panicked")
        /\ UNCHANGED <<stringVars, input, own, clientVars, draft>>
  /\ UNCHANGED <<pinVars, sessionVars, todo, requestVars>>

\* Do waits for cachedTransportsLck, which a set-up dial of the same client
\* holds, and reads the transport.
StartDial(c, state) ==
  /\ pc[c] = "send"
  /\ input[c].defect \notin {"url", "urlAndHost"}
  /\ \A d \in Calls : pc[d] = "dial" => dials[d] # own[c]
  /\ Goto(c, state)
  /\ dials' = [dials EXCEPT ![c] = own[c]]
  /\ way' = [way EXCEPT ![c] = client[own[c]].proxy]
  /\ UNCHANGED <<pinVars, sessionVars, clientVars, stringVars, input, own,
                 draft, todo, cached, protocol, key>>

\* A set-up dial keeps cachedTransportsLck.  (A connection that is reused was
\* dialled by an earlier request.)
Do(c) == StartDial(c, "dial")

\* A cached HTTP/2 transport reconnects by dialTLSHTTP2, without
\* cachedTransportsLck and without a deadline; it keeps the embedded mutex.
Redial(c) ==
  /\ own[c] \in cached
  /\ \A d \in Calls : dials[d] # own[c]
  /\ StartDial(c, "redial")

\* The dial fails or Pin refuses the certificate; or the handshake ends and the
\* certificate is accepted.  Nothing pins the QUIC connection by which the
\* HTTP/3 leg of a racing client may win.
DialOutcome(c) ==
  /\ dials' = [dials EXCEPT ![c] = None]
  /\ way' = [way EXCEPT ![c] = None]
  /\ \/ /\ Return(c, clients)
        /\ UNCHANGED <<cached, protocol, key>>
     \/ /\ \E p \in {"tcp", "quic"}, k \in Keys :
             /\ p = "tcp" => Pin(client[own[c]].pins, input[c].host, k)
             /\ p = "quic" => client[own[c]].racing
             /\ protocol' = [protocol EXCEPT ![c] = p]
             /\ key' = [key EXCEPT ![c] = k]
        /\ cached' = cached \cup ({dials[c]} \cap ClientIds)
        /\ Goto(c, "exchange")
        /\ UNCHANGED <<stringVars, input, own, clientVars, draft>>
  /\ UNCHANGED <<pinVars, sessionVars, todo>>

\* A set-up dial ends by the client's timeout, once it has the embedded mutex.
DialEnds(c) ==
  /\ pc[c] = "dial"
  /\ \A d \in Calls : pc[d] = "redial" => dials[d] # dials[c]
  /\ DialOutcome(c)

\* A reconnect ends, if the server answers.
RedialEnds(c) ==
  /\ pc[c] = "redial"
  /\ DialOutcome(c)

\* The exchange and BuildResponse, which reads the body or fails to.  With a
\* file to stream to, a block size below zero panics, and for one of zero the
\* loop that reads the body may never see its end.
BuildResponse(c) ==
  /\ pc[c] = "exchange"
  /\ protocol' = [protocol EXCEPT ![c] = None]
  /\ key' = [key EXCEPT ![c] = None]
  /\ \/ Return(c, clients)
     \/ /\ \/ input[c].defect = "negativeBlock" /\ Goto(c, "panicked")
           \/ input[c].defect = "zeroBlock" /\ Goto(c, "stream")
        /\ UNCHANGED <<stringVars, input, own, clientVars, draft>>
  /\ UNCHANGED <<pinVars, sessionVars, todo, cached, dials, way>>

-----------------------------------------------------------------------------
(* Cookies of a session *)

\* getCookiesFromSession and addCookiesToSession: the same but for the call on
\* the client's jar.
cookiesOfSession(c) ==
  \E s \in SessionIds : Begin(c, [sessionId |-> s], "lookUp")

\* GetClient, under clientsLock.
GetClient(c) ==
  LET k == clients[Session(c)]
  IN  /\ pc[c] = "lookUp"
      /\ clientsLock = None
      /\ \/ /\ k = None
            /\ Return(c, clients)
         \/ /\ k # None
            /\ own' = [own EXCEPT ![c] = k]
            /\ Goto(c, "cookies")
            /\ UNCHANGED <<stringVars, input, clientVars, draft>>
      /\ UNCHANGED <<pinVars, sessionVars, todo, requestVars>>

\* Without the lock: a URL that cannot be parsed, or the call on the client,
\* which may be nil.
UseClient(c) ==
  /\ pc[c] = "cookies"
  /\ \/ Return(c, clients)
     \/ /\ own[c] = "nil"
        /\ Goto(c, "panicked")
        /\ UNCHANGED <<stringVars, input, own, clientVars, draft>>
  /\ UNCHANGED <<pinVars, sessionVars, todo, requestVars>>

-----------------------------------------------------------------------------
(* Destroying sessions *)

\* destroySession, or destroyAll with None.
destroy(c) ==
  \E s \in SessionIds \cup {None} : Begin(c, [sessionId |-> s], "destroy")

\* RemoveSession and ClearSessionCache take clientsLock and keep it while they
\* close the idle connections of the clients they will remove.
RemoveSession(c) ==
  /\ pc[c] = "destroy"
  /\ clientsLock = None
  /\ clientsLock' = c
  /\ todo' = [todo EXCEPT ![c] =
                {s \in SessionIds : /\ clients[s] # None
                                    /\ Session(c) \in {None, s}}]
  /\ Goto(c, "close")
  /\ UNCHANGED <<pinVars, clients, clientVars, stringVars,
                 input, own, draft, requestVars>>

\* CloseIdleConnections needs the lock of the client's transports, which a
\* set-up dial holds, also while it waits for a reconnect.
CloseIdle(c) ==
  /\ pc[c] = "close"
  /\ \E s \in todo[c] :
       \/ /\ clients[s] = "nil"
          /\ Goto(c, "panicked")
          /\ UNCHANGED todo
       \/ /\ clients[s] \in ClientIds
          /\ \A d \in Calls : pc[d] = "dial" => dials[d] # clients[s]
          /\ todo' = [todo EXCEPT ![c] = @ \ {s}]
          /\ UNCHANGED pc
  /\ UNCHANGED <<pinVars, sessionVars, clientVars, stringVars,
                 input, own, draft, requestVars>>

\* The sessions leave the map, and clientsLock is released.
Removed(c) ==
  LET left == [s \in SessionIds |-> IF Session(c) \in {None, s}
                                    THEN None ELSE clients[s]]
  IN  /\ pc[c] = "close" /\ todo[c] = {}
      /\ clients' = left
      /\ clientsLock' = None
      /\ Return(c, left)
      /\ UNCHANGED <<pinVars, todo, requestVars>>

-----------------------------------------------------------------------------

Alive == \A c \in Calls : pc[c] # "panicked"

Locked(c) ==
  \/ getTlsClient(c) \/ getTlsClientFails(c) \/ getTlsClientPanics(c)
  \/ ModificationFails(c) \/ handleModification(c)
  \/ GetClient(c) \/ RemoveSession(c)

Running(c) ==
  \/ CreateClient(c) \/ InitPinner(c) \/ ClientReady(c)
  \/ BuildRequestFails(c) \/ BuildResponse(c)
  \/ UseClient(c)
  \/ Removed(c)

Next ==
  /\ Alive
  /\ \E c \in Calls :
       \/ request(c) \/ Unreadable(c) \/ cookiesOfSession(c) \/ destroy(c)
       \/ freeMemory(c)
       \/ Locked(c)
       \/ Running(c)
       \/ Do(c) \/ DialEnds(c)
       \/ Redial(c) \/ RedialEnds(c)
       \/ CloseIdle(c)

Spec == Init /\ [][Next]_vars

-----------------------------------------------------------------------------
(* Properties *)

States == {"idle", "create", "pin", "send", "dial", "redial", "exchange",
           "stream", "lookUp", "cookies", "destroy", "close", "returned",
           "panicked"}

\* What a function on a session is called with, and what a client is.
SessionInput == [sessionId : SessionIds \cup {None}]
ClientState ==
  [proxy : ProxyUrls, racing : BOOLEAN, pins : SUBSET PinEntry]

\* Types of the maps and of the calls.
TypeOK ==
  /\ clients \in [SessionIds -> ClientIds \cup {"nil", None}]
  /\ clientsLock \in Calls \cup {None}
  /\ client \in [ClientIds -> ClientState]
  /\ asked \in [ClientIds -> SUBSET ProxyUrls]
  /\ cached \subseteq ClientIds
  /\ unsafePointers \subseteq Calls
  /\ frees \in [Calls -> Nat]
  /\ pc \in [Calls -> States]
  /\ input \in [Calls -> {None} \cup Inputs \cup SessionInput]
  /\ own \in [Calls -> ClientIds \cup {"nil", None}]
  /\ draft \in [Calls -> {None} \cup ClientState]
  /\ DOMAIN todo = Calls
  /\ dials \in [Calls -> ClientIds \cup {"old", None}]
  /\ way \in [Calls -> ProxyUrls \cup {None}]
  /\ protocol \in [Calls -> {"tcp", "quic", None}]
  /\ key \in [Calls -> Keys \cup {None}]

\* A session keeps its client: however many first requests, changes and failed
\* changes come at once, the client is only ever removed by a destroy function,
\* so the cookies and connections of a session are not lost under it.
SessionKeepsClient ==
  [][\A s \in SessionIds :
       clients[s] \in ClientIds /\ clients'[s] # clients[s] =>
         clients'[s] = None]_vars

\* No request goes by a way nobody asked for: the proxy by which it was sent is
\* one that a request of the same client asked for, also when another request
\* of the session changes the proxy meanwhile or a change is rolled back.  In
\* particular a session that always had a proxy never connects directly.
NoUnaskedWay ==
  \A c \in Calls :
    pc[c] \in {"dial", "redial"} => way[c] \in asked[own[c]]

\* No string is freed twice, however often the caller releases it, and every
\* string that has been returned and not yet freed can still be.
FreedOnce ==
  \A c \in Calls :
    /\ frees[c] <= 1
    /\ c \in unsafePointers <=> pc[c] = "returned"

\* A request never goes on with a nil client, such as the failed construction of
\* an earlier request leaves under the id of its session: handleModification
\* refuses it.  (The functions on cookies and the destroy functions panic.)
RequestsMeetNil ==
  \A c \in Calls :
    pc[c] \in {"send", "dial", "redial", "exchange"} => own[c] \in ClientIds

\* The request of call c, on its connection, is exchanged with a server that
\* presents one of the pins its client has for the host, if it has any.
MeetsPins(c) ==
  LET mine == OwnPins(client[own[c]].pins, input[c].host)
  IN  mine = {} \/ key[c] \in mine

\* No registered entry says something else than pins do: for the same host
\* another list or another scope, or for a parent or a subdomain another list.
Undisputed(pins, registered) ==
  \A e \in pins, f \in registered :
    /\ e.host = f.host => e = f
    /\ e.host \in Parents(f.host) \/ f.host \in Parents(e.host) =>
         f \in pins \/ f.pins = e.pins

\* Pins are enforced on TCP connections, whatever clients of the process
\* register for hosts that have nothing to do with them, at any moment, in any
\* order and again: only an entry for the same host, a parent or a subdomain
\* that says something else can undo them.
PinsInEffect ==
  \A c \in Calls :
    /\ pc[c] = "exchange" /\ protocol[c] = "tcp"
    /\ Undisputed(client[own[c]].pins, given)
    => MeetsPins(c)

=============================================================================
