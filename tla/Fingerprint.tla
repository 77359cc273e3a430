----------------------------- MODULE Fingerprint -----------------------------
(***************************************************************************)
(* A client with a profile, built in or custom, and the connections it     *)
(* makes: ClientHellos from the profile's SpecFactory, the settings of     *)
(* HTTP/2 transports, and HTTP/3 transports made by a set-up dial or by    *)
(* the racer.                                                              *)
(*                                                                         *)
(* What the connections share is kept by reference: a SpecFactory returns  *)
(* extension objects, into which utls writes the reserved values it draws  *)
(* for a connection, and every transport gets the maps of the profile      *)
(* itself.                                                                 *)
(***************************************************************************)
EXTENDS Ja3, FiniteSets, Functions

CONSTANTS
  Conns,          \* connections
  Identifiers,    \* of built-in profiles, and others
  Definitions,    \* of custom clients
  Seeds,          \* answers of the random source to grease.go
  ReservedExts,   \* values utls draws for GREASE extensions
  ReservedIds,    \* setting numbers generateGREASESettingID may return
  HeaderLimits,   \* values of MaxResponseHeaderBytes
  GoInts          \* those an int of the build can hold

ASSUME FingerprintAssumption ==
  /\ Definitions \subseteq CustomTlsClient
  /\ ReservedExts \subseteq ReservedValues
  /\ Cardinality(ReservedExts) > 1
  /\ None \notin Conns \cup Definitions
  /\ Seeds \subseteq Nat
  /\ None \notin ReservedIds
  /\ \A settings \in SUBSET (1 .. 9) : settings # None
  /\ HeaderLimits \subseteq Int

VARIABLES
  chrome152TrustAnchors,  \* the payload drawn when the package is loaded
  client,         \* "none", "ready", "refused" or "panicked"
  custom,         \* its definition, None if its profile is built in
  profile,
  anchors,        \* the payload its hellos carry
  resumes,        \* it has a clientSessionCache
  maxResponseHeaderBytes, \* of its transportOptions, zero if it has none
  session,        \* there is a session in it
  http3Settings,  \* the map of the profile
  pc,             \* state of a connection
  spec,           \* what the factory returned for it
  object,         \* contents of the GREASE extension objects
  hello,          \* the extensions it sent, by their places in spec
  sent,           \* what else it sent
  drawn           \* history: the values utls drew for it

clientVars ==
  <<client, custom, profile, anchors, resumes, maxResponseHeaderBytes>>
connVars == <<pc, spec, object, hello, sent, drawn>>
vars == <<chrome152TrustAnchors, clientVars, session, http3Settings, connVars>>

Init ==
  /\ chrome152TrustAnchors \in
       BuildTrustAnchorsPayload(chrome152TrustAnchorsCapture)
  /\ client = "none"
  /\ custom = None
  /\ profile = DefaultClientProfile
  /\ anchors = None
  /\ resumes = FALSE
  /\ maxResponseHeaderBytes = 0
  /\ session = FALSE
  /\ http3Settings = {}
  /\ pc = [c \in Conns |-> "idle"]
  /\ spec = [c \in Conns |-> <<>>]
  /\ object = <<>>
  /\ hello = [c \in Conns |-> <<>>]
  /\ sent = [c \in Conns |-> None]
  /\ drawn = [c \in Conns |-> <<>>]

-----------------------------------------------------------------------------
(* The client *)

Elements(seq) == {seq[i] : i \in DOMAIN seq}

\* Faulty variant: the extension that only announces resumption is looked for.
supportsSessionResumption_Modes(p) ==
  p.extensions # None /\ PSKKeyExchangeModes \in Elements(p.extensions)

\* A trial hello of the profile can present a session.  A factory that fails
\* cannot; hellos that utls has built in are not looked into here.
supportsSessionResumption(p) ==
  p.extensions # None /\ PreSharedKey \in Elements(p.extensions)

\* newRoundTripper.
NewClient(p, payload, disableSessionTickets) ==
  /\ client = "none"
  /\ client' = "ready"
  /\ profile' = p
  /\ anchors' = payload
  /\ resumes' = (~disableSessionTickets /\ supportsSessionResumption(p))
  /\ maxResponseHeaderBytes' \in HeaderLimits
  /\ http3Settings' = p.http3.settings
  /\ UNCHANGED <<chrome152TrustAnchors, session, connVars>>

getTlsClientProfile(identifier) ==
  IF identifier \in DOMAIN MappedTLSClients
  THEN MappedTLSClients[identifier] ELSE DefaultClientProfile

\* The payload a built-in profile refers to: that of the package, or a literal.
BuiltInAnchors(p) ==
  IF p.anchors = chrome152TrustAnchorsCapture
  THEN chrome152TrustAnchors ELSE p.anchors

NewBuiltIn(identifier, disableSessionTickets) ==
  LET p == getTlsClientProfile(identifier)
  IN  /\ NewClient(p, BuiltInAnchors(p), disableSessionTickets)
      /\ UNCHANGED custom

\* NewClientProfile by a Go program that has no HTTP/2 settings to give.
NewWithoutSettings ==
  /\ NewClient([DefaultClientProfile EXCEPT !.http2.settings = None], None, TRUE)
  /\ UNCHANGED custom

\* The payloads a definition's factory may be made with.
Payloads(def) ==
  IF def.trustAnchorsPayload = <<>> THEN {None}
  ELSE BuildTrustAnchorsPayload(def.trustAnchorsPayload)

\* The factory reads past the end of a ja3 string that has not enough parts, if
\* it comes so far.
FactoryPanics(def) == def.algorithms /\ ~def.complete

\* The order of the anchors is drawn here, once.  newRoundTripper calls the
\* factory if tickets are not disabled.
NewCustom(def, disableSessionTickets) ==
  /\ client = "none"
  /\ FactoryPanics(def) => disableSessionTickets
  /\ \E payload \in Payloads(def) :
       NewClient(CustomProfile(def, payload), payload, disableSessionTickets)
  /\ custom' = def

\* GetSpecFactoryFromJa3String cannot read the capture; or there is a factory,
\* and it panics in newRoundTripper.
NewCustomFails(def, disableSessionTickets) ==
  /\ client = "none"
  /\ \/ /\ Payloads(def) = {}
        /\ client' = "refused"
     \/ /\ Payloads(def) # {}
        /\ FactoryPanics(def)
        /\ ~disableSessionTickets
        /\ client' = "panicked"
  /\ custom' = def
  /\ UNCHANGED <<chrome152TrustAnchors, profile, anchors, resumes,
                 maxResponseHeaderBytes, session, http3Settings, connVars>>

-----------------------------------------------------------------------------
(* ClientHellos *)

\* Faulty variant: the GREASE extension is in the base map, once.
SpecOf_OneGrease(c) ==
  [i \in DOMAIN profile.extensions |->
     [ext |-> profile.extensions[i], object |-> <<c, GREASE>>]]

\* Faulty variant: the factory returns the same objects every time.
SpecOf_Shared(c) ==
  [i \in DOMAIN profile.extensions |->
     [ext |-> profile.extensions[i], object |-> <<None, i>>]]

\* The factory's result for c: literals of a profile, and the GREASE extensions
\* of a ja3 string, are new objects each.
SpecOf(c) ==
  [i \in DOMAIN profile.extensions |->
     [ext |-> profile.extensions[i], object |-> <<c, i>>]]

\* The payload the factory closes over.
AnchorsOf == {anchors}

\* The signature schemes' reserved value, drawn by the factory of a built-in
\* profile.  That of a custom client returns the placeholder, which utls leaves
\* as it is, or replaces: grease.go says the one and mapper.go the other.
SignatureOf ==
  IF ~profile.greaseSignature THEN {None}
  ELSE IF custom = None THEN {randomGREASESignatureScheme(s) : s \in Seeds}
  ELSE {GREASE} \cup ReservedExts

\* A TLS dial: the factory runs.
Dial(c) ==
  /\ client = "ready"
  /\ pc[c] = "idle"
  /\ profile.extensions # None
  /\ pc' = [pc EXCEPT ![c] = "built"]
  /\ spec' = [spec EXCEPT ![c] = SpecOf(c)]
  /\ \E a \in AnchorsOf, s \in SignatureOf :
       sent' = [sent EXCEPT ![c] = [anchors |-> a, signature |-> s]]
  /\ UNCHANGED <<chrome152TrustAnchors, clientVars, session, http3Settings,
                 object, hello, drawn>>

GreasePositions(s) == {i \in DOMAIN s : s[i].ext = GREASE}

\* What is in object o after values have been written to the GREASE extensions of
\* s, one after the other.
Written(s, values, o) ==
  LET at == {i \in DOMAIN values : s[i].object = o}
  IN  IF at = {} THEN object[o]
      ELSE values[CHOOSE i \in at : \A j \in at : j <= i]

\* utls draws different values for two GREASE extensions and writes them into
\* the objects; it refuses a third.
ApplyPreset(c) ==
  LET at == GreasePositions(spec[c])
  IN  /\ pc[c] = "built"
      /\ \/ /\ Cardinality(at) > 2
            /\ pc' = [pc EXCEPT ![c] = "failed"]
            /\ UNCHANGED <<object, drawn>>
         \/ /\ Cardinality(at) <= 2
            /\ pc' = [pc EXCEPT ![c] = "applied"]
            /\ \E v \in Injection(at, ReservedExts) :
                 /\ drawn' = [drawn EXCEPT ![c] = v]
                 /\ object' = [o \in DOMAIN object
                                     \cup {spec[c][i].object : i \in at} |->
                                  Written(spec[c], v, o)]
      /\ UNCHANGED <<chrome152TrustAnchors, clientVars, session, http3Settings,
                     spec, hello, sent>>

\* utls writes the hello, from the objects, without an empty pre_shared_key.
SendHello(c) ==
  LET s == spec[c]
      out == {i \in DOMAIN s : s[i].ext = PreSharedKey => resumes /\ session}
  IN  /\ pc[c] = "applied"
      /\ pc' = [pc EXCEPT ![c] = "sent"]
      /\ hello' = [hello EXCEPT ![c] =
                     [i \in out |-> IF s[i].ext = GREASE THEN object[s[i].object]
                                    ELSE s[i].ext]]
      /\ UNCHANGED <<chrome152TrustAnchors, clientVars, session, http3Settings,
                     spec, object, sent, drawn>>

\* The server sends a session ticket, which utls keeps if there is a cache.
TicketArrives(c) ==
  /\ pc[c] = "sent"
  /\ resumes
  /\ session' = TRUE
  /\ UNCHANGED <<chrome152TrustAnchors, clientVars, http3Settings, connVars>>

\* A dial with a hello of utls's own.
UtlsHello(c) ==
  /\ client = "ready"
  /\ pc[c] = "idle"
  /\ custom = None
  /\ profile.extensions = None
  /\ pc' = [pc EXCEPT ![c] = "sent"]
  /\ UNCHANGED <<chrome152TrustAnchors, clientVars, session, http3Settings,
                 spec, object, hello, sent, drawn>>

\* A dial whose factory fails, or ends the process.
DialFails(c) ==
  /\ client = "ready"
  /\ pc[c] = "idle"
  /\ custom # None
  /\ profile.extensions = None
  /\ pc' = [pc EXCEPT ![c] = "failed"]
  /\ client' = IF FactoryPanics(custom) THEN "panicked" ELSE client
  /\ UNCHANGED <<chrome152TrustAnchors, custom, profile, anchors, resumes,
                 maxResponseHeaderBytes, session, http3Settings, spec, object,
                 hello, sent, drawn>>

-----------------------------------------------------------------------------
(* Transports *)

\* The settings of a client that has none, in the order of a walk through a Go
\* map.
DefaultSettings == {1, 3, 4, 5}

SettingsOrders ==
  IF profile.http2.settings = None
  THEN {o \in [1 .. 4 -> DefaultSettings] : Elements(o) = DefaultSettings}
  ELSE {profile.http2.settingsOrder}

\* The transport of a connection that has negotiated h2.
Http2Transport(c) ==
  /\ pc[c] = "sent"
  /\ pc' = [pc EXCEPT ![c] = "h2"]
  /\ \E order \in SettingsOrders :
       sent' = [sent EXCEPT ![c] =
                  [settings |-> IF profile.http2.settings = None
                                THEN DefaultSettings ELSE profile.http2.settings,
                   order |-> order]]
  /\ UNCHANGED <<chrome152TrustAnchors, clientVars, session, http3Settings,
                 spec, object, hello, drawn>>

\* The settings a set-up dial gives to an HTTP/3 transport: those in the order,
\* in a map of their own, or the profile's map.  nil is the empty set.
getHttp3Settings ==
  IF profile.http3.settingsOrder # <<>>
  THEN http3Settings \cap Elements(profile.http3.settingsOrder)
  ELSE http3Settings

profileDefaultMaxResponseHeaderBytes ==
  IF profile.http3.priorityParam > 0 THEN 262144 ELSE -1

\* The limit of an HTTP/3 transport; with -1 it sends none.
FieldSectionLimit ==
  IF maxResponseHeaderBytes > 0 THEN maxResponseHeaderBytes
  ELSE IF maxResponseHeaderBytes < 0 THEN -1
  ELSE profileDefaultMaxResponseHeaderBytes

\* An HTTP/3 transport with these settings; g is its reserved setting, or None.
Transport3(settings, g) ==
  LET order == profile.http3.settingsOrder
  IN  [additional |-> IF g = None THEN settings ELSE settings \cup {g},
       order |-> IF g = None \/ order = <<>> THEN order ELSE Append(order, g),
       reserved |-> g,
       sendsMaxFieldSection |-> FieldSectionLimit > 0]

\* Only Chrome sends a reserved setting; it is told by its priority parameter.
ReservedSettings ==
  IF profile.http3.priorityParam > 0 THEN ReservedIds ELSE {None}

\* Faulty variant: the reserved setting is written into the map that was given.
buildHTTP3Transport_NoCopy(c, settings, shared) ==
  /\ maxResponseHeaderBytes \in GoInts
  /\ pc' = [pc EXCEPT ![c] = "h3"]
  /\ \E g \in ReservedSettings :
       /\ sent' = [sent EXCEPT ![c] = Transport3(settings, g)]
       /\ http3Settings' = IF shared THEN sent'[c].additional ELSE http3Settings

\* The reserved setting goes into a copy of the map; shared says that the map
\* is the profile's.  There is no transport if the limit is too large for an int.
buildHTTP3Transport(c, settings, shared) ==
  /\ \/ /\ maxResponseHeaderBytes \notin GoInts
        /\ pc' = [pc EXCEPT ![c] = "failed"]
        /\ UNCHANGED sent
     \/ /\ maxResponseHeaderBytes \in GoInts
        /\ pc' = [pc EXCEPT ![c] = "h3"]
        /\ \E g \in ReservedSettings :
             sent' = [sent EXCEPT ![c] = Transport3(settings, g)]
  /\ UNCHANGED http3Settings

\* By a set-up dial, or by the racer, which hands on the profile's map.
Http3Transport(c) ==
  /\ client = "ready"
  /\ pc[c] = "idle"
  /\ \/ buildHTTP3Transport(c, getHttp3Settings,
                            profile.http3.settingsOrder = <<>>)
     \/ buildHTTP3Transport(c, http3Settings, TRUE)
  /\ UNCHANGED <<chrome152TrustAnchors, clientVars, session, spec, object, hello,
                 drawn>>

-----------------------------------------------------------------------------

Next ==
  \/ \E identifier \in Identifiers, disable \in BOOLEAN :
       NewBuiltIn(identifier, disable)
  \/ NewWithoutSettings
  \/ \E def \in Definitions, disable \in BOOLEAN :
       NewCustom(def, disable) \/ NewCustomFails(def, disable)
  \/ \E c \in Conns :
       \/ Dial(c) \/ DialFails(c) \/ UtlsHello(c) \/ ApplyPreset(c)
       \/ SendHello(c) \/ TicketArrives(c)
       \/ Http2Transport(c) \/ Http3Transport(c)

Spec == Init /\ [][Next]_vars

-----------------------------------------------------------------------------
(* Properties *)

Distinct(seq) == \A i, j \in DOMAIN seq : seq[i] = seq[j] => i = j

\* GREASE is the only extension that is named twice.
NamedOnce(extensions) ==
  \A i, j \in DOMAIN extensions :
    extensions[i] = extensions[j] /\ extensions[i] # GREASE => i = j

\* The key shares other than the reserved one are for groups that are offered, in
\* their order.
SharesOffered(groups) ==
  LET shares == {i \in DOMAIN groups.keyShares : groups.keyShares[i] # GREASE}
  IN  \E f \in [shares -> DOMAIN groups.curves] :
        \A i, j \in shares :
          groups.keyShares[i] = groups.curves[f[i]] /\ (i < j => f[i] < f[j])

\* Extensions a server can accept: a session comes last, with the modes it may be
\* used in; TLS 1.3 comes with groups, signature algorithms and a key share;
\* application settings come with ALPN.
Acceptable(h, groups) ==
  LET in == Elements(h)
  IN  /\ \A i \in DOMAIN h : h[i] = PreSharedKey => \A j \in DOMAIN h : j <= i
      /\ PreSharedKey \in in => PSKKeyExchangeModes \in in
      /\ SupportedVersions \in in =>
           /\ {KeyShares, SupportedCurves, SignatureAlgorithms} \subseteq in
           /\ groups.keyShares # <<>>
      /\ SharesOffered(groups)
      /\ in \cap ALPS # {} => ALPN \in in

\* A server can accept every hello, and no extension comes twice, two GREASE
\* extensions included.  A custom client gets what its ja3 string says, so of it
\* only the second is asked, if the string names no extension twice.
HelloWellFormed ==
  \A c \in Conns : pc[c] = "sent" /\ profile.extensions # None =>
    /\ NamedOnce(profile.extensions) => Distinct(hello[c])
    /\ custom = None => Acceptable(hello[c], profile.groups)

\* Connections do not disturb each other: a hello has the reserved values that
\* were drawn for it, whatever is built and drawn for others before it is sent.
\* A reserved signature scheme is one of the sixteen values.
DrawnForIt ==
  \A c \in Conns :
    /\ pc[c] = "sent" =>
         Elements(hello[c]) \cap ReservedExts = Elements(drawn[c])
    /\ pc[c] = "built" /\ profile.greaseSignature =>
         sent[c].signature \in ReservedValues

\* The order of the trust anchors does not change from hello to hello; a browser
\* keeps it while it runs.
OneAnchorOrder ==
  \A c, d \in Conns :
    pc[c] \in {"built", "applied"} /\ pc[d] \in {"built", "applied"} =>
      sent[c].anchors = sent[d].anchors

\* The capture a client's anchors come from, <<>> if there is none.
Capture ==
  IF custom # None THEN custom.trustAnchorsPayload
  ELSE IF profile.anchors = None THEN <<>> ELSE profile.anchors

Count(seq, e) == Cardinality({i \in DOMAIN seq : seq[i] = e})

\* The payload has the anchors of the capture, each as often as there, and is as
\* long as it says.
AnchorsKept ==
  anchors # None =>
    LET was == splitTrustAnchors(Capture)
        now == splitTrustAnchors(anchors)
    IN  /\ now # None
        /\ Len(now) = Len(was)
        /\ \A r \in Elements(was) : Count(now, r) = Count(was, r)

\* What splitTrustAnchors should accept: the list can be cut into records, each
\* of which is as long as its first byte says.
IsAnchorList(capture) ==
  /\ Len(capture) >= 2
  /\ LET list == SubSeq(capture, 3, Len(capture))
         end == Len(list) + 1
     IN  /\ 256 * capture[1] + capture[2] = Len(list)
         /\ \E cuts \in SUBSET (1 .. end) :
              /\ 1 \in cuts
              /\ \A i \in cuts \ {end} : i + 1 + list[i] \in cuts

\* A capture is refused if and only if it is no list of anchors: a mistake in
\* copying it shows when the client is made, and no client is made with less
\* than it says.
CapturesRead ==
  custom # None /\ custom.trustAnchorsPayload # <<>> =>
    (client = "refused" <=>
       (custom.trustAnchorsPayload = None
          \/ ~IsAnchorList(custom.trustAnchorsPayload)))

\* The shuffle is fair: every order of different anchors comes from one draw
\* exactly, so that no order is more likely than others.
EveryOrderOnce ==
  LET records == splitTrustAnchors(Capture)
  IN  anchors # None /\ Distinct(records) =>
        \A d, e \in Draws(Len(records)) :
          shuffleTrustAnchors(records, d) = shuffleTrustAnchors(records, e)
            => d = e

\* The trust anchors of a client are those of its capture, in one order.
AnchorsSound ==
  /\ CapturesRead
  /\ AnchorsKept
  /\ EveryOrderOnce
  /\ OneAnchorOrder

\* No pseudo header is missing, and a priority refers to a stream that was
\* declared.
FramesFit(h) ==
  LET streams == {h.priorities[i][1] : i \in DOMAIN h.priorities} \cup {0}
  IN  /\ Elements(h.pseudoHeaderOrder) = Elements(Masp)
      /\ \A i \in DOMAIN h.priorities : h.priorities[i][2] \in streams
      /\ h.headerPriority = None \/ h.headerPriority \in streams

\* The order has every setting once.
OrderFits(order, settings) == Elements(order) = settings /\ Distinct(order)

\* The first frames of HTTP/2 are complete.  A custom client gets the pseudo
\* headers and priorities that it is given, so of it only the settings are asked:
\* their order fits if that of the definition does, also if that has names which
\* the code does not know.
PrefaceComplete ==
  \A c \in Conns : pc[c] = "h2" =>
    /\ custom = None \/ OrderFits(custom.h2SettingsOrder, custom.h2Settings)
         => OrderFits(sent[c].order, sent[c].settings)
    /\ custom = None => FramesFit(profile.http2)

\* The settings the HTTP/3 library sends for a transport: those it is given, the
\* one for datagrams, and the limit of the field section.
SentSettings(t) ==
  t.additional \cup {51} \cup (IF t.sendsMaxFieldSection THEN {6} ELSE {})

\* All HTTP/3 transports of a client look alike, made by a dial or by the racer,
\* the first or a later one: they get the settings of the profile and their own
\* reserved one.  If there is an order, it lists each of them once.  That of a
\* built-in profile lists exactly what is sent, but for the limit of the field
\* section if MaxResponseHeaderBytes asks for one where the profile has none, or
\* takes away the profile's.  A custom client gets its settings if its order
\* names each of them.
Http3SettingsHold ==
  \A c \in Conns : pc[c] = "h3" =>
    LET t == sent[c]
        order == profile.http3.settingsOrder
    IN  order = <<>> \/ profile.http3.settings \subseteq Elements(order) =>
          /\ t.additional = profile.http3.settings \cup ({t.reserved} \ {None})
          /\ order # <<>> /\ Distinct(order) =>
               /\ t.additional \subseteq Elements(t.order)
               /\ Distinct(t.order)
               /\ custom = None =>
                    LET except ==
                          IF t.sendsMaxFieldSection
                             <=> profile.http3.priorityParam > 0
                          THEN {} ELSE {6}
                    IN  Elements(t.order) \ except = SentSettings(t) \ except

\* Numbers of HTTP/3 settings that are in use.
KnownSettings == {1, 6, 7, 8, 51, 16765559, 727725890}

\* What makes a profile that is registered a good one.
SoundProfile(p) ==
  /\ p.extensions # None =>
       /\ p.extensions \in Seq(Nat)
       /\ Elements(p.extensions) \cap ReservedValues \subseteq {GREASE}
       /\ Acceptable(p.extensions, p.groups)
  /\ p.anchors \in {None, chrome152TrustAnchorsCapture, <<0, 0>>}
  /\ p.http2.settings # None
  /\ OrderFits(p.http2.settingsOrder, p.http2.settings)
  /\ FramesFit(p.http2)
  /\ p.http3.settingsOrder \in Seq(KnownSettings)
  /\ p.http3.settingsOrder # <<>> =>
       Elements(p.http3.settingsOrder) =
         p.http3.settings \cup {51}
           \cup (IF p.http3.priorityParam > 0 THEN {6} ELSE {})

\* The tables hold good profiles, and reserved settings are apart from all others.
ASSUME ProfilesAssumption ==
  /\ \A identifier \in DOMAIN MappedTLSClients :
       SoundProfile(MappedTLSClients[identifier])
  /\ SoundProfile(DefaultClientProfile)
  /\ ReservedIds \cap KnownSettings = {}

\* A session is kept to be presented: as soon as there is one, every hello has
\* it, and a client whose hello has no place for it keeps none.
SessionsPresented ==
  [][\A c \in Conns :
       pc[c] = "applied" /\ pc'[c] = "sent" =>
         (PreSharedKey \in Elements(hello'[c]) <=> session)]_vars

=============================================================================
