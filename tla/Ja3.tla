--------------------------------- MODULE Ja3 ---------------------------------
(***************************************************************************)
(* Custom clients: the ja3 string and the names that a CustomTlsClient     *)
(* consists of (ja3.go, mapper.go, getCustomTlsClientProfile of            *)
(* cffi_src/factory.go), turned into a profile.  A definition is taken     *)
(* apart only as far as the profile depends on it.                         *)
(***************************************************************************)
EXTENDS Profiles

H2SettingsMap ==
  [HEADER_TABLE_SIZE |-> 1, ENABLE_PUSH |-> 2, MAX_CONCURRENT_STREAMS |-> 3,
   INITIAL_WINDOW_SIZE |-> 4, MAX_FRAME_SIZE |-> 5, MAX_HEADER_LIST_SIZE |-> 6,
   UNKNOWN_SETTING_7 |-> 7, UNKNOWN_SETTING_8 |-> 8, UNKNOWN_SETTING_9 |-> 9]

H3SettingsMap ==
  [QPACK_MAX_TABLE_CAPACITY |-> 1, MAX_FIELD_SECTION_SIZE |-> 6,
   QPACK_BLOCKED_STREAMS |-> 7, H3_DATAGRAM |-> 51]

curves ==
  [GREASE |-> GREASE, P256 |-> 23, P384 |-> 24, P521 |-> 25, X25519 |-> 29,
   P256Kyber768 |-> 65074, X25519Kyber512D |-> 65072, X25519Kyber768 |-> 25497,
   X25519Kyber768Old |-> 65073, X25519MLKEM768 |-> 4588]

certCompression == {"zlib", "brotli", "zstd"}

\* ja3 has five parts, unless complete is FALSE, of which the third and the
\* fourth are told apart here; numbers says that every number in it parses, and
\* algorithms that every name of a signature, KDF or AEAD algorithm is in its
\* table or is a hexadecimal number; greaseSignature says that "GREASE" is among
\* those of the signatures.  trustAnchorsPayload is <<>> if it is empty, and None
\* if it is not hexadecimal.  Priorities are as in Profiles.
CustomTlsClient ==
  [complete : BOOLEAN, numbers : BOOLEAN, algorithms : BOOLEAN,
   greaseSignature : BOOLEAN,
   extensions : Seq(Nat), curves : Seq(Nat), keyShareCurves : Seq(STRING),
   certCompressionAlgos : SUBSET STRING,
   trustAnchorsPayload : Seq(Byte) \cup {None},
   h2Settings : SUBSET STRING, h2SettingsOrder : Seq(STRING),
   pseudoHeaderOrder : Seq(STRING), priorityFrames : Seq(Nat \X Nat),
   headerPriority : Nat \cup {None},
   h3Settings : SUBSET STRING, h3SettingsOrder : Seq(STRING),
   h3PriorityParam : Nat, h3PseudoHeaderOrder : Seq(STRING)]

-----------------------------------------------------------------------------
(* Names *)

\* The known ones of a set of names.
ResolveSet(table, names) == {table[n] : n \in names \cap DOMAIN table}

\* Faulty variant: a name the table does not have resolves to zero.
ResolveSeq_Zero(table, names) ==
  [i \in DOMAIN names |-> IF names[i] \in DOMAIN table
                          THEN table[names[i]] ELSE 0]

\* The known ones of a sequence of names, in their order.
ResolveSeq(table, names) ==
  LET resolved[i \in 0 .. Len(names)] ==
        IF i = 0 THEN << >>
        ELSE IF names[i] \in DOMAIN table
        THEN Append(resolved[i - 1], table[names[i]])
        ELSE resolved[i - 1]
  IN  resolved[Len(names)]

-----------------------------------------------------------------------------
(* The SpecFactory *)

\* Extensions that a ja3 string can name without more being said about them.
getExtensionBaseMap ==
  {0, 5, 18, Padding, 23, 35, PreSharedKey, 42, 44, PSKKeyExchangeModes, 13172,
   65281}

\* extMap when stringToSpec has filled it in.
ExtMap(def, anchors) ==
  getExtensionBaseMap
  \cup {SupportedCurves, 11, SignatureAlgorithms, ALPN, 28, 34,
        SupportedVersions, KeyShares, 65037} \cup ALPS
  \cup (IF def.certCompressionAlgos \cap certCompression # {}
        THEN {27} ELSE {})
  \cup (IF anchors # None THEN {extensionTrustAnchors} ELSE {})

\* The factory returns an error, or does not return.
SpecFails(def, anchors) ==
  \/ ~def.algorithms
  \/ ~def.complete
  \/ ~def.numbers
  \/ \E i \in DOMAIN def.extensions :
       def.extensions[i] \notin ExtMap(def, anchors) \cup {GREASE}

\* getCustomTlsClientProfile, once the factory is made.  Pseudo headers and
\* priorities are taken as they are.
CustomProfile(def, anchors) ==
  [extensions |-> IF SpecFails(def, anchors) THEN None ELSE def.extensions,
   groups |-> Groups(def.curves, ResolveSeq(curves, def.keyShareCurves)),
   anchors |-> None, greaseSignature |-> def.greaseSignature,
   http2 |-> [settings |-> ResolveSet(H2SettingsMap, def.h2Settings),
              settingsOrder |-> ResolveSeq(H2SettingsMap, def.h2SettingsOrder),
              pseudoHeaderOrder |-> def.pseudoHeaderOrder,
              priorities |-> def.priorityFrames,
              headerPriority |-> def.headerPriority],
   http3 |-> Http3(ResolveSet(H3SettingsMap, def.h3Settings),
                   ResolveSeq(H3SettingsMap, def.h3SettingsOrder),
                   def.h3PriorityParam, def.h3PseudoHeaderOrder)]

=============================================================================
