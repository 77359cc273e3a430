---------------------------- MODULE MCFingerprint ----------------------------
(* Values for model checking Fingerprint. *)
EXTENDS Fingerprint, TLC

MCIdentifiers == DOMAIN MappedTLSClients \cup {"unknown"}

\* Three anchors, two of which are alike.
MCCapture == <<0, 7, 1, 1, 1, 1, 2, 1, 2>>

\* A definition that agrees with itself: two GREASE extensions, two anchors, a
\* session at the end.
Base ==
  [complete |-> TRUE, numbers |-> TRUE, algorithms |-> TRUE,
   greaseSignature |-> FALSE,
   extensions |-> <<GREASE, 43, 51, 10, 13, 16, 45, 51764, GREASE, 41>>,
   curves |-> <<GREASE, 4588, 29>>,
   keyShareCurves |-> <<"GREASE", "X25519MLKEM768", "X25519">>,
   certCompressionAlgos |-> {"brotli"},
   trustAnchorsPayload |-> <<0, 4, 1, 1, 1, 2>>,
   h2Settings |-> {"HEADER_TABLE_SIZE", "ENABLE_PUSH"},
   h2SettingsOrder |-> <<"ENABLE_PUSH", "HEADER_TABLE_SIZE">>,
   pseudoHeaderOrder |-> Masp, priorityFrames |-> <<<<3, 0>>, <<5, 3>>>>,
   headerPriority |-> 5,
   h3Settings |-> {"QPACK_MAX_TABLE_CAPACITY", "H3_DATAGRAM"},
   h3SettingsOrder |-> <<"H3_DATAGRAM", "QPACK_MAX_TABLE_CAPACITY">>,
   h3PriorityParam |-> 984832, h3PseudoHeaderOrder |-> Masp]

\* Mistakes in a definition, and parts that are left out.
Variants ==
  {Base,
   [Base EXCEPT !.complete = FALSE],
   [Base EXCEPT !.complete = FALSE, !.algorithms = FALSE],
   [Base EXCEPT !.numbers = FALSE],
   [Base EXCEPT !.extensions = <<43, 27>>],
   [Base EXCEPT !.extensions = <<43, 27>>,
                !.certCompressionAlgos = {"deflate"}],
   [Base EXCEPT !.extensions = <<43, 9>>],
   [Base EXCEPT !.extensions = <<43, 51, 43>>],
   [Base EXCEPT !.extensions = <<GREASE, GREASE, GREASE>>],
   [Base EXCEPT !.trustAnchorsPayload = <<>>],
   [Base EXCEPT !.trustAnchorsPayload = <<>>, !.extensions = <<43, 41>>],
   [Base EXCEPT !.trustAnchorsPayload = None],
   [Base EXCEPT !.trustAnchorsPayload = <<0, 6, 1, 1, 1, 2, 1, 3>>,
                !.extensions = <<GREASE, 51764>>],
   [Base EXCEPT !.h2Settings = {"HEADER_TABLE_SIZE", "ENABLE_X"},
                !.h2SettingsOrder = <<"ENABLE_X", "HEADER_TABLE_SIZE">>],
   [Base EXCEPT !.h2SettingsOrder = <<>>],
   [Base EXCEPT !.pseudoHeaderOrder = <<"m", "p">>, !.headerPriority = None,
                !.priorityFrames = <<<<3, 7>>>>, !.greaseSignature = TRUE],
   [Base EXCEPT !.h3SettingsOrder = <<"H3_DATAGRAM">>],
   [Base EXCEPT !.h3SettingsOrder = <<>>],
   [Base EXCEPT !.h3Settings = {}, !.h3SettingsOrder = <<>>],
   [Base EXCEPT !.h3PriorityParam = 0]}

\* Every short capture.
Captures ==
  {[Base EXCEPT !.extensions = <<51764>>, !.trustAnchorsPayload = s] :
     s \in UNION {[1 .. n -> 0 .. 2] : n \in 1 .. 5}}

MCDefinitions == Variants \cup Captures

\* On a build with small integers, no limit, one, none and one that is too large.
MCGoInts == -2 .. 2
MCHeaderLimits == {0, 2, -1, 3}

=============================================================================
