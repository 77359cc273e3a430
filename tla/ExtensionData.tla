---------------------------- MODULE ExtensionData ----------------------------
(***************************************************************************)
(* The payload of the trust_anchors extension (profiles/extension_data.go) *)
(* and the reserved signature scheme (profiles/grease.go).                 *)
(*                                                                         *)
(* A payload is a sequence of bytes: two with the length of the rest, then *)
(* records, each a byte with the length of the identifier that follows it. *)
(* A capture is a payload that a browser was seen to send, or None for a   *)
(* string that is not hexadecimal.                                         *)
(***************************************************************************)
EXTENDS Integers, Sequences, SequencesExt

CONSTANT None

Byte == 0 .. 255

\* None is told apart from a list and from a list of records.
ASSUME NoneAssumption == None \notin Seq(Nat) \cup Seq(Seq(Byte))

\* The records of a list from the i-th byte on; None if the last identifier runs
\* past the end.
RecordsFrom(list) ==
  LET rest[i \in 1 .. Len(list) + 1] ==
        IF i = Len(list) + 1 THEN <<>>
        ELSE LET end == i + 1 + list[i]
             IN  IF end > Len(list) + 1 THEN None
                 ELSE LET others == rest[end]
                      IN  IF others = None THEN None
                          ELSE <<SubSeq(list, i, end - 1)>> \o others
  IN  rest[1]

\* The records of a captured payload, None if it is refused.
splitTrustAnchors(capture) ==
  IF capture = None THEN None
  ELSE IF Len(capture) < 2 THEN None
  ELSE LET list == SubSeq(capture, 3, Len(capture))
       IN  IF 256 * capture[1] + capture[2] # Len(list) THEN None
           ELSE RecordsFrom(list)

\* What the random source may answer to shuffleTrustAnchors for n records: for
\* the i-th position, one that is not behind it.
Draws(n) == {d \in [2 .. n -> 1 .. n] : \A i \in 2 .. n : d[i] <= i}

\* The records after the swaps, from the last position down to the second.
Shuffled(records, draw) ==
  LET swapped[i \in 2 .. Len(records) + 1] ==
        IF i > Len(records) THEN records
        ELSE LET s == swapped[i + 1]
             IN  [s EXCEPT ![i] = s[draw[i]], ![draw[i]] = s[i]]
  IN  IF records = <<>> THEN <<>> ELSE swapped[2]

\* Faulty variant: the length field counts records.
shuffleTrustAnchors_Count(records, draw) ==
  <<0, Len(records)>> \o FlattenSeq(Shuffled(records, draw))

\* The payload for the records of a capture, and a draw.
shuffleTrustAnchors(records, draw) ==
  LET list == FlattenSeq(Shuffled(records, draw))
      size == Len(list) % 65536
  IN  <<size \div 256, size % 256>> \o list

\* The payloads BuildTrustAnchorsPayload may return; none for a capture that it
\* refuses.
BuildTrustAnchorsPayload(capture) ==
  LET records == splitTrustAnchors(capture)
  IN  IF records = None THEN {}
      ELSE {shuffleTrustAnchors(records, d) : d \in Draws(Len(records))}

-----------------------------------------------------------------------------

\* value & 0xf0 | 0x0a, and the same in the upper byte.
randomGREASESignatureScheme(seed) ==
  LET low == 16 * ((seed % 256) \div 16) + 10
  IN  256 * low + low

\* The reserved values of RFC 8701 for groups, suites and signature schemes.
ReservedValues == {4112 * w + 2570 : w \in 0 .. 15}

=============================================================================
