---------------------------- MODULE MCSocks5Quic ----------------------------
(* Instances of Socks5Quic for TLC. *)
EXTENDS Socks5Quic, TLC

\* Lengths at the limits of both headers, a fragment, a domain name, another
\* port of the relay and a stranger.
MCDatagrams ==
  LET gram(src, frag, atyp, len) ==
        [src |-> src, frag |-> frag, atyp |-> atyp, len |-> len]
  IN {gram("relay", 0, 1, 3), gram("relay", 0, 1, 9), gram("relay", 0, 1, 10),
      gram("relay", 0, 4, 21), gram("relay", 0, 4, 22),
      gram("relay", 1, 1, 40), gram("relay", 0, 3, 40),
      gram("relay-other-port", 0, 1, 40), gram("stranger", 0, 1, 40)}

=============================================================================
