\* A late drop against a rebuilt transport.
CONSTANTS
  Addrs = {a1}
  Requests = {r1, r2}
  TransportIds = {t1, t2}
  Protocols = {"http/1.1", "h2"}
  Schemes = {"https"}
  None = None
SPECIFICATION Spec
INVARIANT KindRecorded
