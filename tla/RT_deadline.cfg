\* A server that falls silent during an HTTP/2 reconnect.
CONSTANTS
  Addrs = {a1, a2}
  Requests = {r1, r2}
  TransportIds = {t1, t2, t3}
  Protocols = {"h2"}
  Schemes = {"https"}
  None = None
SPECIFICATION DeadlineSpec
PROPERTY EveryRequestReturns
