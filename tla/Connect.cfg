\* Two dials and three connections, so that one can be left behind.
CONSTANTS
  Dials = {d1, d2}
  Conns = {c1, c2, c3}
  Protocols = {"http/1.1", "h2", "other"}
  Timeout = 30
  None = None
SPECIFICATION Spec
INVARIANT NothingLeftOpen
PROPERTIES
  Http1TunnelsAreAlone
  DialReturns
