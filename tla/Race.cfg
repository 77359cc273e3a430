\* One caller after another and two HTTP/2 legs, so that legs of races that are
\* over work beside the leg of the present call.
CONSTANTS
  Addrs = {a1}
  Calls = {c1}
  Requests = {r1, r2}
  TransportIds = {t1, t2}
  Protocols = {"http/1.1", "h2"}
  Schemes = {"https"}
  None = None
SPECIFICATION RaceSpec
SYMMETRY Symmetry
INVARIANTS
  UndisturbedCallSucceeds
  NoPanic
