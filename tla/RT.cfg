\* Two requests at one address, http and https; every handshake is answered.
CONSTANTS
  Addrs = {a1}
  Requests = {r1, r2}
  TransportIds = {t1, t2}
  Protocols = {"http/1.1", "h2"}
  Schemes = {"http", "https"}
  None = None
SPECIFICATION FairSpec
INVARIANTS
  TypeOK
  NoPanic
  StashFits
PROPERTIES
  CacheSpec
  EveryRequestReturns
