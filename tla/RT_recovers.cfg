\* One request at a time, every protocol; the server settles.
CONSTANTS
  Addrs = {a1}
  Requests = {r1}
  TransportIds = {t1}
  Protocols = {"no ALPN", "http/1.1", "h2", "h3"}
  Schemes = {"https", "other"}
  None = None
SPECIFICATION FairSpec
INVARIANT CachedTransportFits
PROPERTY Recovers
