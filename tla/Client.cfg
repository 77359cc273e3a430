\* A request of two hops and a WebSocket, every kind of client, every change.
CONSTANTS
  Calls = {c1}
  MaxHops = 2
  ProxyUrls = {"direct", "http", "socks5", "socks5-no-host"}
  None = None
SPECIFICATION WsSpec
INVARIANTS
  ProxyInEffect
  RacingNeedsSocks5
  WssNoBypass
PROPERTIES
  NoBypass
  RedirectsAsSet
