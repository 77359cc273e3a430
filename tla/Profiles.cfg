SPECIFICATION Spec
CONSTANTS
  None = None
  Conns = {c1, c2}
  chrome152TrustAnchorsCapture <- MCCapture
  Identifiers <- MCIdentifiers
  Definitions <- MCDefinitions
  Seeds = {0, 4660, 65535}
  ReservedExts = {10794, 14906}
  ReservedIds = {id1, id2}
  HeaderLimits <- MCHeaderLimits
  GoInts <- MCGoInts
CHECK_DEADLOCK FALSE
INVARIANTS
  HelloWellFormed
  DrawnForIt
  AnchorsSound
  PrefaceComplete
  Http3SettingsHold
PROPERTY
  SessionsPresented
