\* Two calls, one session and every kind of input.
CONSTANTS
  Calls = {c1, c2}
  SessionIds = {"s"}
  ClientIds = {k1, k2}
  Inputs <- MCInputs
  PinHosts <- MCPinHosts
  Hosts <- MCHosts
  Keys = {"k1", "k2"}
  None = None
SPECIFICATION Spec
SYMMETRY Symmetry
CHECK_DEADLOCK FALSE
INVARIANTS
  NoUnaskedWay
  FreedOnce
  RequestsMeetNil
  PinsInEffect
PROPERTY SessionKeepsClient
