\* Two calls; lists long enough for an array to have room to spare.
CONSTANTS
  Calls = {c1, c2}
  HookFuncs = {h1, h2}
  MaxPre = 4
  MaxPost = 1
  None = None
SPECIFICATION Spec
SYMMETRY Symmetry
INVARIANT SnapshotsHold
