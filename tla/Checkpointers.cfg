SPECIFICATION Spec
CONSTANTS
  Calls = {c1, c2, c3}
  Newer = {c3}
  Backends <- MCBackends
  MaxCrashes = 1
INVARIANT KeysExpire
PROPERTIES ImplementsStore
