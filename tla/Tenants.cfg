CONSTANTS
  Null = Null Unset = Unset Empty = Empty Committed = Committed
  s1 = s1 s2 = s2 h1 = h1 h2 = h2
  Tenants = {"default", "other"}
  DefaultTenant = "default"
  Sessions = {s1, s2}
  Tables = {"agent", "prompt", "version", "cluster", "failure", "span"}
  Hashes = {h1}
  MaxRows = 3
SPECIFICATION Spec
SYMMETRY MCSymmetry
INVARIANTS Isolated ReferencesResolve
