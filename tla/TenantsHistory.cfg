CONSTANTS
  Null = Null Unset = Unset Empty = Empty Committed = Committed
  s1 = s1 s2 = s2 h1 = h1 h2 = h2
  Tenants = {"default", "other"}
  DefaultTenant = "default"
  Sessions = {s1}
  Tables = {"agent", "prompt", "version"}
  Hashes = {h1}
  MaxRows = 3
SPECIFICATION Spec
INVARIANTS TypeOK IsolatedInAnyRole CascadesStayInTenant ReferencesStayInTenant
PROPERTIES HistoryStays
