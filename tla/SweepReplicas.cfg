CONSTANTS
  p1 = p1 p2 = p2 r1 = r1 r2 = r2 s1 = s1 s2 = s2 s3 = s3 i1 = i1 i2 = i2 i3 = i3
  None = None Closed = Closed Orphan = Orphan
  Procs = {p1, p2}
  Runs = {r1, r2}
  ProcOf <- MCProcOf
  Sessions = {s1, s2, s3}
  Ids = {i1, i2}
  Visible = {i1, i2}
  Verdicts <- MCAnyVerdict
  OperatorFrom <- MCFromProposed
  Budget <- MCAmple
  CanKill = FALSE
  MaxFaults = 2
  MaxClock = 0
SPECIFICATION Spec
SYMMETRY MCSymmetry
INVARIANTS TypeOK SingleRunner NoIdleLock FreshSnapshot
PROPERTIES ImplementsLedger
