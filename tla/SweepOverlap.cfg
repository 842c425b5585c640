CONSTANTS
  p1 = p1 p2 = p2 r1 = r1 r2 = r2 s1 = s1 s2 = s2 s3 = s3 i1 = i1 i2 = i2 i3 = i3
  None = None Closed = Closed Orphan = Orphan
  Procs = {p1}
  Runs = {r1, r2}
  ProcOf <- MCOverlap
  Sessions = {s1, s2}
  Ids = {i1, i2, i3}
  Visible = {i1, i2, i3}
  Verdicts <- MCAnyVerdict
  OperatorFrom <- MCNobody
  Budget <- MCTight
  CanKill = TRUE
  MaxFaults = 1
  MaxClock = 1
SPECIFICATION Spec
SYMMETRY MCSymmetry
INVARIANTS WithinBudget KilledReplicaNeverWrites
