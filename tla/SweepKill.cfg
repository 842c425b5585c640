CONSTANTS
  p1 = p1 p2 = p2 r1 = r1 r2 = r2 s1 = s1 s2 = s2 s3 = s3 i1 = i1 i2 = i2 i3 = i3
  None = None Closed = Closed Orphan = Orphan
  Procs = {p1}
  Runs = {r1}
  ProcOf <- MCAlone
  Sessions = {s1, s2}
  Ids = {i1}
  Visible = {i1}
  Verdicts <- MCPromote
  OperatorFrom <- MCNobody
  Budget <- MCAmple
  CanKill = TRUE
  MaxFaults = 0
  MaxClock = 0
SPECIFICATION FairSpec
PROPERTIES KillHaltsSweep
