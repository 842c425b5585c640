CONSTANTS
  None = None q1 = q1 q2 = q2 m1 = m1 m2 = m2 latest = latest c1 = c1 c2 = c2
  Prompts = {q1, q2}
  Snapshots = {m1, m2}
  Aliases = {latest}
  MayBeUnset = TRUE
  Labels <- MCLabels
  JudgeReplies <- MCUnclear
  Threshold = 30
  MinPerClass = 2
  MaxAge = 1
  MaxClock = 1
  Unit <- MCUnit
  Calls = {"call1", "call2"}
  ProbeRatio = 5
  WindowSize = 2
  MinN = 2
  Baseline = 100
  Drop = 20
  MaxProbeClock = 4
  MaxProbes = 4
  Judges = {"j1", "j2", "j3"}
  UsingRubric = {"j1", "j2"}
  Nobody = Nobody
  MaxRubric = 3
  Null = Null
  Cases = {c1, c2}
  Unlabeled = {c2}
  MinSeedCases = 2
  Tolerance = 50
  Replies <- MCCleanReply
  Submitted <- MCOmitted
  Suites <- MCPassing
  MaxRuns = 4
  NoRun = NoRun
  Queries = {"graded", "single"}
  Grade <- MCGrade
  Rankings <- MCRankings
  TopK = 1
  RecallTolerance = 36
  Rescores = FALSE
  MaxGateRuns = 4
SPECIFICATION Spec
CHECK_DEADLOCK FALSE
INVARIANTS
  GatesOnItsOwnMeasurement FailIsNoEndorsement StaleCardsAreAskedFor
  ScoreCurveIsCurrent ReleasedOnAnchoredSet NoToolNameReleased NoPoisonReleased
  ComparedOnOneSet
