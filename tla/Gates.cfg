CONSTANTS
  None = None q1 = q1 q2 = q2 m1 = m1 m2 = m2 latest = latest c1 = c1 c2 = c2
  Prompts = {q1, q2}
  Snapshots = {m1, m2}
  Aliases = {latest}
  MayBeUnset = FALSE
  Labels <- MCLabels
  JudgeReplies <- MCVerdicts
  Threshold = 30
  MinPerClass = 2
  MaxAge = 1
  MaxClock = 2
  Unit <- MCUnit
  Calls = {"call1", "call2"}
  ProbeRatio = 5
  WindowSize = 2
  MinN = 2
  Baseline = 100
  Drop = 20
  MaxProbeClock = 4
  MaxProbes = 4
  Judges = {"j1", "j2", "j3"}
  UsingRubric = {"j1", "j2"}
  Nobody = Nobody
  MaxRubric = 3
  Null = Null
  Cases = {c1, c2}
  Unlabeled = {}
  MinSeedCases = 2
  Tolerance = 50
  Replies <- MCReplies
  Submitted <- MCSubmitted
  Suites <- MCSuites
  MaxRuns = 4
  NoRun = NoRun
  Queries = {"graded", "single"}
  Grade <- MCGrade
  Rankings <- MCRankings
  TopK = 1
  RecallTolerance = 36
  Rescores = TRUE
  MaxGateRuns = 4
SPECIFICATION Spec
SYMMETRY MCSymmetry
CHECK_DEADLOCK FALSE
INVARIANTS
  GatesOnItsOwnMeasurement RubberStampNeverGates
  AlertFollowsTheJudge BumpsReachStaleCards
  ReleasedThroughEveryCheck NoRegressionReleased DriftIsBounded
  BetterRankingsScoreNoLess
PROPERTIES ShippedHeldUpThrice
