CONSTANTS
  Unknown = Unknown
  MinGoldenSet = 2
  MinCleanRuns = 3
  Floor = 64
  Ceiling = 3200
  Step = 2
  MaxFindings = 2
  MaxGolden = 3
  MaxRelaxed = 8
  Unit <- MCUnit
  Cases = {"a", "b", "c", "d", "e"}
  OutcomeOf <- MCOutcomeOf
  MaxFailures = 60
  SealedFraction = 20
  GateFraction = 30
  HoldOut = 28
  EscalationPart = 2
  RandomPart = 1
  Traces = {"t1", "t2", "t3"}
  Ratios = {10, 50, 100}
  MinSample = 2
  Margin = 50
  MaxOutcomes = 3
  Labels <- MCLabels
  Cosine <- MCCosine
  Threshold = 90
  MinSize = 5
  MaxClusters = 2
  MaxId = 6
  Alpha = 3
  Z = 2
  MinVolume = 10
  Counts = {0, 1, 2, 3, 4, 6, 9}
  MaxWindows = 4
  r1 = r1 r2 = r2
  TaxonomyWords = {"timeout", "wrong tool", "no answer"}
  InitialVocabulary <- MCVocabulary
  Reviewers = {r1, r2}
  NotReviewing = NotReviewing
  MaxCoded = 2
  MaxFailed = 4
  CallTools = {"search", "fetch", "mail"}
  MinCalls = 3
  TvdThreshold = 34
  MaxCalls = 5
  search = search fetch = fetch
  Tools = {search, fetch}
  DecisionWait = 2
  SlowMs = 2
  MaxNow = 3
  Null = Null
  Pairs <- MCPairs
SPECIFICATION Spec
SYMMETRY MCSymmetry
CHECK_DEADLOCK FALSE
INVARIANTS
  TrustIsEarned OversightReturnsFaster NoLeakage DecidedOnEvidence
  AlertsAreForNewSeries SeriesContinue SpikesAreJudgedByHistory
  CodingIsStable RetrievalIsNeverBlended AlertIsSomeToolsShift
  FailuresKept ModelIsSound SameRunIsEquivalent EquivalentMakeTheSameCalls
PROPERTIES CanaryTracesStay
