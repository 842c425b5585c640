CONSTANTS
  Tools = {t1}
  DecisionWait = 2
  SlowMs = 2
  MaxNow = 4
SPECIFICATION SamplingSpec
CHECK_DEADLOCK FALSE
INVARIANT SlowTaskKept
