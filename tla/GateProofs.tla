----------------------------- MODULE GateProofs -----------------------------
(***************************************************************************)
(* What the runs check of what may gate and of what the gates let through, *)
(* proved for every value of the constants: the life of a judge, its gold  *)
(* probes, the release of agent versions and the evaluation of retrieval.  *)
(***************************************************************************)
EXTENDS JudgeLifecycle, GoldProbes, ReleaseGate, RetrievalEval, DataLemmas

-----------------------------------------------------------------------------
\* A verdict in a run is what the judge's reply says, and a run that was started with
\* a snapshot has asked nothing else.
RunWell(r) ==
  /\ r \in [prompt : Prompts, model : Models, measured : SUBSET Snapshots,
            results : Seq([expected : BOOLEAN, got : BOOLEAN, reply : JudgeReplies])]
  /\ \A i \in DOMAIN r.results : r.results[i].got = Got(r.results[i].reply)
  /\ ~MayBeUnset => /\ r.model \in Snapshots
                    /\ r.measured = IF r.results = <<>> THEN {} ELSE {r.model}

\* Only on different replies does a calibration say that the judge is calibrated, and
\* what was measured is the snapshot that is named.
CalibrationWell(c) ==
  /\ c.calibratedAt \in Nat
  /\ c.calibrated => Cardinality(c.replies) > 1
  /\ ~MayBeUnset => /\ c.model \in Snapshots
                    /\ c.calibrated => c.measured = {c.model}

JudgeInv ==
  /\ now \in Nat /\ alias \in Snapshots
  /\ judge \in [prompt : Prompts, model : Models]
  /\ run # None => RunWell(run)
  /\ calibration # None => CalibrationWell(calibration)

\* A lower bound above the threshold is that of at least one success.
LEMMA BoundNeedsASuccess ==
  ASSUME NEW successes \in Nat, NEW n \in Nat, WilsonLowerBoundExceeds(successes, n)
  PROVE  successes # 0
<1>1. Threshold * n \in Nat
  BY CalibrationAssumption DEF CalibrationAssumption
<1> QED
  BY <1>1 DEF WilsonLowerBoundExceeds

\* The counts of a confusion matrix are numbers.
LEMMA CountIsNatural ==
  ASSUME NEW S, NEW results \in Seq(S), NEW expected, NEW got
  PROVE  Count(results, expected, got) \in Nat
<1>1. Len(results) \in Nat /\ DOMAIN results = 1..Len(results)
  BY LenProperties
<1>2. IsFiniteSet(1..Len(results))
  BY <1>1, FS_Interval
<1> QED
  BY <1>1, <1>2, FS_Subset, FS_CardinalityType DEF Count

\* A calibration above the thresholds has a reply that was read as a pass and one that
\* was read as a fail.
LEMMA CalibratedSawBoth ==
  ASSUME RunWell(run), StratifiedCalibrated(run.results)
  PROVE  \E i, j \in DOMAIN run.results : run.results[i].reply # run.results[j].reply
<1> DEFINE tp == Count(run.results, TRUE, TRUE)
           fn == Count(run.results, TRUE, FALSE)
           tn == Count(run.results, FALSE, FALSE)
           fp == Count(run.results, FALSE, TRUE)
<1>1. tp \in Nat /\ fn \in Nat /\ tn \in Nat /\ fp \in Nat
  BY CountIsNatural DEF RunWell
<1>2. WilsonLowerBoundExceeds(tp, tp + fn) /\ WilsonLowerBoundExceeds(tn, tn + fp)
  BY DEF StratifiedCalibrated
<1>3. tp # 0 /\ tn # 0
  <2> HIDE DEF tp, fn, tn, fp
  <2>1. tp + fn \in Nat /\ tn + fp \in Nat
    BY <1>1
  <2> QED
    BY <1>1, <1>2, <2>1, BoundNeedsASuccess
<1>4. PICK i \in DOMAIN run.results : run.results[i].got = TRUE
  <2>1. {i \in DOMAIN run.results : run.results[i].expected = TRUE
                                   /\ run.results[i].got = TRUE} # {}
    BY <1>3, FS_EmptySet DEF Count
  <2> QED
    BY <2>1
<1>5. PICK j \in DOMAIN run.results : run.results[j].got = FALSE
  <2>1. {k \in DOMAIN run.results : run.results[k].expected = FALSE
                                   /\ run.results[k].got = FALSE} # {}
    BY <1>3, FS_EmptySet DEF Count
  <2> QED
    BY <2>1
<1>6. Got(run.results[i].reply) = TRUE /\ Got(run.results[j].reply) = FALSE
  BY <1>4, <1>5 DEF RunWell
<1>7. run.results[i].reply # run.results[j].reply
  BY <1>6
<1> QED
  BY <1>7

\* Every example is put to the model the run started with.
LEMMA ExampleStep ==
  ASSUME JudgeInv, JudgeExample
  PROVE  RunWell(run')
<1>1. PICK reply \in JudgeReplies :
        run' = [run EXCEPT
          !.results = Append(@, [expected |-> Labels[Len(@) + 1], got |-> Got(reply),
                                 reply |-> reply]),
          !.measured = @ \cup {Served(run.model)}]
  BY DEF JudgeExample
<1> DEFINE result == [expected |-> Labels[Len(run.results) + 1], got |-> Got(reply),
                       reply |-> reply]
<1>2. RunWell(run)
  BY DEF JudgeInv, JudgeExample
<1>3. result \in [expected : BOOLEAN, got : BOOLEAN, reply : JudgeReplies]
  BY <1>2, JudgeAssumption, LenProperties DEF RunWell, JudgeExample, JudgeAssumption, Got
<1>4. /\ run'.model = run.model /\ run'.results = Append(run.results, result)
      /\ run'.measured = run.measured \cup {Served(run.model)}
  BY <1>1, <1>2 DEF RunWell
<1>5. \A i \in DOMAIN Append(run.results, result) :
        Append(run.results, result)[i].got = Got(Append(run.results, result)[i].reply)
  BY <1>2, <1>3 DEF RunWell
<1>6. Append(run.results, result)
        \in Seq([expected : BOOLEAN, got : BOOLEAN, reply : JudgeReplies])
      /\ Append(run.results, result) # <<>>
  <2>1. run.results \in Seq([expected : BOOLEAN, got : BOOLEAN, reply : JudgeReplies])
    BY <1>2 DEF RunWell
  <2> HIDE DEF result
  <2> QED
    BY <1>3, <2>1, AppendProperties
<1>7. run' \in [prompt : Prompts, model : Models, measured : SUBSET Snapshots,
               results : Seq([expected : BOOLEAN, got : BOOLEAN, reply : JudgeReplies])]
  <2>1. Served(run.model) \in Snapshots
    BY DEF Served, JudgeInv
  <2> QED
    BY <1>1, <1>2, <1>6, <2>1 DEF RunWell
<1>8. ~MayBeUnset => run'.measured = {run.model}
  BY <1>2, <1>4 DEF RunWell, Served
<1> QED
  BY <1>4, <1>5, <1>6, <1>7, <1>8 DEF RunWell

\* What is stored is what was measured.
LEMMA FinishStep ==
  ASSUME JudgeInv, FinishCalibration
  PROVE  CalibrationWell(calibration')
<1>1. RunWell(run) /\ now \in Nat
  BY DEF JudgeInv, FinishCalibration
<1> DEFINE replies == {run.results[i].reply : i \in DOMAIN Labels}
<1>2. calibration' = [prompt |-> run.prompt, model |-> run.model, calibratedAt |-> now,
                      calibrated |-> StratifiedCalibrated(run.results),
                      replies |-> replies, measured |-> run.measured]
  BY DEF FinishCalibration
<1>3. ASSUME StratifiedCalibrated(run.results)
      PROVE  Cardinality(replies) > 1 /\ (~MayBeUnset => run.measured = {run.model})
  <2>1. PICK i, j \in DOMAIN run.results : run.results[i].reply # run.results[j].reply
    BY <1>1, <1>3, CalibratedSawBoth
  <2>2. DOMAIN run.results = 1..Len(run.results) /\ DOMAIN Labels = 1..Len(Labels)
        /\ Len(Labels) \in Nat
    BY <1>1, JudgeAssumption, LenProperties DEF RunWell, JudgeAssumption
  <2>3. DOMAIN run.results = DOMAIN Labels
    BY <2>2 DEF FinishCalibration
  <2>4. IsFiniteSet(replies)
    <3> DEFINE f == [k \in DOMAIN Labels |-> run.results[k].reply]
    <3>1. IsFiniteSet(DOMAIN f)
      BY <2>2, FS_Interval
    <3>2. IsFiniteSet({f[k] : k \in DOMAIN f})
      <4> HIDE DEF f
      <4> QED
        BY <3>1, ImageIsFinite
    <3> QED
      BY <3>2
  <2>5. Cardinality(replies) > 1
    BY <2>1, <2>3, <2>4, TwoOfThem
  <2> QED
    BY <1>1, <2>1, <2>5 DEF RunWell
<1> HIDE DEF replies
<1> QED
  BY <1>1, <1>2, <1>3 DEF CalibrationWell, RunWell

\* Every step of the life of a judge keeps the invariant.
LEMMA JudgeStep ==
  ASSUME JudgeInv, [JudgeNext]_judgeVars
  PROVE  JudgeInv'
<1>1. CASE JudgeEdited
  BY <1>1 DEF JudgeInv, JudgeEdited
<1>2. CASE ProviderRotates
  BY <1>2 DEF JudgeInv, ProviderRotates
<1>3. CASE StartCalibration
  <2>1. /\ judge.model \in Models /\ judge.prompt \in Prompts
        /\ ~MayBeUnset => judge.model \in Snapshots
    BY <1>3, JudgeAssumption
    DEF JudgeInv, StartCalibration, MayRun, Models, JudgeAssumption
  <2>2. run' = [prompt |-> judge.prompt, model |-> judge.model, results |-> <<>>,
                measured |-> {}]
    BY <1>3 DEF StartCalibration
  <2>3. RunWell(run')
    BY <2>1, <2>2 DEF RunWell
  <2> QED
    BY <1>3, <2>3 DEF JudgeInv, StartCalibration
<1>4. CASE JudgeExample
  BY <1>4, ExampleStep DEF JudgeInv, JudgeExample
<1>5. CASE FinishCalibration
  BY <1>5, FinishStep DEF JudgeInv, FinishCalibration
<1>6. CASE Tick
  BY <1>6 DEF JudgeInv, Tick
<1>7. CASE UNCHANGED judgeVars
  BY <1>7 DEF JudgeInv, judgeVars
<1> QED
  BY <1>1, <1>2, <1>3, <1>4, <1>5, <1>6, <1>7 DEF JudgeNext

\* So it holds throughout.
LEMMA JudgeInvariant == JudgeSpec => []JudgeInv
<1>1. JudgeInit => JudgeInv
  BY DEF JudgeInit, JudgeInv
<1>2. JudgeInv /\ [JudgeNext]_judgeVars => JudgeInv'
  BY JudgeStep
<1> QED
  BY <1>1, <1>2, PTL DEF JudgeSpec

\* A judge that may gate was measured with the prompt it has and on the snapshot that
\* serves it, at most MaxAge ago (isCalibrationStale next to runJudge), for any
\* prompts, snapshots, labeled sets and replies.  Without the hypothesis it is false:
\* a judge that names no model is not pinned, and GatesClaims has the counterexample.
THEOREM GatesOnItsOwnMeasurementHolds ==
  ASSUME ~MayBeUnset
  PROVE  JudgeSpec => []GatesOnItsOwnMeasurement
<1>1. JudgeInv => GatesOnItsOwnMeasurement
  <2> SUFFICES ASSUME JudgeInv, MayGate
               PROVE  /\ calibration.prompt = judge.prompt
                      /\ calibration.measured = {Served(judge.model)}
                      /\ now - calibration.calibratedAt <= MaxAge
    BY DEF GatesOnItsOwnMeasurement
  <2>1. CalibrationWell(calibration) /\ now \in Nat
    BY DEF JudgeInv, MayGate
  <2>2. /\ calibration.prompt = judge.prompt /\ calibration.model = judge.model
        /\ ~(now - calibration.calibratedAt > MaxAge)
    BY DEF MayGate, IsCalibrationStale
  <2>3. now - calibration.calibratedAt <= MaxAge
    BY <2>1, <2>2, CalibrationAssumption DEF CalibrationWell, CalibrationAssumption
  <2> QED
    BY <2>1, <2>2, <2>3 DEF MayGate, CalibrationWell, Served
<1> QED
  BY <1>1, JudgeInvariant, PTL

\* The two rules of what may gate agree (isCalibrationStale, and deriveStatus of the
\* Judge Card), at the edge of the window too.
LEMMA StatusRulesAgreeHolds == JudgeSpec => []StatusRulesAgree
<1>1. JudgeInv => StatusRulesAgree
  BY DEF StatusRulesAgree, MayGate, IsCalibrationStale, DeriveStatus, CanGate
<1> QED
  BY <1>1, JudgeInvariant, PTL

\* A judge that always answers the same never gates, for any labeled set, threshold
\* and replies: both strata need a lower bound above the threshold, and a stratum
\* without a success has none.
THEOREM RubberStampNeverGatesHolds == JudgeSpec => []RubberStampNeverGates
<1>1. JudgeInv => RubberStampNeverGates
  BY DEF JudgeInv, RubberStampNeverGates, MayGate, CalibrationWell
<1> QED
  BY <1>1, JudgeInvariant, PTL

-----------------------------------------------------------------------------
\* A wrong answer was given while the judge had drifted.
ProbesInv ==
  /\ clock \in Nat
  /\ DOMAIN regime = 0..clock
  /\ outcomes \in Seq([correct : BOOLEAN, at : Nat])
  /\ \A n \in 1..Len(outcomes) :
       /\ outcomes[n].at \in 0..clock
       /\ ~outcomes[n].correct => regime[outcomes[n].at] = "drifted"

\* A wrong answer is one of a drifted judge, in every step.
LEMMA ProbesStep ==
  ASSUME ProbesInv, [ProbeNext]_probeVars
  PROVE  ProbesInv'
<1> USE DEF ProbesInv
<1>1. ASSUME NEW call \in Calls, JudgeAnswers(call)
      PROVE  ProbesInv'
  <2>1. PICK correct \in BOOLEAN :
          /\ ~correct => regime[clock] = "drifted"
          /\ outcomes' = Append(outcomes, [correct |-> correct, at |-> clock])
    BY <1>1 DEF JudgeAnswers
  <2>2. outcomes' \in Seq([correct : BOOLEAN, at : Nat])
    BY <2>1
  <2>3. /\ Len(outcomes') = Len(outcomes) + 1 /\ Len(outcomes) \in Nat
        /\ \A n \in 1..Len(outcomes) : outcomes'[n] = outcomes[n]
        /\ outcomes'[Len(outcomes) + 1] = [correct |-> correct, at |-> clock]
    BY <2>1
  <2>4. \A n \in 1..Len(outcomes') :
          /\ outcomes'[n].at \in 0..clock
          /\ ~outcomes'[n].correct => regime[outcomes'[n].at] = "drifted"
    BY <2>1, <2>3
  <2> QED
    BY <1>1, <2>2, <2>4 DEF JudgeAnswers
<1>2. CASE ProbeTick
  <2>1. PICK next : regime' = [t \in 0..clock' |-> IF t = clock' THEN next ELSE regime[t]]
    BY <1>2 DEF ProbeTick
  <2>2. clock' = clock + 1 /\ outcomes' = outcomes
    BY <1>2 DEF ProbeTick
  <2>3. DOMAIN regime' = 0..clock' /\ \A t \in 0..clock : regime'[t] = regime[t]
    BY <2>1, <2>2
  <2> QED
    BY <2>2, <2>3
<1>3. CASE UNCHANGED probeVars
  BY <1>3 DEF probeVars
<1> QED
  BY <1>1, <1>2, <1>3 DEF ProbeNext

\* A window holds finitely many probes.
LEMMA WindowIsFinite ==
  ASSUME ProbesInv, NEW t, NEW W \in SUBSET InWindow(t)
  PROVE  IsFiniteSet(W) /\ Cardinality(W) \in Nat /\ InWindow(t) \subseteq 1..Len(outcomes)
<1>1. Len(outcomes) \in Nat /\ DOMAIN outcomes = 1..Len(outcomes)
  BY LenProperties DEF ProbesInv
<1>2. IsFiniteSet(1..Len(outcomes)) /\ W \subseteq 1..Len(outcomes)
  BY <1>1, FS_Interval DEF InWindow
<1> QED
  BY <1>1, <1>2, FS_Subset, FS_CardinalityType DEF InWindow

\* A judge as calibrated for the whole window raises no alert.
LEMMA AlertNeedsDrift ==
  ASSUME ProbesInv, NEW t \in 0..clock, ProbeDriftAlert(t)
  PROVE  \E u \in Before(t) : regime[u] = "drifted"
<1> SUFFICES ASSUME \A u \in Before(t) : regime[u] # "drifted"
             PROVE  FALSE
  OBVIOUS
<1>1. \A i \in InWindow(t) : outcomes[i].correct
  BY WindowIsFinite DEF ProbesInv, InWindow, Before
<1>2. {i \in InWindow(t) : outcomes[i].correct} = InWindow(t)
  BY <1>1
<1> DEFINE n == Cardinality(InWindow(t))
<1>3. n \in Nat
  BY WindowIsFinite
<1>4. 100 * n < (Baseline - Drop) * n
  BY <1>2 DEF ProbeDriftAlert
<1>5. Baseline - Drop <= 100 /\ Baseline - Drop \in Int
  BY ProbesAssumption DEF ProbesAssumption
<1> HIDE DEF n
<1>6. (Baseline - Drop) * n <= 100 * n
  BY <1>3, <1>5
<1> QED
  BY <1>3, <1>4, <1>5, <1>6

\* A judge that got nothing right on enough probes raises one.
LEMMA NothingRightAlerts ==
  ASSUME Drop < Baseline, ProbesInv, NEW t \in 0..clock,
         Cardinality(InWindow(t)) >= MinN, \A n \in InWindow(t) : ~outcomes[n].correct
  PROVE  ProbeDriftAlert(t)
<1>1. Cardinality({i \in InWindow(t) : outcomes[i].correct}) = 0
  <2>1. {i \in InWindow(t) : outcomes[i].correct} = {}
    OBVIOUS
  <2> QED
    BY <2>1, FS_EmptySet
<1> DEFINE n == Cardinality(InWindow(t))
<1>2. n \in Nat /\ n > 0
  <2>1. n \in Nat
    BY WindowIsFinite
  <2> QED
    BY <2>1, ProbesAssumption DEF ProbesAssumption
<1>3. Baseline - Drop \in Nat /\ Baseline - Drop > 0
  BY ProbesAssumption DEF ProbesAssumption
<1> HIDE DEF n
<1>4. (Baseline - Drop) * n > 0
  BY <1>2, <1>3
<1> QED
  BY <1>1, <1>4 DEF ProbeDriftAlert, n

\* The alert on gold probes follows the judge, at every moment and for any window,
\* baseline and number of probes.  The hypothesis is that there is a pass rate below
\* the bar: a tolerated drop of the whole baseline cannot be exceeded.
THEOREM AlertFollowsTheJudgeHolds ==
  ASSUME Drop < Baseline
  PROVE  ProbeSpec => []AlertFollowsTheJudge
<1>1. ProbeInit => ProbesInv
  <2> SUFFICES ASSUME ProbeInit
               PROVE  ProbesInv
    OBVIOUS
  <2>1. clock = 0 /\ outcomes = <<>> /\ DOMAIN regime = {0}
    BY DEF ProbeInit
  <2>2. 0..0 = {0}
    OBVIOUS
  <2> QED
    BY <2>1, <2>2 DEF ProbesInv
<1>2. ProbesInv /\ [ProbeNext]_probeVars => ProbesInv'
  BY ProbesStep
<1>3. ProbesInv => AlertFollowsTheJudge
  <2> SUFFICES ASSUME ProbesInv, NEW t \in 0..clock
               PROVE  LET probes == {n \in DOMAIN outcomes : outcomes[n].at \in Before(t)} IN
                      /\ ProbeDriftAlert(t) => \E u \in Before(t) : regime[u] = "drifted"
                      /\ Cardinality(probes) >= MinN /\ (\A n \in probes : ~outcomes[n].correct)
                           => ProbeDriftAlert(t)
    BY DEF AlertFollowsTheJudge
  <2>1. {n \in DOMAIN outcomes : outcomes[n].at \in Before(t)} = InWindow(t)
    <3>1. DOMAIN outcomes = 1..Len(outcomes)
      BY LenProperties DEF ProbesInv
    <3> QED
      BY <3>1 DEF ProbesInv, InWindow, Before
  <2> QED
    BY <2>1, AlertNeedsDrift, NothingRightAlerts
<1> QED
  BY <1>1, <1>2, <1>3, PTL DEF ProbeSpec

-----------------------------------------------------------------------------
RunType == [agentVersion : Versions, caseSetHash : SUBSET Cases, passRate : 0..100,
            total : 0..Cardinality(Cases)]

\* Stored runs are of growing generations, and of one version no two of the same.
RunsInv ==
  /\ golden \subseteq Cases
  /\ runs \in Seq(RunType) /\ Len(runs) <= MaxRuns
  /\ \A i \in 1..Len(runs) : runs[i].caseSetHash \subseteq golden
  /\ \A i, j \in 1..Len(runs) : i < j =>
       /\ runs[i].caseSetHash \subseteq runs[j].caseSetHash
       /\ runs[i].agentVersion = runs[j].agentVersion =>
            runs[i].caseSetHash # runs[j].caseSetHash

\* Two versions are rescored only when there are two.
ControlInv ==
  /\ prod \in Versions \cup {Null}
  /\ candidate # Null => candidate.version \in Versions
  /\ verdict = "case-set-mismatch" => candidate # Null /\ prod # Null

\* A golden set is finite, and of size zero only when it is empty.
LEMMA GoldenIsFinite ==
  ASSUME RunsInv
  PROVE  /\ IsFiniteSet(golden) /\ Cardinality(golden) \in 0..Cardinality(Cases)
         /\ Cardinality(golden) = 0 <=> golden = {}
BY ReleaseAssumption, FS_Subset, FS_CardinalityType, FS_EmptySet
DEF RunsInv, ReleaseAssumption

\* A pass rate is a percentage.
LEMMA RateIsAPercentage ==
  ASSUME NEW n \in Nat, n # 0, NEW passed \in 0..n
  PROVE  (100 * passed) \div n \in 0..100
OBVIOUS

\* A scored run is a run of the store.
LEMMA ScoredRunType ==
  ASSUME RunsInv, NEW version \in Versions, NEW passed \in 0..Cardinality(golden)
  PROVE  ScoredRun(version, golden, passed) \in RunType
<1> DEFINE n == Cardinality(golden)
<1>1. n \in 0..Cardinality(Cases) /\ n \in Nat /\ (golden # {} => n # 0)
  BY GoldenIsFinite, ReleaseAssumption, FS_CardinalityType DEF ReleaseAssumption
<1>2. golden # {} => (100 * passed) \div n \in 0..100
  BY <1>1, RateIsAPercentage
<1>3. (IF golden = {} THEN 0 ELSE (100 * passed) \div n) \in 0..100
  BY <1>2
<1>4. golden \in SUBSET Cases
  BY DEF RunsInv
<1>5. ScoredRun(version, golden, passed)
        = [agentVersion |-> version, caseSetHash |-> golden,
           passRate |-> IF golden = {} THEN 0 ELSE (100 * passed) \div n, total |-> n]
  BY DEF ScoredRun, CaseSetHash
<1> HIDE DEF n
<1> QED
  BY <1>1, <1>3, <1>4, <1>5 DEF RunType

\* The newest run of a version is one of them.
LEMMA NewestIsOwn ==
  ASSUME RunsInv, NEW version, RunsOf(version) # {}
  PROVE  /\ Max(RunsOf(version)) \in RunsOf(version)
         /\ \A i \in RunsOf(version) : i <= Max(RunsOf(version))
         /\ RunsOf(version) \subseteq 1..Len(runs)
<1>1. Len(runs) \in Nat /\ DOMAIN runs = 1..Len(runs)
  BY LenProperties DEF RunsInv
<1>2. RunsOf(version) \subseteq 0..Len(runs) /\ RunsOf(version) \subseteq 1..Len(runs)
  BY <1>1 DEF RunsOf
<1>3. \E m \in RunsOf(version) : \A i \in RunsOf(version) : i <= m
  BY <1>1, <1>2, LargestOf
<1>4. \E m \in RunsOf(version) : \A i \in RunsOf(version) : m >= i
  BY <1>2, <1>3
<1>5. Max(RunsOf(version)) \in RunsOf(version)
      /\ \A i \in RunsOf(version) : Max(RunsOf(version)) >= i
  BY <1>4 DEF Max
<1> QED
  BY <1>2, <1>5

\* No run of the version is on the golden set there is now, if the newest is not.
LEMMA StoringKeepsRuns ==
  ASSUME RunsInv, NEW version \in Versions, StoreRun(version),
         RunsOf(version) # {} => runs[Max(RunsOf(version))].caseSetHash # golden
  PROVE  RunsInv'
<1>1. PICK passed \in 0..Cardinality(golden) :
        runs' = Append(runs, ScoredRun(version, golden, passed))
  BY DEF StoreRun
<1> DEFINE r == ScoredRun(version, golden, passed)
<1>2. r \in RunType /\ r.caseSetHash = golden /\ r.agentVersion = version
  BY ScoredRunType DEF ScoredRun, CaseSetHash
<1>3. \A i \in RunsOf(version) : runs[i].caseSetHash # golden
  <2> TAKE i \in RunsOf(version)
  <2>1. /\ Max(RunsOf(version)) \in 1..Len(runs) /\ i <= Max(RunsOf(version))
        /\ Max(RunsOf(version)) \in RunsOf(version) /\ i \in 1..Len(runs)
    BY NewestIsOwn
  <2>2. runs[i].caseSetHash \subseteq runs[Max(RunsOf(version))].caseSetHash
    BY <2>1 DEF RunsInv
  <2>3. runs[Max(RunsOf(version))].caseSetHash \subseteq golden
    BY <2>1 DEF RunsInv
  <2> QED
    BY <2>2, <2>3
<1> HIDE DEF r
<1>4. /\ runs' \in Seq(RunType) /\ Len(runs) \in Nat /\ Len(runs') = Len(runs) + 1
      /\ \A i \in 1..Len(runs) : runs'[i] = runs[i]
      /\ runs'[Len(runs) + 1] = r
  BY <1>1, <1>2, AppendProperties DEF RunsInv, r
<1>5. golden' = golden /\ Len(runs) < MaxRuns
  BY DEF StoreRun
<1>6. \A i \in 1..Len(runs) : runs[i].agentVersion = version => runs[i].caseSetHash # golden
  BY <1>3, LenProperties DEF RunsOf, RunsInv
<1>7. \A i \in 1..Len(runs') : runs'[i].caseSetHash \subseteq golden
  BY <1>2, <1>4 DEF RunsInv
<1>8. ASSUME NEW i \in 1..Len(runs'), NEW j \in 1..Len(runs'), i < j
      PROVE  /\ runs'[i].caseSetHash \subseteq runs'[j].caseSetHash
             /\ runs'[i].agentVersion = runs'[j].agentVersion =>
                  runs'[i].caseSetHash # runs'[j].caseSetHash
  <2>1. i \in 1..Len(runs)
    BY <1>4, <1>8
  <2>2. CASE j \in 1..Len(runs)
    BY <1>4, <1>8, <2>1, <2>2 DEF RunsInv
  <2>3. CASE j = Len(runs) + 1
    BY <1>2, <1>4, <1>6, <2>1, <2>3 DEF RunsInv
  <2> QED
    BY <1>4, <2>2, <2>3
<1>9. Len(runs') <= MaxRuns
  BY <1>4, <1>5, ReleaseAssumption DEF ReleaseAssumption
<1> QED
  BY <1>4, <1>5, <1>7, <1>8, <1>9 DEF RunsInv

\* A proposal takes a version that there is.
LEMMA NextVersionIsAVersion ==
  ASSUME RunsInv, Len(runs) < MaxRuns
  PROVE  NextVersion \in Versions
<1> DEFINE f == [i \in 1..Len(runs) |-> runs[i].agentVersion]
           given == {runs[i].agentVersion : i \in DOMAIN runs}
<1>1. Len(runs) \in Nat /\ DOMAIN runs = 1..Len(runs)
  BY LenProperties DEF RunsInv
<1>2. f \in Surjection(1..Len(runs), given)
  BY <1>1 DEF Surjection
<1>3. IsFiniteSet(1..Len(runs)) /\ Cardinality(1..Len(runs)) = Len(runs)
  <2> DEFINE n == Len(runs)
  <2>1. n \in Int /\ 1 \in Int /\ n \in Nat
    BY <1>1
  <2> HIDE DEF n
  <2>2. IsFiniteSet(1..n) /\ Cardinality(1..n) = IF 1 > n THEN 0 ELSE n - 1 + 1
    BY <2>1, FS_Interval
  <2>3. IsFiniteSet(1..n) /\ Cardinality(1..n) = n
    BY <2>1, <2>2
  <2> QED
    BY <2>3 DEF n
<1>4. IsFiniteSet(given) /\ Cardinality(given) <= Len(runs)
  <2> HIDE DEF f, given
  <2> QED
    BY <1>2, <1>3, FS_Surjection
<1>5. Cardinality(given) \in Nat
  BY <1>4, FS_CardinalityType
<1> QED
  BY <1>1, <1>4, <1>5, ReleaseAssumption DEF NextVersion, Versions, ReleaseAssumption

\* What the gate's decision says of what it was given.
LEMMA DecisionSays ==
  ASSUME NEW submission, NEW current, NEW before, NEW judged
  PROVE  LET decision == EvaluateSubmission(submission, current, before, judged) IN
         /\ decision = "case-set-mismatch" => before # Null
         /\ Passes(decision) =>
              /\ CheckAutonomy(submission.patch, submission.knownTools)
              /\ \A a \in submission.minedArtifacts : ScreenMinedArtifact(a)
              /\ BaselinePassed(submission.baseline) /\ current.total # 0
              /\ ~JudgeCannotGate(judged)
         /\ decision = "ok" => /\ before # Null /\ before.caseSetHash = current.caseSetHash
                              /\ ~(current.passRate + Tolerance < before.passRate)
BY DEF EvaluateSubmission, Gate, Passes

\* The stored score of a version is a stored run of it.
LEMMA StoredScoreIsARun ==
  ASSUME RunsInv, NEW version, StoredScore(version) # Null
  PROVE  \E i \in 1..Len(runs) : StoredScore(version) = runs[i] /\ runs[i].agentVersion = version
BY NewestIsOwn DEF StoredScore, RunsOf

\* Scores are numbers.
LEMMA ScoresAreNatural ==
  ASSUME RunsInv, NEW i \in 1..Len(runs)
  PROVE  runs[i].passRate \in Nat /\ runs[i].total \in Nat
<1>1. runs[i] \in RunType
  BY LenProperties DEF RunsInv
<1>2. runs[i].passRate \in 0..100 /\ runs[i].total \in 0..Cardinality(Cases)
  BY <1>1 DEF RunType
<1>3. Cardinality(Cases) \in Nat
  BY ReleaseAssumption, FS_CardinalityType DEF ReleaseAssumption
<1>4. \A n \in Nat : \A x \in 0..n : x \in Nat
  OBVIOUS
<1>5. runs[i].passRate \in Nat
  BY <1>2, <1>4
<1>6. runs[i].total \in Nat
  BY <1>2, <1>3, <1>4, Zenon
<1> QED
  BY <1>5, <1>6

\* What is stored was scored on a golden set.
LEMMA RunsStep ==
  ASSUME RunsInv, ControlInv, [ReleaseNext]_releaseVars
  PROVE  RunsInv'
<1>1. CASE GoldenGrows
  BY <1>1 DEF GoldenGrows, RunsInv
<1>2. CASE Suggest \/ Assist \/ Submit \/ UNCHANGED releaseVars
  BY <1>2 DEF Suggest, Assist, Submit, releaseVars, RunsInv
<1>3. CASE ScoreCandidate
  BY <1>3, StoringKeepsRuns DEF ScoreCandidate, ControlInv
<1>4. CASE RescoreAfterMismatch
  <2>1. PICK version \in {prod, candidate.version} :
          StoredScore(version).caseSetHash # golden /\ StoreRun(version)
    BY <1>4 DEF RescoreAfterMismatch
  <2>2. version \in Versions /\ version # Null
    BY <1>4, <2>1, ReleaseAssumption
    DEF RescoreAfterMismatch, ControlInv, Versions, ReleaseAssumption
  <2> QED
    BY <2>1, <2>2, StoringKeepsRuns DEF StoredScore
<1> QED
  BY <1>1, <1>2, <1>3, <1>4 DEF ReleaseNext

\* What a submission went through stays with it, from the proposal to the release.
LEMMA ControlStep ==
  ASSUME RunsInv, ControlInv, [ReleaseNext]_releaseVars
  PROVE  ControlInv'
<1>1. ASSUME NEW submission, NEW suite, candidate = Null, Len(runs) < MaxRuns,
             Candidate(submission, suite), UNCHANGED <<prod, verdict>>
      PROVE  ControlInv'
  <2>1. candidate'.version \in Versions
    BY <1>1, NextVersionIsAVersion DEF Candidate
  <2>2. verdict # "case-set-mismatch"
    BY <1>1 DEF ControlInv
  <2> QED
    BY <1>1, <2>1, <2>2 DEF ControlInv
<1>2. CASE Suggest \/ Assist
  BY <1>1, <1>2 DEF Suggest, Assist
<1>3. CASE GoldenGrows \/ ScoreCandidate \/ RescoreAfterMismatch \/ UNCHANGED releaseVars
  BY <1>3
  DEF ControlInv, GoldenGrows, ScoreCandidate, RescoreAfterMismatch, StoreRun, releaseVars
<1>4. CASE Submit
  <2>0. PICK judged \in GatingJudges :
          LET decision == EvaluateSubmission(candidate, StoredScore(candidate.version),
                                             StoredScore(prod), judged)
          IN /\ prod' = IF Passes(decision) THEN candidate.version ELSE prod
             /\ candidate' = IF decision = "case-set-mismatch" THEN candidate ELSE Null
             /\ verdict' = IF decision = "case-set-mismatch" THEN decision ELSE Null
    BY <1>4 DEF Submit
  <2> DEFINE decision == EvaluateSubmission(candidate, StoredScore(candidate.version),
                                            StoredScore(prod), judged)
  <2>1. /\ candidate # Null
        /\ prod' = IF Passes(decision) THEN candidate.version ELSE prod
        /\ candidate' = IF decision = "case-set-mismatch" THEN candidate ELSE Null
        /\ verdict' = IF decision = "case-set-mismatch" THEN decision ELSE Null
    BY <1>4, <2>0 DEF Submit
  <2>2. decision = "case-set-mismatch" => StoredScore(prod) # Null
    BY DecisionSays
  <2>3. decision = "case-set-mismatch" => prod # Null /\ ~Passes(decision)
    BY <2>2 DEF StoredScore, Passes
  <2>4. Null # "case-set-mismatch"
    BY GateAssumption DEF GateAssumption, Reasons
  <2> HIDE DEF decision
  <2> QED
    BY <2>1, <2>3, <2>4 DEF ControlInv
<1> QED
  BY <1>2, <1>3, <1>4 DEF ReleaseNext

\* Every release was made on a stored run, the last one is in production, and the
\* releases are what they are to be.
ReleasedInv ==
  /\ \E S : released \in Seq(S)
  /\ \A i \in 1..Len(released) : \E j \in 1..Len(runs) : released[i].run = runs[j]
  /\ prod # Null => /\ Len(released) > 0
                    /\ released[Len(released)].run.agentVersion = prod
  /\ ReleasedThroughEveryCheck /\ NoRegressionReleased /\ DriftIsBounded

ReleaseInv == RunsInv /\ ControlInv /\ ReleasedInv

\* A release, as the properties of releases see it.
LEMMA SubmitReleases ==
  ASSUME ReleaseInv, Submit, released' # released
  PROVE  \E i \in 1..Len(runs), kind \in {"cold-start", "ok"} :
           /\ released' = Append(released, [run |-> runs[i], kind |-> kind])
           /\ runs[i].agentVersion = candidate.version /\ prod' = candidate.version
           /\ PassedEveryCheck(runs[i], shipped'.judge, shipped'.submission)
           /\ kind = "ok" =>
                /\ prod # Null
                /\ \E j \in 1..Len(runs) :
                     /\ runs[j].agentVersion = prod
                     /\ runs[j].caseSetHash = runs[i].caseSetHash
                     /\ runs[i].passRate + Tolerance >= runs[j].passRate
<1> DEFINE current == StoredScore(candidate.version)
           before == StoredScore(prod)
<1>0. PICK judged \in GatingJudges :
        LET decided == EvaluateSubmission(candidate, current, before, judged) IN
        IF Passes(decided)
        THEN /\ prod' = candidate.version
             /\ released' = Append(released, [run |-> current, kind |-> decided])
             /\ shipped' = [submission |-> candidate, judge |-> judged]
        ELSE released' = released
  BY DEF Submit
<1> DEFINE decision == EvaluateSubmission(candidate, current, before, judged)
<1>1. /\ Passes(decision) /\ prod' = candidate.version
      /\ released' = Append(released, [run |-> current, kind |-> decision])
      /\ shipped'.submission = candidate /\ shipped'.judge = judged
  BY <1>0
<1>2. PICK i \in 1..Len(runs) : current = runs[i] /\ runs[i].agentVersion = candidate.version
  <2>1. /\ Max(RunsOf(candidate.version)) \in RunsOf(candidate.version)
        /\ RunsOf(candidate.version) \subseteq 1..Len(runs)
    BY NewestIsOwn DEF Submit, ReleaseInv
  <2>2. candidate.version # Null
    BY ReleaseAssumption DEF Submit, ReleaseInv, ControlInv, Versions, ReleaseAssumption
  <2> QED
    BY <2>1, <2>2 DEF StoredScore, RunsOf, Submit
<1>3. PassedEveryCheck(runs[i], judged, candidate)
  <2>1. /\ CheckAutonomy(candidate.patch, candidate.knownTools)
        /\ \A a \in candidate.minedArtifacts : ScreenMinedArtifact(a)
        /\ BaselinePassed(candidate.baseline) /\ current.total # 0
        /\ ~JudgeCannotGate(judged)
    BY <1>1, DecisionSays
  <2>2. runs[i].total > 0
    <3>1. runs[i].total \in Nat
      BY ScoresAreNatural DEF ReleaseInv
    <3>2. runs[i].total # 0
      BY <1>2, <2>1
    <3> QED
      BY <3>1, <3>2
  <2> HIDE DEF current
  <2> QED
    BY <1>2, <2>1, <2>2
    DEF PassedEveryCheck, CheckAutonomy, ScreenMinedArtifact, Quarantined
<1>4. ASSUME decision = "ok"
      PROVE  /\ prod # Null
             /\ \E j \in 1..Len(runs) :
                  /\ runs[j].agentVersion = prod
                  /\ runs[j].caseSetHash = runs[i].caseSetHash
                  /\ runs[i].passRate + Tolerance >= runs[j].passRate
  <2>1. /\ before # Null /\ before.caseSetHash = current.caseSetHash
        /\ ~(current.passRate + Tolerance < before.passRate)
    BY <1>4, DecisionSays
  <2>2. PICK j \in 1..Len(runs) : before = runs[j] /\ runs[j].agentVersion = prod
    BY <2>1, StoredScoreIsARun DEF ReleaseInv
  <2>3. runs[i].passRate \in Nat /\ runs[j].passRate \in Nat
    BY <1>2, <2>2, ScoresAreNatural DEF ReleaseInv
  <2>4. prod # Null
    BY <2>1 DEF StoredScore
  <2> HIDE DEF current, before, decision
  <2>5. runs[j].caseSetHash = runs[i].caseSetHash
    BY <1>2, <2>1, <2>2
  <2>6. Tolerance \in Int
    BY GateAssumption DEF GateAssumption
  <2>7. ~(runs[i].passRate + Tolerance < runs[j].passRate)
    BY <1>2, <2>1, <2>2
  <2>8. runs[i].passRate + Tolerance >= runs[j].passRate
    <3> DEFINE a == runs[i].passRate
               b == runs[j].passRate
    <3>1. a \in Nat /\ b \in Nat /\ ~(a + Tolerance < b)
      BY <2>3, <2>7
    <3> HIDE DEF a, b
    <3>2. a + Tolerance >= b
      BY <2>6, <3>1
    <3> QED
      BY <3>2 DEF a, b
  <2> QED
    BY <2>2, <2>4, <2>5, <2>8
<1>5. decision \in {"cold-start", "ok"}
  BY <1>1 DEF Passes
<1> HIDE DEF current, before, decision
<1> QED
  BY <1>1, <1>2, <1>3, <1>4, <1>5

\* A score on the same set as the last release's is that release's own.
LEMMA OneScorePerSet ==
  ASSUME RunsInv, NEW i \in 1..Len(runs), NEW j \in 1..Len(runs),
         runs[i].agentVersion = runs[j].agentVersion,
         runs[i].caseSetHash = runs[j].caseSetHash
  PROVE  i = j
BY DEF RunsInv

\* The bound of one more release follows from that of its predecessor.
LEMMA OneMoreStep ==
  ASSUME NEW first \in Nat, NEW previous \in Nat, NEW next \in Nat,
         NEW i \in Nat, NEW n \in Nat, i <= n,
         previous + (n - i) * Tolerance >= first, next + Tolerance >= previous
  PROVE  next + (n + 1 - i) * Tolerance >= first
<1>1. PICK d \in Nat : d = n - i
  OBVIOUS
<1>2. (d + 1) * Tolerance = d * Tolerance + Tolerance /\ Tolerance \in Nat
      /\ d * Tolerance \in Nat
  BY GateAssumption DEF GateAssumption
<1>3. n + 1 - i = d + 1
  BY <1>1
<1> QED
  BY <1>1, <1>2, <1>3

\* Each release is within the tolerance of the one before it, where it was no cold
\* start.
LEMMA ReleasedStep ==
  ASSUME ReleaseInv, Submit, released' # released
  PROVE  ReleasedInv'
<1> DEFINE n == Len(released)
<1>1. PICK i \in 1..Len(runs), kind \in {"cold-start", "ok"} :
        /\ released' = Append(released, [run |-> runs[i], kind |-> kind])
        /\ runs[i].agentVersion = candidate.version /\ prod' = candidate.version
        /\ PassedEveryCheck(runs[i], shipped'.judge, shipped'.submission)
        /\ kind = "ok" =>
             /\ prod # Null
             /\ \E j \in 1..Len(runs) :
                  /\ runs[j].agentVersion = prod
                  /\ runs[j].caseSetHash = runs[i].caseSetHash
                  /\ runs[i].passRate + Tolerance >= runs[j].passRate
  BY SubmitReleases
<1>2. runs' = runs /\ DOMAIN runs = 1..Len(runs)
  BY LenProperties DEF Submit, ReleaseInv, RunsInv
<1> DEFINE r == [run |-> runs[i], kind |-> kind]
<1>3. PICK S : released \in Seq(S)
  BY DEF ReleaseInv, ReleasedInv
<1>4. /\ released' \in Seq(S \cup {r})
      /\ n \in Nat /\ Len(released') = n + 1
      /\ \A k \in 1..n : released'[k] = released[k]
      /\ released'[n + 1] = r
  BY <1>1, <1>3, AppendToAny
<1>5. DOMAIN released = 1..n /\ DOMAIN released' = 1..(n + 1)
  BY <1>3, <1>4, LenProperties
<1>6. r.run = runs[i] /\ r.kind = kind
  OBVIOUS
<1> HIDE DEF r, n
<1>7. \A k \in 1..Len(released') : \E j \in 1..Len(runs') : released'[k].run = runs'[j]
  <2>1. \A k \in 1..n : \E j \in 1..Len(runs) : released[k].run = runs[j]
    BY DEF ReleaseInv, ReleasedInv, n
  <2>2. ASSUME NEW k \in 1..(n + 1)
        PROVE  \E j \in 1..Len(runs) : released'[k].run = runs[j]
    <3>1. CASE k \in 1..n
      BY <1>4, <2>1, <3>1
    <3>2. CASE k = n + 1
      BY <1>4, <1>6, <3>2
    <3> QED
      BY <1>4, <3>1, <3>2
  <2> QED
    BY <1>2, <1>4, <2>2
<1>8. prod' # Null => /\ Len(released') > 0
                      /\ released'[Len(released')].run.agentVersion = prod'
  BY <1>1, <1>4, <1>6
<1>9. ReleasedThroughEveryCheck'
  BY <1>1, <1>4, <1>6 DEF ReleasedThroughEveryCheck
<1>10. NoRegressionReleased'
  <2> SUFFICES ASSUME NEW k \in 1..(n + 1), released'[k].kind = "ok"
               PROVE  k > 1 /\ \E j \in 1..Len(runs) :
                        /\ runs[j].agentVersion = released'[k - 1].run.agentVersion
                        /\ runs[j].caseSetHash = released'[k].run.caseSetHash
                        /\ released'[k].run.passRate + Tolerance >= runs[j].passRate
    BY <1>2, <1>5 DEF NoRegressionReleased
  <2>1. CASE k \in 1..n
    <3>1. k > 1 => k - 1 \in 1..n
      BY <1>4, <2>1
    <3>2. k > 1 /\ \E j \in 1..Len(runs) :
            /\ runs[j].agentVersion = released[k - 1].run.agentVersion
            /\ runs[j].caseSetHash = released[k].run.caseSetHash
            /\ released[k].run.passRate + Tolerance >= runs[j].passRate
      BY <1>2, <1>4, <1>5, <2>1 DEF ReleaseInv, ReleasedInv, NoRegressionReleased
    <3> QED
      BY <1>4, <2>1, <3>1, <3>2
  <2>2. CASE k = n + 1
    <3>1. prod # Null /\ n > 0 /\ released[n].run.agentVersion = prod
      BY <1>1, <1>4, <1>6, <2>2 DEF ReleaseInv, ReleasedInv, n
    <3>2. released'[n] = released[n] /\ k - 1 = n
      BY <1>4, <2>2, <3>1
    <3> QED
      BY <1>1, <1>4, <1>6, <2>2, <3>1, <3>2
  <2> QED
    BY <1>4, <2>1, <2>2
<1>11. DriftIsBounded'
  <2> SUFFICES ASSUME NEW a \in 1..(n + 1), NEW b \in 1..(n + 1), a < b,
                      \A k \in (a + 1)..b :
                        /\ released'[k].kind = "ok"
                        /\ released'[k].run.caseSetHash = released'[a].run.caseSetHash
               PROVE  released'[b].run.passRate + (b - a) * Tolerance
                        >= released'[a].run.passRate
    BY <1>5 DEF DriftIsBounded
  <2>1. a \in 1..n /\ released'[a] = released[a]
    BY <1>4
  <2>2. CASE b \in 1..n
    <3>1. \A k \in (a + 1)..b : released'[k] = released[k]
      BY <1>4, <2>1, <2>2
    <3>2. released[b].run.passRate + (b - a) * Tolerance >= released[a].run.passRate
      BY <1>5, <2>1, <2>2, <3>1 DEF ReleaseInv, ReleasedInv, DriftIsBounded
    <3> QED
      BY <1>4, <2>1, <2>2, <3>2
  <2>3. CASE b = n + 1
    <3>1. n > 0 /\ released[n].run.agentVersion = prod /\ n \in 1..n
      BY <1>1, <1>4, <1>6, <2>1, <2>3 DEF ReleaseInv, ReleasedInv, n
    <3>2. runs[i].caseSetHash = released[a].run.caseSetHash /\ kind = "ok"
      BY <1>4, <1>6, <2>1, <2>3
    <3>3. released[n].run.caseSetHash = released[a].run.caseSetHash
      BY <1>4, <2>1, <2>3
    <3>4. PICK j \in 1..Len(runs) :
            /\ runs[j].agentVersion = prod
            /\ runs[j].caseSetHash = runs[i].caseSetHash
            /\ runs[i].passRate + Tolerance >= runs[j].passRate
      BY <1>1, <3>2
    <3>5. released[n].run = runs[j]
      <4>1. PICK m \in 1..Len(runs) : released[n].run = runs[m]
        BY <3>1 DEF ReleaseInv, ReleasedInv, n
      <4> QED
        BY <3>1, <3>2, <3>3, <3>4, <4>1, OneScorePerSet DEF ReleaseInv
    <3>6. released[n].run.passRate + (n - a) * Tolerance >= released[a].run.passRate
      <4>1. CASE a = n
        <5>1. released[n].run.passRate \in Nat /\ (n - a) * Tolerance = 0
          BY <1>4, <3>5, <4>1, ScoresAreNatural, GateAssumption DEF ReleaseInv, GateAssumption
        <5> QED
          BY <4>1, <5>1
      <4>2. CASE a < n
        <5>1. \A k \in (a + 1)..n : released'[k] = released[k] /\ k \in (a + 1)..b
          BY <1>4, <2>1, <2>3
        <5> QED
          BY <1>5, <2>1, <3>1, <4>2, <5>1 DEF ReleaseInv, ReleasedInv, DriftIsBounded
      <4> QED
        BY <1>4, <2>1, <4>1, <4>2
    <3>7. /\ released[a].run.passRate \in Nat /\ runs[j].passRate \in Nat
          /\ runs[i].passRate \in Nat
      <4>1. PICK m \in 1..Len(runs) : released[a].run = runs[m]
        BY <2>1 DEF ReleaseInv, ReleasedInv, n
      <4> QED
        BY <4>1, ScoresAreNatural DEF ReleaseInv
    <3>8. runs[i].passRate + (n + 1 - a) * Tolerance >= released[a].run.passRate
      <4>1. a \in Nat /\ a <= n
        BY <1>4, <2>1
      <4> QED
        BY <1>4, <3>4, <3>5, <3>6, <3>7, <4>1, OneMoreStep
    <3> QED
      BY <1>4, <1>6, <2>1, <2>3, <3>8
  <2> QED
    BY <1>4, <2>2, <2>3
<1> QED
  BY <1>4, <1>7, <1>8, <1>9, <1>10, <1>11 DEF ReleasedInv

\* The other steps release nothing, and a release is never taken back.
LEMMA NothingReleased ==
  ASSUME ReleaseInv, [ReleaseNext]_releaseVars, released' = released
  PROVE  ReleasedInv'
<1>1. prod' = prod /\ shipped' = shipped
  <2>1. CASE Submit
    <3>1. PICK judged \in GatingJudges :
            LET decided == EvaluateSubmission(candidate, StoredScore(candidate.version),
                                              StoredScore(prod), judged)
            IN IF Passes(decided)
               THEN released' = Append(released, [run |-> StoredScore(candidate.version),
                                                  kind |-> decided])
               ELSE UNCHANGED <<prod, shipped>>
      BY <2>1 DEF Submit
    <3> DEFINE decision == EvaluateSubmission(candidate, StoredScore(candidate.version),
                                              StoredScore(prod), judged)
    <3>2. ASSUME Passes(decision) PROVE FALSE
      <4>1. released' = Append(released, [run |-> StoredScore(candidate.version),
                                          kind |-> decision])
        BY <3>1, <3>2
      <4>2. Len(released') = Len(released) + 1 /\ Len(released) \in Nat
        <5>1. PICK S : released \in Seq(S)
          BY DEF ReleaseInv, ReleasedInv
        <5> QED
          BY <4>1, <5>1, AppendToAny
      <4> QED
        BY <4>2
    <3> QED
      BY <3>1, <3>2
  <2>2. CASE ~Submit
    BY <2>2 DEF ReleaseNext, GoldenGrows, Suggest, Assist, ScoreCandidate,
                RescoreAfterMismatch, StoreRun, releaseVars
  <2> QED
    BY <2>1, <2>2
<1>2. PICK S : released \in Seq(S)
  BY DEF ReleaseInv, ReleasedInv
<1>3. /\ DOMAIN runs = 1..Len(runs) /\ Len(runs) \in Nat
      /\ \A i \in 1..Len(runs) : i \in 1..Len(runs') /\ i \in DOMAIN runs' /\ runs'[i] = runs[i]
  <2>1. runs \in Seq(RunType) /\ DOMAIN runs = 1..Len(runs) /\ Len(runs) \in Nat
    BY LenProperties DEF ReleaseInv, RunsInv
  <2>2. CASE runs' = runs
    BY <2>1, <2>2
  <2>3. ASSUME NEW version, StoreRun(version)
        PROVE  \A i \in 1..Len(runs) :
                 i \in 1..Len(runs') /\ i \in DOMAIN runs' /\ runs'[i] = runs[i]
    <3>1. PICK r : runs' = Append(runs, r)
      BY <2>3 DEF StoreRun
    <3>2. /\ runs' \in Seq(RunType \cup {r}) /\ Len(runs') = Len(runs) + 1
          /\ \A i \in 1..Len(runs) : runs'[i] = runs[i]
      BY <2>1, <3>1, AppendToAny
    <3>3. DOMAIN runs' = 1..Len(runs')
      BY <3>2, LenProperties
    <3> QED
      BY <2>1, <3>2, <3>3
  <2> QED
    BY <2>1, <2>2, <2>3 DEF ReleaseNext, GoldenGrows, Suggest, Assist, ScoreCandidate,
                            RescoreAfterMismatch, Submit, releaseVars
<1>4. \A i \in 1..Len(released) : \E j \in 1..Len(runs') : released[i].run = runs'[j]
  BY <1>3 DEF ReleaseInv, ReleasedInv
<1>5. NoRegressionReleased'
  <2>1. \A i \in DOMAIN released : released[i].kind = "ok" =>
          i > 1 /\ \E j \in DOMAIN runs' :
            /\ runs'[j].agentVersion = released[i - 1].run.agentVersion
            /\ runs'[j].caseSetHash = released[i].run.caseSetHash
            /\ released[i].run.passRate + Tolerance >= runs'[j].passRate
    BY <1>3 DEF ReleaseInv, ReleasedInv, NoRegressionReleased
  <2> QED
    BY <2>1 DEF NoRegressionReleased
<1>6. ReleasedThroughEveryCheck' /\ DriftIsBounded'
  BY <1>1 DEF ReleaseInv, ReleasedInv, ReleasedThroughEveryCheck, DriftIsBounded
<1> QED
  BY <1>1, <1>2, <1>4, <1>5, <1>6 DEF ReleaseInv, ReleasedInv

\* The three parts together are inductive.
LEMMA ReleaseInvariant == ReleaseSpec => []ReleaseInv
<1>1. ReleaseInit => ReleaseInv
  <2> SUFFICES ASSUME ReleaseInit
               PROVE  ReleaseInv
    OBVIOUS
  <2>1. /\ golden = {} /\ runs = <<>> /\ prod = Null /\ candidate = Null
        /\ verdict = Null /\ released = <<>> /\ shipped = Null
    BY DEF ReleaseInit
  <2>2. RunsInv
    BY <2>1, EmptySeq, ReleaseAssumption DEF RunsInv, ReleaseAssumption
  <2>3. ControlInv
    BY <2>1, GateAssumption DEF ControlInv, GateAssumption, Reasons
  <2>4. (\E S : released \in Seq(S)) /\ DOMAIN released = {} /\ Len(released) = 0
    BY <2>1, EmptySeq
  <2> QED
    BY <2>1, <2>2, <2>3, <2>4
    DEF ReleaseInv, ReleasedInv, ReleasedThroughEveryCheck, NoRegressionReleased, DriftIsBounded
<1>2. ReleaseInv /\ [ReleaseNext]_releaseVars => ReleaseInv'
  BY RunsStep, ControlStep, ReleasedStep, NothingReleased
  DEF ReleaseInv, ReleaseNext, GoldenGrows, Suggest, Assist, ScoreCandidate,
      RescoreAfterMismatch, StoreRun, releaseVars
<1> QED
  BY <1>1, <1>2, PTL DEF ReleaseSpec

\* The release train stays in its types, for any versions, cases and runs.
THEOREM ReleaseTypeCorrect == ReleaseSpec => []ReleaseTypeOK
<1>1. ReleaseInv => ReleaseTypeOK
  <2> SUFFICES ASSUME RunsInv, ControlInv
               PROVE  ReleaseTypeOK
    BY DEF ReleaseInv
  <2>1. \A i \in DOMAIN runs : runs[i] \in RunType
    BY LenProperties DEF RunsInv
  <2> QED
    BY <2>1 DEF RunsInv, ControlInv, ReleaseTypeOK, RunType
<1> QED
  BY <1>1, ReleaseInvariant, PTL

\* What is in production was scored itself, on a set that is not empty and by code or a
\* judge that may gate, passed the baseline and the screens of its patch and of the
\* artifacts it came with, for any patches (with the names of the tools or without),
\* versions, golden sets, judges and interleavings of scoring, mining and releasing.
THEOREM ReleasedThroughEveryCheckHolds == ReleaseSpec => []ReleasedThroughEveryCheck
BY ReleaseInvariant, PTL DEF ReleaseInv, ReleasedInv

\* A release that was no cold start is within the tolerance of a stored run of the
\* version it replaced on the very set it was scored on, for any tolerance.
THEOREM NoRegressionReleasedHolds == ReleaseSpec => []NoRegressionReleased
BY ReleaseInvariant, PTL DEF ReleaseInv, ReleasedInv

\* Along releases on one set the pass rate falls by at most the tolerance each, so by
\* at most (j - i) tolerances between two of them, for any number of releases.
THEOREM DriftIsBoundedHolds == ReleaseSpec => []DriftIsBounded
BY ReleaseInvariant, PTL DEF ReleaseInv, ReleasedInv

-----------------------------------------------------------------------------
\* A run of the change on these cases, decided against this stored run.
Decided(cases, before) ==
  {[run |-> Run(rankings), pass |-> RetrievalGate(Run(rankings), before)] :
     rankings \in [cases -> Rankings]}

ChangeInv == change \in Seq(Decided(caseSet, prior))

\* The runs of a change were decided against the run that is stored.
LEMMA ChangeStep ==
  ASSUME ChangeInv, [RetrievalNext]_retrievalVars
  PROVE  ChangeInv'
<1> USE DEF ChangeInv
<1>1. CASE CasesGrow
  <2>1. change' = <<>>
    BY <1>1 DEF CasesGrow
  <2> QED
    BY <2>1, EmptySeq
<1>2. CASE RunHarness
  <2>1. PICK rankings \in [caseSet -> Rankings] :
          change' = Append(change, [run |-> Run(rankings),
                                    pass |-> RetrievalGate(Run(rankings), prior)])
    BY <1>2 DEF RunHarness
  <2>2. [run |-> Run(rankings), pass |-> RetrievalGate(Run(rankings), prior)]
          \in Decided(caseSet, prior)
    BY DEF Decided
  <2>3. caseSet' = caseSet /\ prior' = prior
    BY <1>2 DEF RunHarness
  <2>4. change' \in Seq(Decided(caseSet, prior))
    BY <2>1, <2>2, AppendProperties
  <2> QED
    BY <2>3, <2>4
<1>3. CASE Ship \/ GiveUp
  <2>1. change' = <<>>
    BY <1>3 DEF Ship, GiveUp
  <2> QED
    BY <2>1, EmptySeq
<1>4. CASE UNCHANGED retrievalVars
  BY <1>4 DEF retrievalVars
<1> QED
  BY <1>1, <1>2, <1>3, <1>4 DEF RetrievalNext

\* A change ships with its third run in a row within the tolerance.
LEMMA ShipsAfterThree ==
  ASSUME ChangeInv, Ship
  PROVE  LET n == Len(change) IN
         /\ n >= 3 /\ caseSet # {} /\ prior' = change[n].run
         /\ \A i \in (n - 2)..n :
              prior = NoRun \/ change[i].run.recall + RecallTolerance >= prior.recall
<1> DEFINE passes == [i \in DOMAIN change |-> change[i].pass]
           n == Len(change)
<1>1. n \in Nat /\ DOMAIN change = 1..n
      /\ \A i \in 1..n : change[i] \in Decided(caseSet, prior)
  BY LenProperties DEF ChangeInv
<1>2. Len(passes) = n
  BY <1>1
<1>3. n >= 3 /\ \A i \in (n - 2)..n : change[i].pass
  <2>1. Len(passes) >= 3 /\ \A i \in (Len(passes) - 2)..Len(passes) : passes[i]
    BY DEF Ship, PassCubed
  <2>2. n >= 3 /\ \A i \in (n - 2)..n : passes[i]
    <3> HIDE DEF passes, n
    <3> QED
      BY <1>2, <2>1
  <2>3. \A i \in (n - 2)..n : i \in DOMAIN change
    BY <1>1, <2>2
  <2> QED
    BY <2>2, <2>3
<1>4. ASSUME NEW i \in (n - 2)..n
      PROVE  /\ prior = NoRun \/ change[i].run.recall + RecallTolerance >= prior.recall
             /\ Cardinality(caseSet) > 0
  <2>1. i \in 1..n
    BY <1>1, <1>3
  <2>2. PICK rankings \in [caseSet -> Rankings] :
          change[i] = [run |-> Run(rankings), pass |-> RetrievalGate(Run(rankings), prior)]
    BY <1>1, <2>1 DEF Decided
  <2>3. RetrievalGate(Run(rankings), prior) /\ change[i].run = Run(rankings)
    BY <1>3, <2>2
  <2>4. Run(rankings).n = Cardinality(caseSet)
    BY DEF Run
  <2> QED
    BY <2>3, <2>4 DEF RetrievalGate
<1>5. caseSet # {}
  <2>1. Cardinality(caseSet) > 0
    BY <1>1, <1>3, <1>4
  <2> QED
    BY <2>1, FS_EmptySet
<1>6. prior' = change[n].run
  BY DEF Ship, Last
<1> QED
  BY <1>3, <1>4, <1>5, <1>6

\* A retrieval change that ships has been within the tolerance of what it replaces for
\* three runs on end, of which the last one is stored, for any cases, rankings,
\* tolerance and history of failed runs.
THEOREM ShippedHeldUpThriceHolds == RetrievalSpec => ShippedHeldUpThrice
<1>1. RetrievalInit => ChangeInv
  BY EmptySeq DEF RetrievalInit, ChangeInv
<1>2. ChangeInv /\ [RetrievalNext]_retrievalVars => ChangeInv'
  BY ChangeStep
<1>3. ChangeInv /\ [RetrievalNext]_retrievalVars =>
        [caseSet' = caseSet /\ prior' # prior =>
           LET n == Len(change) IN
           /\ n >= 3 /\ caseSet # {} /\ prior' = change[n].run
           /\ \A i \in (n - 2)..n :
                prior = NoRun \/ change[i].run.recall + RecallTolerance >= prior.recall
        ]_retrievalVars
  <2>1. CasesGrow => caseSet' # caseSet
    BY DEF CasesGrow
  <2>2. RunHarness \/ GiveUp \/ UNCHANGED retrievalVars => prior' = prior
    BY DEF RunHarness, GiveUp, retrievalVars
  <2> QED
    BY <2>1, <2>2, ShipsAfterThree DEF RetrievalNext
<1> QED
  BY <1>1, <1>2, <1>3, PTL DEF RetrievalSpec, ShippedHeldUpThrice

-----------------------------------------------------------------------------
(* The ideal ranking.                                                      *)

Graded(grade) == {m \in DOMAIN grade : grade[m] > 0}

Above(grade, g) == {m \in Graded(grade) : grade[m] > g}

NoWorse(grade, g) == {m \in Graded(grade) : grade[m] >= g}

\* Every position of the ideal ranking has its grade: the best of those that enough
\* memories reach.
LEMMA IdealGradeIs ==
  ASSUME NEW grade, grade \in [DOMAIN grade -> Nat], IsFiniteSet(DOMAIN grade),
         NEW i \in 1..Cardinality(Graded(grade))
  PROVE  /\ IdealGrades(grade)[i] \in Nat
         /\ Cardinality(Above(grade, IdealGrades(grade)[i])) < i
         /\ i <= Cardinality(NoWorse(grade, IdealGrades(grade)[i]))
<1> DEFINE graded == Graded(grade)
           Fits(g) == /\ Cardinality(Above(grade, g)) < i
                      /\ i <= Cardinality(NoWorse(grade, g))
           reached == {m \in graded : i <= Cardinality(NoWorse(grade, grade[m]))}
<1>1. /\ IsFiniteSet(graded) /\ Cardinality(graded) \in Nat
      /\ \A m \in graded : grade[m] \in Nat
      /\ graded # {} /\ i \in Nat /\ i <= Cardinality(graded) /\ 0 < i
  BY FS_Subset, FS_CardinalityType, FS_EmptySet DEF Graded
<1>2. reached # {}
  <2>1. PICK m \in graded : \A x \in graded : grade[m] <= grade[x]
    <3> HIDE DEF graded
    <3> QED
      BY <1>1, LeastValue
  <2>2. NoWorse(grade, grade[m]) = graded
    BY <1>1, <2>1 DEF NoWorse
  <2> QED
    BY <1>1, <2>2
<1>3. PICK m \in reached :
        \A x \in reached : Cardinality(NoWorse(grade, grade[m]))
                             <= Cardinality(NoWorse(grade, grade[x]))
  <2> DEFINE count == [x \in reached |-> Cardinality(NoWorse(grade, grade[x]))]
  <2>1. \A x \in reached : count[x] \in Nat
    <3>1. \A x \in reached : NoWorse(grade, grade[x]) \in SUBSET graded
      BY DEF NoWorse
    <3> HIDE DEF reached, graded
    <3> QED
      BY <1>1, <3>1, FS_Subset, FS_CardinalityType
  <2>2. PICK x \in reached : \A y \in reached : count[x] <= count[y]
    <3> HIDE DEF reached, count
    <3> QED
      BY <1>2, <2>1, LeastValue
  <2> QED
    BY <2>2
<1>4. m \in graded /\ i <= Cardinality(NoWorse(grade, grade[m]))
  OBVIOUS
<1> DEFINE above == Above(grade, grade[m])
<1>5. /\ above \in SUBSET graded /\ IsFiniteSet(above) /\ Cardinality(above) \in Nat
      /\ IsFiniteSet(NoWorse(grade, grade[m]))
      /\ Cardinality(NoWorse(grade, grade[m])) \in Nat
  <2>1. above \in SUBSET graded /\ NoWorse(grade, grade[m]) \in SUBSET graded
    BY DEF Above, NoWorse
  <2> HIDE DEF above, graded
  <2> QED
    BY <1>1, <2>1, FS_Subset, FS_CardinalityType
<1>6. Cardinality(above) < i
  <2> SUFFICES ASSUME i <= Cardinality(above)
               PROVE  FALSE
    BY <1>1, <1>5
  <2>1. above # {}
    <3> HIDE DEF above
    <3> QED
      BY <1>1, <1>5, FS_EmptySet
  <2>2. PICK w \in above : \A x \in above : grade[w] <= grade[x]
    <3> HIDE DEF above, graded
    <3> QED
      BY <1>1, <1>5, <2>1, LeastValue
  <2>3. NoWorse(grade, grade[w]) = above
    BY <1>1, <1>4, <2>2 DEF NoWorse, Above
  <2>4. w \in reached
    BY <1>5, <2>3
  <2>5. Cardinality(NoWorse(grade, grade[m])) <= Cardinality(above)
    BY <1>3, <2>3, <2>4
  <2>6. above \in SUBSET NoWorse(grade, grade[m]) /\ m \in NoWorse(grade, grade[m]) /\ m \notin above
    BY <1>1, <1>4 DEF NoWorse, Above
  <2>7. Cardinality(above) < Cardinality(NoWorse(grade, grade[m]))
    <3> HIDE DEF above
    <3>1. above # NoWorse(grade, grade[m])
      BY <2>6
    <3>2. Cardinality(above) <= Cardinality(NoWorse(grade, grade[m]))
          /\ Cardinality(above) # Cardinality(NoWorse(grade, grade[m]))
      BY <1>5, <2>6, <3>1, FS_Subset
    <3> QED
      BY <1>5, <3>2
  <2> HIDE DEF above
  <2> QED
    BY <1>5, <2>5, <2>7
<1>7. Fits(grade[m]) /\ grade[m] \in {grade[x] : x \in graded}
  BY <1>4, <1>6
<1>8. IdealGrades(grade)[i] = CHOOSE g \in {grade[x] : x \in graded} : Fits(g)
  BY DEF IdealGrades, Graded, Above, NoWorse
<1>9. IdealGrades(grade)[i] \in {grade[x] : x \in graded} /\ Fits(IdealGrades(grade)[i])
  <2> HIDE DEF Fits, graded
  <2> QED
    BY <1>7, <1>8
<1> QED
  BY <1>1, <1>9

\* The ideal grades, and zero from there on.
IdealOrZero(grade) ==
  [i \in Nat |-> IF i \in 1..Cardinality(Graded(grade)) THEN IdealGrades(grade)[i] ELSE 0]

\* No memories have more to gain than as many of the ideal ranking: of any of them the
\* least relevant is no better than the last of these.
LEMMA IdealGainsMost ==
  ASSUME NEW grade, grade \in [DOMAIN grade -> Nat], IsFiniteSet(DOMAIN grade),
         NEW S \in SUBSET DOMAIN grade
  PROVE  SumFunctionOnSet(grade, S)
           <= SumFunctionOnSet(IdealOrZero(grade), 1..Cardinality(S))
<1> DEFINE ideal == IdealOrZero(grade)
           Good == {T \in SUBSET (DOMAIN grade) :
                      SumFunctionOnSet(grade, T) <= SumFunctionOnSet(ideal, 1..Cardinality(T))}
<1>1. \A i \in Nat : ideal[i] \in Nat
  BY IdealGradeIs DEF IdealOrZero
<1>2. ASSUME NEW T \in SUBSET (DOMAIN grade), \A x \in T : T \ {x} \in Good
      PROVE  T \in Good
  <2> DEFINE j == Cardinality(T)
  <2>1. IsFiniteSet(T) /\ j \in Nat /\ (j = 0 <=> T = {})
    BY FS_Subset, FS_CardinalityType, FS_EmptySet
  <2>2. CASE T = {}
    <3>1. SumFunctionOnSet(grade, {}) = 0
      BY SumChooses, FS_EmptySet
    <3>2. SumFunctionOnSet(ideal, 1..0) = 0
      <4>1. 0 \in Nat /\ \A i \in 1..0 : ideal[i] \in Int
        BY <1>1
      <4> HIDE DEF ideal
      <4> QED
        BY ONLY <4>1, SumOfFirst
    <3>3. j = 0
      BY <2>1, <2>2
    <3> QED
      BY <2>2, <3>1, <3>2, <3>3
  <2>3. CASE T # {}
    <3>1. PICK x \in T : \A y \in T : grade[x] <= grade[y]
      BY <2>3, LeastValue
    <3> DEFINE rest == T \ {x}
    <3>2. rest \in Good /\ Cardinality(rest) = j - 1 /\ j - 1 \in Nat
      <4>1. j # 0
        BY <2>1
      <4> QED
        BY <1>2, <2>1, <4>1, FS_RemoveElement
    <3>3. /\ SumFunctionOnSet(grade, T) = grade[x] + SumFunctionOnSet(grade, rest)
          /\ SumFunctionOnSet(grade, T) \in Int /\ SumFunctionOnSet(grade, rest) \in Int
          /\ grade[x] \in Nat
      <4>1. \A y \in DOMAIN grade : grade[y] \in Int
        OBVIOUS
      <4>2. rest \in SUBSET (DOMAIN grade)
        OBVIOUS
      <4> HIDE DEF rest
      <4>3. SumFunctionOnSet(grade, T) \in Int /\ SumFunctionOnSet(grade, rest) \in Int
        BY <4>1, <4>2, SumType
      <4> QED
        BY <4>1, <4>3, SumOfOneAndOthers DEF rest
    <3>4. /\ SumFunctionOnSet(ideal, 1..j) = ideal[j] + SumFunctionOnSet(ideal, 1..(j - 1))
          /\ SumFunctionOnSet(ideal, 1..j) \in Int /\ SumFunctionOnSet(ideal, 1..(j - 1)) \in Int
      <4>1. \A i \in 1..j : ideal[i] \in Int
        BY <1>1, <2>1
      <4>2. j \in 1..j /\ (j - 1 = 0 \/ j - 1 \in 1..j)
        BY <2>1, <3>2
      <4> HIDE DEF ideal, j
      <4> QED
        BY <2>1, <4>1, <4>2, SumOfFirst
    <3>5. grade[x] <= ideal[j]
      <4>1. CASE grade[x] = 0
        <5>1. ideal[j] \in Nat
          BY <1>1, <2>1
        <5> HIDE DEF ideal, j
        <5> QED
          BY <4>1, <5>1
      <4>2. CASE grade[x] # 0
        <5>1. T \in SUBSET Graded(grade)
          BY <3>1, <3>3, <4>2 DEF Graded
        <5>2. IsFiniteSet(Graded(grade)) /\ Cardinality(Graded(grade)) \in Nat
          BY FS_Subset, FS_CardinalityType DEF Graded
        <5>3. j <= Cardinality(Graded(grade))
          BY <5>1, <5>2, FS_Subset
        <5>4. j \in 1..Cardinality(Graded(grade))
          <6> HIDE DEF j
          <6> QED
            BY <2>1, <3>2, <5>2, <5>3
        <5>5. ideal[j] = IdealGrades(grade)[j] /\ ideal[j] \in Nat
          BY <1>1, <2>1, <5>4 DEF IdealOrZero
        <5>6. Cardinality(Above(grade, ideal[j])) < j
          BY <5>4, <5>5, IdealGradeIs
        <5> SUFFICES ASSUME ideal[j] < grade[x]
                     PROVE  FALSE
          BY <3>3, <5>5
        <5>7. T \in SUBSET Above(grade, ideal[j])
          BY <3>1, <3>3, <5>1, <5>5 DEF Above
        <5>8. IsFiniteSet(Above(grade, ideal[j])) /\ Cardinality(Above(grade, ideal[j])) \in Nat
          BY <5>2, FS_Subset, FS_CardinalityType DEF Above
        <5>9. Cardinality(T) <= Cardinality(Above(grade, ideal[j]))
          BY <5>7, <5>8, FS_Subset
        <5> HIDE DEF ideal
        <5> QED
          BY <2>1, <5>6, <5>8, <5>9
      <4> QED
        BY <4>1, <4>2
    <3>6. SumFunctionOnSet(grade, rest) <= SumFunctionOnSet(ideal, 1..(j - 1))
      <4> HIDE DEF ideal, j
      <4> QED
        BY <3>2
    <3>7. ideal[j] \in Nat
      BY <1>1, <2>1
    <3>8. SumFunctionOnSet(grade, T) <= SumFunctionOnSet(ideal, 1..j)
      <4> HIDE DEF ideal, j, rest, Good
      <4> QED
        BY <3>3, <3>4, <3>5, <3>6, <3>7
    <3> QED
      BY <3>8
  <2> QED
    BY <2>2, <2>3
<1>3. S \in Good
  <2> HIDE DEF Good
  <2> QED
    BY <1>2, BySubsets
<1> QED
  BY <1>3

-----------------------------------------------------------------------------
(* The gain of a ranking, position by position.                            *)

Weighted(g, k) ==
  CASE k = 1 -> 1000 * g[1]
    [] k = 2 -> 1000 * g[1] + 631 * g[2]
    [] k = 3 -> 1000 * g[1] + 631 * g[2] + 500 * g[3]
    [] k = 4 -> 1000 * g[1] + 631 * g[2] + 500 * g[3] + 431 * g[4]

\* The sum of up to four terms, written out.
LEMMA SumOfFour ==
  ASSUME NEW k \in 1..4, NEW f, \A i \in 1..k : f[i] \in Int
  PROVE  /\ k = 1 => SumFunctionOnSet(f, 1..k) = f[1]
         /\ k = 2 => SumFunctionOnSet(f, 1..k) = f[1] + f[2]
         /\ k = 3 => SumFunctionOnSet(f, 1..k) = f[1] + f[2] + f[3]
         /\ k = 4 => SumFunctionOnSet(f, 1..k) = f[1] + f[2] + f[3] + f[4]
<1> DEFINE G(i) == SumFunctionOnSet(f, 1..i)
<1>1. /\ G(0) = 0
      /\ \A i \in 1..k : G(i) \in Int /\ G(i) = f[i] + G(i - 1)
  BY SumOfFirst
<1> HIDE DEF G
<1>2. G(1) = f[1]
  <2>1. 1 \in 1..k /\ 1 - 1 = 0
    OBVIOUS
  <2>2. G(1) = f[1] + G(0)
    BY <1>1, <2>1
  <2> QED
    BY <1>1, <2>1, <2>2
<1>3. k >= 2 => G(2) = f[1] + f[2]
  <2>1. k >= 2 => 2 \in 1..k /\ 2 - 1 = 1
    OBVIOUS
  <2>2. 1 \in 1..k
    OBVIOUS
  <2> QED
    BY <1>1, <1>2, <2>1, <2>2
<1>4. k >= 3 => G(3) = f[1] + f[2] + f[3]
  <2>1. k >= 3 => 3 \in 1..k /\ 3 - 1 = 2 /\ 2 \in 1..k
    OBVIOUS
  <2>2. 1 \in 1..k
    OBVIOUS
  <2> QED
    BY <1>1, <1>3, <2>1, <2>2
<1>5. k >= 4 => G(4) = f[1] + f[2] + f[3] + f[4]
  <2>1. k >= 4 => 4 \in 1..k /\ 4 - 1 = 3 /\ 3 \in 1..k /\ 2 \in 1..k
    OBVIOUS
  <2>2. 1 \in 1..k
    OBVIOUS
  <2> QED
    BY <1>1, <1>4, <2>1, <2>2
<1>6. /\ k = 1 => G(k) = f[1]
      /\ k = 2 => G(k) = f[1] + f[2]
      /\ k = 3 => G(k) = f[1] + f[2] + f[3]
      /\ k = 4 => G(k) = f[1] + f[2] + f[3] + f[4]
  BY <1>2, <1>3, <1>4, <1>5
<1> QED
  BY <1>6 DEF G

\* The discounts of the first four positions.
LEMMA DiscountIs ==
  /\ Discount[1] = 1000 /\ Discount[2] = 631 /\ Discount[3] = 500 /\ Discount[4] = 431
  /\ \A i \in 1..4 : Discount[i] \in Nat
  /\ Len(Discount) = 4
<1>1. Discount = <<1000, 631, 500, 431>>
  BY DEF Discount
<1>2. \A i \in 1..4 : i = 1 \/ i = 2 \/ i = 3 \/ i = 4
  OBVIOUS
<1> QED
  BY <1>1, <1>2

\* A discounted sum, written out.
LEMMA SumOfDiscounted ==
  ASSUME NEW k \in 1..4, NEW g, \A i \in 1..k : g[i] \in Nat,
         NEW f, \A i \in 1..k : f[i] = g[i] * Discount[i]
  PROVE  SumFunctionOnSet(f, 1..k) = Weighted(g, k)
<1>1. \A i \in 1..k : i \in 1..4 /\ f[i] \in Int
  <2>1. \A a, b \in Nat : a * b \in Int
    OBVIOUS
  <2>2. \A i \in 1..k : i \in 1..4
    OBVIOUS
  <2> QED
    BY <2>1, <2>2, DiscountIs
<1>2. /\ f[1] = 1000 * g[1] /\ (k >= 2 => f[2] = 631 * g[2])
      /\ (k >= 3 => f[3] = 500 * g[3]) /\ (k >= 4 => f[4] = 431 * g[4])
  <2>1. 1 \in 1..k /\ (k >= 2 => 2 \in 1..k) /\ (k >= 3 => 3 \in 1..k) /\ (k >= 4 => 4 \in 1..k)
    OBVIOUS
  <2> QED
    BY <2>1, DiscountIs
<1>3. k = 1 \/ k = 2 \/ k = 3 \/ k = 4
  OBVIOUS
<1> DEFINE total == SumFunctionOnSet(f, 1..k)
<1>4. /\ k = 1 => total = f[1]
      /\ k = 2 => total = f[1] + f[2]
      /\ k = 3 => total = f[1] + f[2] + f[3]
      /\ k = 4 => total = f[1] + f[2] + f[3] + f[4]
  BY <1>1, SumOfFour
<1> HIDE DEF total
<1>5. total = Weighted(g, k)
  BY <1>2, <1>3, <1>4 DEF Weighted
<1> QED
  BY <1>5 DEF total

\* A discounted gain up to a position of the ranking, written out.
LEMMA DcgIs ==
  ASSUME NEW n \in Nat, NEW g, DOMAIN g = 1..n, NEW k \in 1..n, k <= 4,
         \A i \in 1..k : g[i] \in Nat
  PROVE  Dcg(g, k) = Weighted(g, k)
<1> DEFINE f == [i \in DOMAIN g |-> g[i] * Discount[i]]
<1>1. {i \in DOMAIN g : i <= k} = 1..k /\ k \in 1..4
  OBVIOUS
<1>2. \A i \in 1..k : f[i] = g[i] * Discount[i]
  OBVIOUS
<1>3. Dcg(g, k) = SumFunctionOnSet(f, 1..k)
  BY <1>1 DEF Dcg
<1> HIDE DEF f
<1> QED
  BY <1>1, <1>2, <1>3, SumOfDiscounted

\* That of the ideal ranking too, which may be shorter.
LEMMA IdealDcgIs ==
  ASSUME NEW grade, grade \in [DOMAIN grade -> Nat], IsFiniteSet(DOMAIN grade), NEW k \in 1..4
  PROVE  /\ Dcg(IdealGrades(grade), k) = Weighted(IdealOrZero(grade), k)
         /\ \A i \in Nat : IdealOrZero(grade)[i] \in Nat
<1> DEFINE n == Cardinality(Graded(grade))
           best == IdealGrades(grade)
           ideal == IdealOrZero(grade)
           f == [i \in DOMAIN best |-> best[i] * Discount[i]]
           h == [i \in 1..k |-> ideal[i] * Discount[i]]
           R == {i \in DOMAIN best : i <= k}
<1>1. \A i \in Nat : ideal[i] \in Nat
  BY IdealGradeIs DEF IdealOrZero
<1>2. n \in Nat /\ DOMAIN best = 1..n
  BY FS_Subset, FS_CardinalityType DEF Graded, IdealGrades
<1>3. R \in SUBSET (1..k) /\ IsFiniteSet(1..k)
  <2>1. IsFiniteSet(1..k)
    BY FS_Interval
  <2> HIDE DEF best
  <2> QED
    BY <1>2, <2>1
<1>4. \A i \in 1..k : h[i] = ideal[i] * Discount[i] /\ h[i] \in Int
  <2>1. \A a, b \in Nat : a * b \in Int
    OBVIOUS
  <2>2. \A i \in 1..k : i \in Nat /\ i \in 1..4
    OBVIOUS
  <2>3. \A i \in 1..k : h[i] = ideal[i] * Discount[i]
    OBVIOUS
  <2> HIDE DEF h, ideal
  <2> QED
    BY <1>1, <2>1, <2>2, <2>3, DiscountIs
<1>5. \A i \in R : f[i] = h[i]
  <2>1. \A i \in R : i \in 1..n /\ i \in 1..k /\ i \in Nat
    BY <1>2
  <2>2. \A i \in R : ideal[i] = best[i]
    BY <2>1 DEF IdealOrZero
  <2>3. \A i \in R : f[i] = best[i] * Discount[i]
    OBVIOUS
  <2> HIDE DEF f, h, best, ideal, R
  <2> QED
    BY <1>4, <2>1, <2>2, <2>3
<1>6. \A i \in (1..k) \ R : h[i] = 0
  <2>1. \A i \in (1..k) \ R : i \notin 1..n /\ i \in Nat /\ i \in 1..4
    BY <1>2
  <2>2. \A i \in (1..k) \ R : ideal[i] = 0
    BY <2>1 DEF IdealOrZero
  <2> HIDE DEF f, h, best, ideal, R
  <2> QED
    BY <1>4, <2>1, <2>2, DiscountIs
<1>7. SumFunctionOnSet(f, R) = SumFunctionOnSet(h, R)
  <2> HIDE DEF f, h, R
  <2> QED
    BY <1>3, <1>4, <1>5, SumOfEquals, FS_Subset
<1>8. SumFunctionOnSet(h, 1..k) = SumFunctionOnSet(h, R)
  <2> HIDE DEF f, h, R
  <2> QED
    BY <1>3, <1>4, <1>6, SumWithoutZeros
<1>9. Dcg(best, k) = SumFunctionOnSet(f, R)
  BY DEF Dcg
<1>10. SumFunctionOnSet(h, 1..k) = Weighted(ideal, k)
  <2>1. \A i \in 1..k : ideal[i] \in Nat
    BY <1>1
  <2> HIDE DEF h, ideal
  <2> QED
    BY <1>4, <2>1, SumOfDiscounted
<1> HIDE DEF f, h, R, best, ideal
<1> QED
  BY <1>1, <1>7, <1>8, <1>9, <1>10 DEF best, ideal

GradesOf(ranking, grade) == [i \in DOMAIN ranking |-> grade[ranking[i]]]

\* The first memories of a ranking without repetitions gain no more than as many of
\* the ideal one.
LEMMA FirstGainNoMore ==
  ASSUME NEW grade, grade \in [DOMAIN grade -> Nat], IsFiniteSet(DOMAIN grade),
         NEW ranking \in Seq(DOMAIN grade), Cardinality(ToSet(ranking)) = Len(ranking),
         NEW j \in 1..Len(ranking)
  PROVE  SumFunctionOnSet(GradesOf(ranking, grade), 1..j)
           <= SumFunctionOnSet(IdealOrZero(grade), 1..j)
<1> DEFINE n == Len(ranking)
           S == {ranking[i] : i \in 1..j}
           f == [i \in 1..j |-> ranking[i]]
<1>1. n \in Nat /\ DOMAIN ranking = 1..n /\ \A i \in 1..n : ranking[i] \in DOMAIN grade
  OBVIOUS
<1>2. ranking \in Injection(1..n, ToSet(ranking))
  <2>1. ranking \in Surjection(1..n, ToSet(ranking))
    <3>1. ranking \in [1..n -> ToSet(ranking)]
      <4>1. ranking \in [1..n -> DOMAIN grade]
        OBVIOUS
      <4> HIDE DEF n
      <4> QED
        BY <1>1, <4>1 DEF ToSet
    <3>2. \A y \in ToSet(ranking) : \E x \in 1..n : ranking[x] = y
      BY <1>1 DEF ToSet
    <3> QED
      BY <3>1, <3>2 DEF Surjection
  <2>2. IsFiniteSet(1..n) /\ Cardinality(1..n) = n
    <3> HIDE DEF n
    <3> QED
      BY <1>1, FirstNumbers
  <2> HIDE DEF n
  <2> QED
    BY <2>1, <2>2, FS_Surjection DEF n
<1>3. \A i \in 1..j : i \in 1..n
  BY <1>1
<1>4. f \in Bijection(1..j, S)
  <2>1. f \in [1..j -> S] /\ \A y \in S : \E x \in 1..j : f[x] = y
    OBVIOUS
  <2>2. \A x, y \in 1..j : f[x] = f[y] => x = y
    <3>1. \A x, y \in 1..n : ranking[x] = ranking[y] => x = y
      BY <1>2 DEF Injection, IsInjective
    <3> QED
      BY <1>3, <3>1
  <2> HIDE DEF f, S
  <2> QED
    BY <2>1, <2>2 DEF Bijection, Injection, Surjection, IsInjective
<1>5. S \in SUBSET DOMAIN grade
  BY <1>1, <1>3
<1>6. IsFiniteSet(1..j) /\ Cardinality(1..j) = j
  <2>1. j \in Nat
    BY <1>1
  <2> QED
    BY <2>1, FirstNumbers
<1>7. Cardinality(S) = j
  <2>1. ExistsBijection(1..j, S)
    BY <1>4 DEF ExistsBijection
  <2> HIDE DEF S
  <2> QED
    BY <1>6, <2>1, FS_Bijection
<1>8. SumFunctionOnSet(GradesOf(ranking, grade), 1..j) = SumFunctionOnSet(grade, S)
  <2>1. \A y \in S : grade[y] \in Int
    BY <1>5
  <2>2. \A x \in 1..j : GradesOf(ranking, grade)[x] = grade[f[x]]
    BY <1>1, <1>3 DEF GradesOf
  <2> HIDE DEF S, f
  <2> QED
    BY <1>4, <1>6, <2>1, <2>2, SumOverBijection
<1>9. SumFunctionOnSet(grade, S) <= SumFunctionOnSet(IdealOrZero(grade), 1..Cardinality(S))
  <2> HIDE DEF S
  <2> QED
    BY <1>5, IdealGainsMost
<1> HIDE DEF S, f, n
<1> QED
  BY <1>7, <1>8, <1>9

\* Less in every sum of first terms is less in the discounted sum, because discounts
\* fall.
LEMMA WeightedIsOrdered ==
  ASSUME NEW k \in 1..4, NEW g, NEW h, \A i \in 1..k : g[i] \in Nat /\ h[i] \in Nat,
         \A j \in 1..k : SumFunctionOnSet(g, 1..j) <= SumFunctionOnSet(h, 1..j)
  PROVE  Weighted(g, k) <= Weighted(h, k)
<1>1. /\ 1 \in 1..k => g[1] <= h[1]
      /\ 2 \in 1..k => g[1] + g[2] <= h[1] + h[2]
      /\ 3 \in 1..k => g[1] + g[2] + g[3] <= h[1] + h[2] + h[3]
      /\ 4 \in 1..k => g[1] + g[2] + g[3] + g[4] <= h[1] + h[2] + h[3] + h[4]
  <2>1. ASSUME NEW j \in 1..k
        PROVE  /\ j \in 1..4 /\ (\A i \in 1..j : g[i] \in Int /\ h[i] \in Int)
               /\ SumFunctionOnSet(g, 1..j) <= SumFunctionOnSet(h, 1..j)
    OBVIOUS
  <2> DEFINE G(j) == SumFunctionOnSet(g, 1..j)
             H(j) == SumFunctionOnSet(h, 1..j)
  <2>2. ASSUME NEW j \in 1..k
        PROVE  /\ j = 1 => G(j) = g[1] /\ H(j) = h[1]
               /\ j = 2 => G(j) = g[1] + g[2] /\ H(j) = h[1] + h[2]
               /\ j = 3 => G(j) = g[1] + g[2] + g[3] /\ H(j) = h[1] + h[2] + h[3]
               /\ j = 4 => /\ G(j) = g[1] + g[2] + g[3] + g[4]
                           /\ H(j) = h[1] + h[2] + h[3] + h[4]
    BY <2>1, SumOfFour
  <2>3. \A j \in 1..k : G(j) <= H(j)
    OBVIOUS
  <2> HIDE DEF G, H
  <2> QED
    BY <2>2, <2>3
<1>2. k = 1 \/ k = 2 \/ k = 3 \/ k = 4
  OBVIOUS
<1>3. CASE k = 1
  <2>1. 1 \in 1..k
    OBVIOUS
  <2> QED
    BY <1>1, <1>3, <2>1 DEF Weighted
<1>4. CASE k = 2
  <2>1. 1 \in 1..k /\ 2 \in 1..k
    BY <1>4
  <2> QED
    BY <1>1, <1>4, <2>1 DEF Weighted
<1>5. CASE k = 3
  <2>1. 1 \in 1..k /\ 2 \in 1..k /\ 3 \in 1..k
    BY <1>5
  <2> QED
    BY <1>1, <1>5, <2>1 DEF Weighted
<1>6. CASE k = 4
  <2>1. 1 \in 1..k /\ 2 \in 1..k /\ 3 \in 1..k /\ 4 \in 1..k
    BY <1>6
  <2> QED
    BY <1>1, <1>6, <2>1 DEF Weighted
<1> QED
  BY <1>2, <1>3, <1>4, <1>5, <1>6

\* A discounted gain is a natural number.
LEMMA WeightedIsNatural ==
  ASSUME NEW k \in 1..4, NEW g, \A i \in 1..k : g[i] \in Nat
  PROVE  Weighted(g, k) \in Nat
<1>1. k = 1 \/ k = 2 \/ k = 3 \/ k = 4
  OBVIOUS
<1>2. 1 \in 1..k /\ (k >= 2 => 2 \in 1..k) /\ (k >= 3 => 3 \in 1..k) /\ (k >= 4 => 4 \in 1..k)
  OBVIOUS
<1> QED
  BY <1>1, <1>2 DEF Weighted

\* No ranking without repetitions is above the ideal one.
LEMMA NdcgIsAtMostOne ==
  ASSUME NEW grade, grade \in [DOMAIN grade -> Nat], IsFiniteSet(DOMAIN grade),
         NEW ranking \in Seq(DOMAIN grade), Len(ranking) <= 4,
         Cardinality(ToSet(ranking)) = Len(ranking), NEW k \in 1..Len(ranking)
  PROVE  Ndcg(ranking, grade, k) <= 1000
<1> DEFINE g == GradesOf(ranking, grade)
           n == Len(ranking)
           gain == Dcg(g, k)
           most == Dcg(IdealGrades(grade), k)
<1>1. /\ n \in Nat /\ k \in 1..4 /\ DOMAIN g = 1..n /\ k \in 1..n /\ k <= 4
      /\ \A i \in 1..k : g[i] \in Nat
  BY DEF GradesOf
<1>2. gain = Weighted(g, k)
  <2> HIDE DEF g, n
  <2> QED
    BY <1>1, DcgIs
<1>3. most = Weighted(IdealOrZero(grade), k) /\ \A i \in 1..k : IdealOrZero(grade)[i] \in Nat
  BY <1>1, IdealDcgIs
<1>4. \A j \in 1..k : SumFunctionOnSet(g, 1..j) <= SumFunctionOnSet(IdealOrZero(grade), 1..j)
  BY <1>1, FirstGainNoMore
<1>5. gain <= most
  <2> HIDE DEF g, n, gain, most
  <2> QED
    BY <1>1, <1>2, <1>3, <1>4, WeightedIsOrdered
<1>6. gain \in Nat /\ most \in Nat
  <2> HIDE DEF g, gain, most
  <2> QED
    BY <1>1, <1>2, <1>3, WeightedIsNatural
<1>7. most # 0 => (1000 * gain) \div most <= 1000
  <2> HIDE DEF gain, most
  <2>1. 1000 * gain \in Nat /\ 1000 * gain <= 1000 * most
    BY <1>5, <1>6
  <2> QED
    BY <1>6, <2>1, QuotientIsAtMost
<1>8. Ndcg(ranking, grade, k) = IF most = 0 THEN 0 ELSE (1000 * gain) \div most
  BY DEF Ndcg, GradesOf
<1> HIDE DEF gain, most
<1> QED
  BY <1>7, <1>8

-----------------------------------------------------------------------------
(* Two neighbours change places.                                           *)

\* The same of the first three and four positions, written out: a weight that comes
\* before another is no less.
LEMMA ThreeOfSwapped ==
  ASSUME NEW k, k = 3, NEW g, NEW h,
         g[1] \in Nat /\ h[1] \in Nat /\ g[2] \in Nat /\ h[2] \in Nat /\ g[3] \in Nat /\ h[3] \in Nat,
         \/ h[1] = g[2] /\ h[2] = g[1] /\ h[3] = g[3] /\ g[2] > g[1]
         \/ h[1] = g[1] /\ h[2] = g[3] /\ h[3] = g[2] /\ g[3] > g[2]
         \/ h[1] = g[1] /\ h[2] = g[2] /\ h[3] > g[3]
  PROVE  Weighted(g, k) <= Weighted(h, k)
<1>0. Weighted(g, k) <= Weighted(h, k) <=>
        1000 * g[1] + 631 * g[2] + 500 * g[3] <= 1000 * h[1] + 631 * h[2] + 500 * h[3]
  BY DEF Weighted
<1>1. CASE h[1] = g[2] /\ h[2] = g[1] /\ h[3] = g[3] /\ g[2] > g[1]
  BY <1>0, <1>1
<1>2. CASE h[1] = g[1] /\ h[2] = g[3] /\ h[3] = g[2] /\ g[3] > g[2]
  BY <1>0, <1>2
<1>3. CASE h[1] = g[1] /\ h[2] = g[2] /\ h[3] > g[3]
  BY <1>0, <1>3
<1> QED
  BY <1>0, <1>1, <1>2, <1>3

\* The larger of two neighbours gains more when it is moved up: of four grades.
LEMMA FourOfSwapped ==
  ASSUME NEW k, k = 4, NEW g, NEW h,
         /\ g[1] \in Nat /\ h[1] \in Nat /\ g[2] \in Nat /\ h[2] \in Nat
         /\ g[3] \in Nat /\ h[3] \in Nat /\ g[4] \in Nat /\ h[4] \in Nat,
         \/ h[1] = g[2] /\ h[2] = g[1] /\ h[3] = g[3] /\ h[4] = g[4] /\ g[2] > g[1]
         \/ h[1] = g[1] /\ h[2] = g[3] /\ h[3] = g[2] /\ h[4] = g[4] /\ g[3] > g[2]
         \/ h[1] = g[1] /\ h[2] = g[2] /\ h[3] = g[4] /\ h[4] = g[3] /\ g[4] > g[3]
  PROVE  Weighted(g, k) <= Weighted(h, k)
<1>0. Weighted(g, k) <= Weighted(h, k) <=>
        1000 * g[1] + 631 * g[2] + 500 * g[3] + 431 * g[4]
         <= 1000 * h[1] + 631 * h[2] + 500 * h[3] + 431 * h[4]
  BY DEF Weighted
<1>1. CASE h[1] = g[2] /\ h[2] = g[1] /\ h[3] = g[3] /\ h[4] = g[4] /\ g[2] > g[1]
  BY <1>0, <1>1
<1>2. CASE h[1] = g[1] /\ h[2] = g[3] /\ h[3] = g[2] /\ h[4] = g[4] /\ g[3] > g[2]
  BY <1>0, <1>2
<1>3. CASE h[1] = g[1] /\ h[2] = g[2] /\ h[3] = g[4] /\ h[4] = g[3] /\ g[4] > g[3]
  BY <1>0, <1>3
<1> QED
  BY <1>0, <1>1, <1>2, <1>3

\* A more relevant memory before a less relevant one gains more.
LEMMA NdcgOfSwapped ==
  ASSUME NEW grade, grade \in [DOMAIN grade -> Nat], IsFiniteSet(DOMAIN grade),
         NEW ranking \in Seq(DOMAIN grade), Len(ranking) <= 4, NEW k \in 1..Len(ranking),
         NEW i \in 1..(Len(ranking) - 1), grade[ranking[i + 1]] > grade[ranking[i]]
  PROVE  Ndcg(Swapped(ranking, i), grade, k) >= Ndcg(ranking, grade, k)
<1> DEFINE better == Swapped(ranking, i)
           g == GradesOf(ranking, grade)
           h == GradesOf(better, grade)
           n == Len(ranking)
           less == Dcg(g, k)
           more == Dcg(h, k)
           most == Dcg(IdealGrades(grade), k)
<1>1. /\ n \in Nat /\ n <= 4 /\ DOMAIN ranking = 1..n /\ k \in 1..4 /\ k \in 1..n /\ k <= 4
      /\ i \in 1..n /\ i + 1 \in 1..n /\ i \in 1..3
      /\ \A x \in 1..n : ranking[x] \in DOMAIN grade
  <2>1. n \in Nat /\ n <= 4 /\ DOMAIN ranking = 1..n /\ k \in 1..n /\ i \in 1..(n - 1)
    OBVIOUS
  <2>2. \A x \in 1..n : ranking[x] \in DOMAIN grade
    OBVIOUS
  <2> HIDE DEF n
  <2>3. k \in 1..4 /\ k <= 4
    BY ONLY <2>1
  <2>4. i \in 1..n /\ i + 1 \in 1..n /\ i \in 1..3
    BY ONLY <2>1
  <2> QED
    BY <2>1, <2>2, <2>3, <2>4
<1>2. DOMAIN g = 1..n /\ \A x \in 1..n : g[x] \in Nat /\ g[x] = grade[ranking[x]]
  BY <1>1 DEF GradesOf
<1>3. /\ DOMAIN better = 1..n /\ better[i] = ranking[i + 1] /\ better[i + 1] = ranking[i]
      /\ \A x \in 1..n : x # i /\ x # i + 1 => better[x] = ranking[x]
  <2> HIDE DEF n
  <2> QED
    BY <1>1 DEF Swapped
<1>4. DOMAIN h = 1..n /\ \A x \in 1..n : h[x] = grade[better[x]]
  <2> HIDE DEF better, n
  <2> QED
    BY <1>3 DEF GradesOf
<1>5. /\ h[i] = g[i + 1] /\ h[i + 1] = g[i] /\ g[i + 1] > g[i]
      /\ \A x \in 1..n : x # i /\ x # i + 1 => h[x] = g[x]
  <2> HIDE DEF better, n, g, h
  <2> QED
    BY <1>1, <1>2, <1>3, <1>4
<1>6. \A x \in 1..n : h[x] \in Nat
  <2> HIDE DEF better, n, g, h
  <2> QED
    BY <1>1, <1>2, <1>5
<1>7. less = Weighted(g, k) /\ more = Weighted(h, k)
  <2>1. \A x \in 1..k : x \in 1..n
    BY <1>1
  <2> HIDE DEF better, n, g, h
  <2> QED
    BY <1>1, <1>2, <1>4, <1>6, <2>1, DcgIs
<1>8. most = Weighted(IdealOrZero(grade), k) /\ \A x \in 1..k : IdealOrZero(grade)[x] \in Nat
  BY <1>1, IdealDcgIs
<1>9. less \in Nat /\ more \in Nat /\ most \in Nat
  <2>1. \A x \in 1..k : x \in 1..n
    BY <1>1
  <2> HIDE DEF better, n, g, h, less, more, most
  <2> QED
    BY <1>1, <1>2, <1>6, <1>7, <1>8, <2>1, WeightedIsNatural
<1>10. less <= more
  <2> HIDE DEF better, n, g, h, less, more, most
  <2>0. 1 + 1 = 2 /\ 2 + 1 = 3 /\ 3 + 1 = 4
    OBVIOUS
  <2>1. \A x \in 1..k : x \in 1..n
    BY <1>1
  <2>2. k = 1 \/ k = 2 \/ k = 3 \/ k = 4
    BY <1>1
  <2>3. i = 1 \/ i = 2 \/ i = 3
    BY <1>1
  <2>4. CASE k = 1
    <3>1. 1 \in 1..n
      BY <1>1
    <3>2. g[1] <= h[1]
      BY <1>1, <1>2, <1>5, <1>6, <3>1
    <3> QED
      BY <1>2, <1>6, <1>7, <2>4, <3>1, <3>2 DEF Weighted
  <2>5. CASE k = 2
    <3>1. 1 \in 1..n /\ 2 \in 1..n
      BY <1>1, <2>5
    <3>2. g[1] \in Nat /\ h[1] \in Nat /\ g[2] \in Nat /\ h[2] \in Nat
      BY <1>2, <1>6, <3>1
    <3>3. i = 1 => h[1] = g[2] /\ h[2] = g[1] /\ g[2] > g[1]
      BY <1>1, <1>2, <1>5, <1>6, <2>0, <3>1
    <3>4. i = 2 => h[1] = g[1] /\ h[2] > g[2]
      BY <1>1, <1>2, <1>5, <1>6, <2>0, <3>1
    <3>5. i = 3 => h[1] = g[1] /\ h[2] = g[2]
      BY <1>1, <1>2, <1>5, <1>6, <2>0, <3>1
    <3>6. 1000 * g[1] + 631 * g[2]
            <= 1000 * h[1] + 631 * h[2]
      <4>1. CASE i = 1
        BY ONLY <3>2, <3>3, <4>1
      <4>2. CASE i = 2
        BY ONLY <3>2, <3>4, <4>2
      <4>3. CASE i = 3
        BY ONLY <3>2, <3>5, <4>3
      <4> QED
        BY <2>3, <4>1, <4>2, <4>3
    <3> QED
      BY <1>7, <2>5, <3>6 DEF Weighted
  <2>6. CASE k = 3
    <3>1. 1 \in 1..n /\ 2 \in 1..n /\ 3 \in 1..n
      BY <1>1, <2>6
    <3>2. g[1] \in Nat /\ h[1] \in Nat /\ g[2] \in Nat /\ h[2] \in Nat /\ g[3] \in Nat /\ h[3] \in Nat
      BY <1>2, <1>6, <3>1
    <3>3. i = 1 => h[1] = g[2] /\ h[2] = g[1] /\ h[3] = g[3] /\ g[2] > g[1]
      BY ONLY <1>5, <2>0, <3>1
    <3>4. i = 2 => h[1] = g[1] /\ h[2] = g[3] /\ h[3] = g[2] /\ g[3] > g[2]
      BY <1>1, <1>2, <1>5, <1>6, <2>0, <3>1
    <3>5. i = 3 => h[1] = g[1] /\ h[2] = g[2] /\ h[3] > g[3]
      BY <1>1, <1>2, <1>5, <1>6, <2>0, <3>1
    <3>6. Weighted(g, k) <= Weighted(h, k)
      <4>1. \/ h[1] = g[2] /\ h[2] = g[1] /\ h[3] = g[3] /\ g[2] > g[1]
            \/ h[1] = g[1] /\ h[2] = g[3] /\ h[3] = g[2] /\ g[3] > g[2]
            \/ h[1] = g[1] /\ h[2] = g[2] /\ h[3] > g[3]
        BY ONLY <2>3, <3>3, <3>4, <3>5
      <4> QED
        BY ONLY <2>6, <3>2, <4>1, ThreeOfSwapped
    <3> QED
      BY <1>7, <3>6
  <2>7. CASE k = 4
    <3>1. 1 \in 1..n /\ 2 \in 1..n /\ 3 \in 1..n /\ 4 \in 1..n
      BY <1>1, <2>7
    <3>2. g[1] \in Nat /\ h[1] \in Nat /\ g[2] \in Nat /\ h[2] \in Nat /\ g[3] \in Nat /\ h[3] \in Nat /\ g[4] \in Nat /\ h[4] \in Nat
      BY <1>2, <1>6, <3>1
    <3>3. i = 1 => h[1] = g[2] /\ h[2] = g[1] /\ h[3] = g[3] /\ h[4] = g[4] /\ g[2] > g[1]
      BY <1>1, <1>2, <1>5, <1>6, <2>0, <3>1
    <3>4. i = 2 => h[1] = g[1] /\ h[2] = g[3] /\ h[3] = g[2] /\ h[4] = g[4] /\ g[3] > g[2]
      BY <1>1, <1>2, <1>5, <1>6, <2>0, <3>1
    <3>5. i = 3 => h[1] = g[1] /\ h[2] = g[2] /\ h[3] = g[4] /\ h[4] = g[3] /\ g[4] > g[3]
      BY <1>1, <1>2, <1>5, <1>6, <2>0, <3>1
    <3>6. Weighted(g, k) <= Weighted(h, k)
      <4>1. \/ h[1] = g[2] /\ h[2] = g[1] /\ h[3] = g[3] /\ h[4] = g[4] /\ g[2] > g[1]
            \/ h[1] = g[1] /\ h[2] = g[3] /\ h[3] = g[2] /\ h[4] = g[4] /\ g[3] > g[2]
            \/ h[1] = g[1] /\ h[2] = g[2] /\ h[3] = g[4] /\ h[4] = g[3] /\ g[4] > g[3]
        BY ONLY <2>3, <3>3, <3>4, <3>5
      <4> QED
        BY ONLY <2>7, <3>2, <4>1, FourOfSwapped
    <3> QED
      BY <1>7, <3>6
  <2> QED
    BY <2>2, <2>4, <2>5, <2>6, <2>7
<1>11. most # 0 => (1000 * less) \div most <= (1000 * more) \div most
  <2> HIDE DEF less, more, most
  <2> DEFINE a == 1000 * less
             b == 1000 * more
  <2>1. a \in Nat /\ b \in Nat /\ a <= b
    BY ONLY <1>9, <1>10
  <2> HIDE DEF a, b
  <2>2. most # 0 => a \div most <= b \div most
    BY <1>9, <2>1, QuotientsAreOrdered DEF a, b
  <2> QED
    BY <2>2 DEF a, b
<1>12. /\ Ndcg(ranking, grade, k) = IF most = 0 THEN 0 ELSE (1000 * less) \div most
       /\ Ndcg(better, grade, k) = IF most = 0 THEN 0 ELSE (1000 * more) \div most
  <2> HIDE DEF better
  <2> QED
    BY DEF Ndcg, GradesOf
<1>13. most # 0 => (1000 * less) \div most \in Int /\ (1000 * more) \div most \in Int
  <2>1. \A a \in Nat, d \in Nat \ {0} : (1000 * a) \div d \in Int
    <3>1. \A a \in Nat : 1000 * a \in Nat
      OBVIOUS
    <3> QED
      BY <3>1, QuotientIsNatural
  <2> HIDE DEF less, more, most
  <2> QED
    BY <1>9, <2>1
<1> HIDE DEF less, more, most, better
<1> QED
  BY <1>11, <1>12, <1>13 DEF better

\* The first relevant memory is no further down.
LEMMA ReciprocalRankOfSwapped ==
  ASSUME NEW grade, grade \in [DOMAIN grade -> Nat],
         NEW ranking \in Seq(DOMAIN grade),
         NEW i \in 1..(Len(ranking) - 1), grade[ranking[i + 1]] > grade[ranking[i]]
  PROVE  ReciprocalRank(Swapped(ranking, i), Graded(grade))
           >= ReciprocalRank(ranking, Graded(grade))
<1> DEFINE better == Swapped(ranking, i)
           n == Len(ranking)
           hits == {x \in DOMAIN ranking : ranking[x] \in Graded(grade)}
           swappedHits == {x \in DOMAIN better : better[x] \in Graded(grade)}
<1>1. /\ n \in Nat /\ DOMAIN ranking = 1..n /\ i \in 1..n /\ i + 1 \in 1..n
      /\ \A x \in 1..n : ranking[x] \in DOMAIN grade /\ grade[ranking[x]] \in Nat
  OBVIOUS
<1>2. /\ DOMAIN better = 1..n /\ better[i] = ranking[i + 1] /\ better[i + 1] = ranking[i]
      /\ \A x \in 1..n : x # i /\ x # i + 1 => better[x] = ranking[x]
  <2> HIDE DEF n
  <2> QED
    BY <1>1 DEF Swapped
<1>3. hits \in SUBSET Nat /\ swappedHits \in SUBSET Nat /\ 0 \notin hits /\ 0 \notin swappedHits
  <2> HIDE DEF better
  <2> QED
    BY <1>1, <1>2
<1>4. ASSUME NEW p \in hits
      PROVE  \E x \in swappedHits : x <= p
  <2>1. p \in 1..n /\ ranking[p] \in Graded(grade)
    BY <1>1
  <2>2. ranking[i + 1] \in Graded(grade) => i \in swappedHits
    <3> HIDE DEF better, n
    <3> QED
      BY <1>1, <1>2
  <2>3. CASE p = i
    <3>1. ranking[i + 1] \in Graded(grade)
      BY <1>1, <2>1, <2>3 DEF Graded
    <3> QED
      BY <1>1, <2>2, <2>3, <3>1
  <2>4. CASE p = i + 1
    BY <1>1, <2>1, <2>2, <2>4
  <2>5. CASE p # i /\ p # i + 1
    <3>1. p \in swappedHits
      <4> HIDE DEF better, n
      <4> QED
        BY <1>1, <1>2, <2>1, <2>5
    <3> QED
      BY <2>1, <3>1
  <2> QED
    BY <2>3, <2>4, <2>5
<1> HIDE DEF hits, swappedHits
<1>5. CASE hits = {}
  <2>1. ReciprocalRank(ranking, Graded(grade)) = 0
    BY <1>5 DEF ReciprocalRank, hits
  <2>2. swappedHits # {} => Min(swappedHits) \in Nat \ {0}
    <3>1. swappedHits # {} => \E x \in swappedHits : \A y \in swappedHits : x <= y
      BY <1>3, LeastOf
    <3> QED
      BY <1>3, <3>1 DEF Min
  <2>3. \A d \in Nat \ {0} : Scale \div d >= 0
    <3>1. Scale \in Nat
      BY DEF Scale
    <3> QED
      BY <3>1, QuotientIsNatural
  <2>4. ReciprocalRank(better, Graded(grade))
          = IF swappedHits = {} THEN 0 ELSE Scale \div Min(swappedHits)
    BY DEF ReciprocalRank, swappedHits
  <2> HIDE DEF better
  <2> QED
    BY <2>1, <2>2, <2>3, <2>4 DEF better
<1>6. CASE hits # {}
  <2>1. Min(hits) \in hits
    <3>1. \E x \in hits : \A y \in hits : x <= y
      BY <1>3, <1>6, LeastOf
    <3> QED
      BY <3>1 DEF Min
  <2>2. PICK x \in swappedHits : x <= Min(hits)
    BY <1>4, <2>1
  <2>3. Min(swappedHits) \in swappedHits /\ Min(swappedHits) <= x
    <3>1. \E y \in swappedHits : \A z \in swappedHits : y <= z
      BY <1>3, <2>2, LeastOf
    <3> QED
      BY <2>2, <3>1 DEF Min
  <2> DEFINE p == Min(hits)
             s == Min(swappedHits)
  <2>4. p \in Nat \ {0} /\ s \in Nat \ {0} /\ s <= p
    BY <1>3, <2>1, <2>2, <2>3
  <2> HIDE DEF p, s
  <2>5. Scale \div p <= Scale \div s
    <3>1. Scale \in Nat
      BY DEF Scale
    <3> QED
      BY <2>4, <3>1, QuotientsFall
  <2>6. Scale \div p \in Int /\ Scale \div s \in Int
    <3>1. Scale \in Nat
      BY DEF Scale
    <3> QED
      BY <2>4, <3>1, QuotientIsNatural
  <2>7. /\ ReciprocalRank(better, Graded(grade)) = Scale \div s
        /\ ReciprocalRank(ranking, Graded(grade)) = Scale \div p
    BY <1>6, <2>2 DEF ReciprocalRank, swappedHits, hits, p, s
  <2> HIDE DEF better
  <2> QED
    BY <2>5, <2>6, <2>7 DEF better
<1> QED
  BY <1>5, <1>6

\* The recalled part of the relevant memories is at most all of them.
LEMMA RecallIsAtMostAll ==
  ASSUME NEW ranking, NEW relevant, IsFiniteSet(relevant), NEW k
  PROVE  RecallAtK(ranking, relevant, k) <= Scale
<1> DEFINE hits == TopOf(ranking, k) \cap relevant
           all == Cardinality(relevant)
           found == Cardinality(hits)
<1>1. found \in Nat /\ all \in Nat /\ found <= all
  <2>1. hits \in SUBSET relevant
    OBVIOUS
  <2> HIDE DEF hits
  <2> QED
    BY <2>1, FS_Subset, FS_CardinalityType
<1>2. relevant # {} => all # 0
  BY FS_EmptySet
<1>3. RecallAtK(ranking, relevant, k)
        = IF relevant = {} THEN 0 ELSE (Scale * found) \div all
  BY DEF RecallAtK
<1> HIDE DEF found, all
<1>4. all # 0 => (Scale * found) \div all <= Scale
  <2> DEFINE a == 144 * found
  <2>1. a \in Nat /\ a <= 144 * all
    BY <1>1
  <2>2. Scale * found = a /\ Scale = 144
    BY DEF Scale
  <2> HIDE DEF a
  <2>3. all # 0 => a \div all <= 144
    BY <1>1, <2>1, QuotientIsAtMost
  <2> QED
    BY <2>2, <2>3
<1> QED
  BY <1>2, <1>3, <1>4 DEF Scale

\* More of the relevant memories found is more recall.
LEMMA RecallIsOrdered ==
  ASSUME NEW ranking, NEW better, NEW relevant, IsFiniteSet(relevant), NEW k,
         Cardinality(TopOf(ranking, k) \cap relevant)
           <= Cardinality(TopOf(better, k) \cap relevant)
  PROVE  RecallAtK(better, relevant, k) >= RecallAtK(ranking, relevant, k)
<1> DEFINE less == Cardinality(TopOf(ranking, k) \cap relevant)
           more == Cardinality(TopOf(better, k) \cap relevant)
           all == Cardinality(relevant)
           a == 144 * less
           b == 144 * more
<1>1. less \in Nat /\ more \in Nat /\ all \in Nat /\ less <= more /\ (relevant # {} => all # 0)
  BY FS_Subset, FS_CardinalityType, FS_EmptySet
<1>2. /\ RecallAtK(ranking, relevant, k) = IF relevant = {} THEN 0 ELSE a \div all
      /\ RecallAtK(better, relevant, k) = IF relevant = {} THEN 0 ELSE b \div all
  BY DEF RecallAtK, Scale
<1> HIDE DEF less, more, all
<1>3. a \in Nat /\ b \in Nat /\ a <= b
  BY <1>1
<1> HIDE DEF a, b
<1>4. relevant # {} => a \div all <= b \div all /\ a \div all \in Nat /\ b \div all \in Nat
  BY <1>1, <1>3, QuotientsAreOrdered, QuotientIsNatural
<1> QED
  BY <1>2, <1>4

\* The recall of a memory that was not found above gains by its going up.
LEMMA RecallOfSwapped ==
  ASSUME NEW grade, grade \in [DOMAIN grade -> Nat], IsFiniteSet(DOMAIN grade),
         NEW ranking \in Seq(DOMAIN grade), NEW k \in 1..Len(ranking),
         NEW i \in 1..(Len(ranking) - 1), grade[ranking[i + 1]] > grade[ranking[i]],
         ranking[i + 1] \notin TopOf(ranking, i)
  PROVE  RecallAtK(Swapped(ranking, i), Graded(grade), k)
           >= RecallAtK(ranking, Graded(grade), k)
<1> DEFINE better == Swapped(ranking, i)
           n == Len(ranking)
           relevant == Graded(grade)
           hits == TopOf(ranking, k) \cap relevant
           swappedHits == TopOf(better, k) \cap relevant
<1>1. /\ n \in Nat /\ DOMAIN ranking = 1..n /\ i \in 1..n /\ i + 1 \in 1..n /\ k \in 1..n
      /\ \A x \in 1..n : ranking[x] \in DOMAIN grade /\ grade[ranking[x]] \in Nat
  OBVIOUS
<1>2. /\ DOMAIN better = 1..n /\ better[i] = ranking[i + 1] /\ better[i + 1] = ranking[i]
      /\ \A x \in 1..n : x # i /\ x # i + 1 => better[x] = ranking[x]
  <2> HIDE DEF n
  <2> QED
    BY <1>1 DEF Swapped
<1>3. IsFiniteSet(relevant)
  BY FS_Subset DEF Graded
<1>4. /\ \A m : m \in TopOf(ranking, k) <=> \E x \in 1..n : x <= k /\ m = ranking[x]
      /\ \A m : m \in TopOf(better, k) <=> \E x \in 1..n : x <= k /\ m = better[x]
      /\ \A x \in 1..n : x <= i => ranking[i + 1] # ranking[x]
  <2> HIDE DEF better, n
  <2> QED
    BY <1>1, <1>2 DEF TopOf
<1>5. CASE k # i
  <2>1. ASSUME NEW m, m \in TopOf(ranking, k)
        PROVE  m \in TopOf(better, k)
    <3> HIDE DEF better, n
    <3>1. PICK x \in 1..n : x <= k /\ m = ranking[x]
      BY <1>4, <2>1
    <3>2. CASE x = i
      <4>1. i + 1 <= k
        BY <1>1, <1>5, <3>1, <3>2
      <4> QED
        BY <1>1, <1>2, <1>4, <3>1, <3>2, <4>1
    <3>3. CASE x = i + 1
      <4>1. i <= k
        BY <1>1, <3>1, <3>3
      <4> QED
        BY <1>1, <1>2, <1>4, <3>1, <3>3, <4>1
    <3>4. CASE x # i /\ x # i + 1
      BY <1>2, <1>4, <3>1, <3>4
    <3> QED
      BY <3>2, <3>3, <3>4
  <2>2. hits \in SUBSET swappedHits /\ IsFiniteSet(swappedHits)
    BY <1>3, <2>1, FS_Subset
  <2>3. Cardinality(hits) <= Cardinality(swappedHits)
    <3> HIDE DEF hits, swappedHits
    <3> QED
      BY <2>2, FS_Subset
  <2> HIDE DEF better, relevant
  <2> QED
    BY <1>3, <2>3, RecallIsOrdered DEF relevant, better
<1>6. CASE k = i
  <2> DEFINE risen == ranking[i + 1]
             fallen == ranking[i]
  <2>1. risen \in swappedHits
    <3>1. risen \in relevant
      BY <1>1 DEF Graded
    <3>2. risen \in TopOf(better, k)
      <4>1. i <= k
        BY <1>1, <1>6
      <4> HIDE DEF better, n
      <4> QED
        BY <1>1, <1>2, <1>4, <4>1
    <3> QED
      BY <3>1, <3>2
  <2>2. hits \ {fallen} \in SUBSET (swappedHits \ {risen})
    <3> SUFFICES ASSUME NEW m \in hits, m # fallen
                 PROVE  m \in swappedHits /\ m # risen
      OBVIOUS
    <3> HIDE DEF better, n
    <3>1. PICK x \in 1..n : x <= k /\ m = ranking[x]
      BY <1>4
    <3>2. x # i /\ x # i + 1 /\ x <= i
      BY <1>1, <1>6, <3>1
    <3> QED
      BY <1>2, <1>4, <3>1, <3>2
  <2>3. IsFiniteSet(hits) /\ IsFiniteSet(swappedHits)
    BY <1>3, FS_Subset
  <2> HIDE DEF hits, swappedHits, risen, fallen
  <2>4. /\ Cardinality(hits) \in Nat /\ Cardinality(swappedHits) \in Nat
        /\ Cardinality(swappedHits \ {risen}) = Cardinality(swappedHits) - 1
        /\ IsFiniteSet(swappedHits \ {risen})
    BY <2>1, <2>3, FS_RemoveElement, FS_CardinalityType, FS_Subset
  <2>5. Cardinality(hits \ {fallen}) <= Cardinality(swappedHits \ {risen})
    BY <2>2, <2>4, FS_Subset
  <2>6. Cardinality(hits) <= Cardinality(hits \ {fallen}) + 1 /\ Cardinality(hits \ {fallen}) \in Nat
    <3>1. CASE fallen \in hits
      <4>1. /\ Cardinality(hits \ {fallen}) = Cardinality(hits) - 1
            /\ IsFiniteSet(hits \ {fallen})
        BY <2>3, <3>1, FS_RemoveElement
      <4> QED
        BY <2>4, <4>1, FS_CardinalityType
    <3>2. CASE fallen \notin hits
      <4>1. hits \ {fallen} = hits
        BY <3>2
      <4>2. Cardinality(hits \ {fallen}) = Cardinality(hits)
        BY <4>1
      <4> QED
        BY ONLY <2>4, <4>2
    <3> QED
      BY <3>1, <3>2
  <2>7. Cardinality(hits) <= Cardinality(swappedHits)
    BY <2>4, <2>5, <2>6
  <2> HIDE DEF better, relevant
  <2> QED
    BY <1>3, <2>7, RecallIsOrdered DEF relevant, better, hits, swappedHits
<1> QED
  BY <1>5, <1>6

AnswersInv == caseSet \in SUBSET Queries /\ answers \in [DOMAIN answers -> Rankings]
              /\ DOMAIN answers \in SUBSET Queries

\* No metric is lower for a better ranking, nor any above that of the ideal ranking, for
\* any cases, grades and answers of up to four memories.
THEOREM BetterRankingsScoreNoLessHolds == RetrievalSpec => []BetterRankingsScoreNoLess
<1>1. RetrievalInit => AnswersInv
  BY DEF RetrievalInit, AnswersInv, NoAnswers
<1>2. ASSUME AnswersInv, [RetrievalNext]_retrievalVars
      PROVE  AnswersInv'
  <2> USE <1>2 DEF AnswersInv
  <2>1. CASE CasesGrow
    BY <2>1 DEF CasesGrow, NoAnswers
  <2>2. CASE RunHarness
    BY <2>2 DEF RunHarness
  <2>3. CASE Ship \/ GiveUp
    BY <2>3 DEF Ship, GiveUp, NoAnswers
  <2>4. CASE UNCHANGED retrievalVars
    BY <2>4 DEF retrievalVars
  <2> QED
    BY <2>1, <2>2, <2>3, <2>4 DEF RetrievalNext
<1>3. ASSUME AnswersInv
      PROVE  BetterRankingsScoreNoLess
  <2> SUFFICES ASSUME NEW q \in DOMAIN answers, NEW k \in DOMAIN answers[q]
               PROVE  LET ranking == answers[q]
                          grade == Grade[q]
                      IN /\ RecallAtK(ranking, Relevant(q), k) <= Scale
                         /\ Cardinality(ToSet(ranking)) = Len(ranking) =>
                              Ndcg(ranking, grade, k) <= 1000
                         /\ \A i \in 1..(Len(ranking) - 1) :
                              grade[ranking[i + 1]] > grade[ranking[i]] =>
                                LET better == Swapped(ranking, i) IN
                                /\ ranking[i + 1] \notin TopOf(ranking, i) =>
                                     RecallAtK(better, Relevant(q), k)
                                       >= RecallAtK(ranking, Relevant(q), k)
                                /\ ReciprocalRank(better, Relevant(q))
                                     >= ReciprocalRank(ranking, Relevant(q))
                                /\ Ndcg(better, grade, k) >= Ndcg(ranking, grade, k)
    BY DEF BetterRankingsScoreNoLess
  <2> DEFINE ranking == answers[q]
             grade == Grade[q]
  <2>1. /\ grade \in [DOMAIN grade -> Nat] /\ IsFiniteSet(DOMAIN grade)
        /\ ranking \in Seq(DOMAIN grade) /\ Len(ranking) <= 4 /\ k \in 1..Len(ranking)
    BY <1>3, RetrievalAssumption, DiscountIs DEF AnswersInv
  <2>2. Relevant(q) = Graded(grade)
    BY DEF Relevant, Graded
  <2>3. IsFiniteSet(Graded(grade))
    BY <2>1, FS_Subset DEF Graded
  <2> HIDE DEF ranking, grade
  <2>4. RecallAtK(ranking, Relevant(q), k) <= Scale
    BY <2>2, <2>3, RecallIsAtMostAll
  <2>5. Cardinality(ToSet(ranking)) = Len(ranking) => Ndcg(ranking, grade, k) <= 1000
    BY <2>1, NdcgIsAtMostOne
  <2>6. ASSUME NEW i \in 1..(Len(ranking) - 1), grade[ranking[i + 1]] > grade[ranking[i]]
        PROVE  /\ ranking[i + 1] \notin TopOf(ranking, i) =>
                    RecallAtK(Swapped(ranking, i), Relevant(q), k)
                      >= RecallAtK(ranking, Relevant(q), k)
               /\ ReciprocalRank(Swapped(ranking, i), Relevant(q))
                    >= ReciprocalRank(ranking, Relevant(q))
               /\ Ndcg(Swapped(ranking, i), grade, k) >= Ndcg(ranking, grade, k)
    BY <2>1, <2>2, <2>6, RecallOfSwapped, ReciprocalRankOfSwapped, NdcgOfSwapped
  <2> QED
    BY <2>4, <2>5, <2>6 DEF ranking, grade
<1> QED
  BY <1>1, <1>2, <1>3, PTL DEF RetrievalSpec
=============================================================================
