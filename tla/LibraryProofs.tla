---------------------------- MODULE LibraryProofs ----------------------------
(***************************************************************************)
(* What the runs check of the decisions of the library on small instances, *)
(* proved for every value of the constants: the sides of the corpus, the   *)
(* arms of the canary, the Cycle of Trust and the cards behind a rubric.   *)
(***************************************************************************)
EXTENDS CorpusSplit, CanaryRouting, TrustLadder, Rebaseline, DataLemmas

-----------------------------------------------------------------------------
(* The corpus.  Each set that grows stays on its own side of the cuts of   *)
(* its split, and the sides do not meet.                                   *)

ForTuning(c) == ~Below(c, SealedFraction + GateFraction)
ForScoring(c) == ~Below(c, SealedFraction) /\ Below(c, SealedFraction + GateFraction)
ForJudging(c) == Below(c, SealedFraction)
ForTraining(c) == ~Below(c, HoldOut)

SidesInv ==
  /\ corpus \cup Consumed \cup scored \cup judged \cup heldOut \subseteq Cases
  /\ \A c \in tuned : ForTuning(c)
  /\ \A c \in scored : ForScoring(c)
  /\ \A c \in judged : ForJudging(c)
  /\ \A c \in trained : ForTraining(c)
  /\ \A c \in heldOut : ~ForTraining(c)

\* Every step puts a case to a use of its side only.
LEMMA SidesStep ==
  ASSUME SidesInv, [CorpusNext]_corpusVars
  PROVE  SidesInv'
<1> USE DEF SidesInv, Consumed, ForTuning, ForTraining, ForScoring, ForJudging, Below
<1>1. CASE Tune \/ Train
  BY <1>1 DEF Tune, Train, Tuning, SplitTrain
<1>2. CASE Score \/ ScoreHeldOut
  BY <1>2 DEF Score, ScoreHeldOut, ExcludeConsumed, GateSet, SplitGate
<1>3. CASE Judge
  BY <1>3 DEF Judge, Sealed
<1>4. CASE CaptureReviews
  BY <1>4 DEF CaptureReviews, ReviewSample
<1>5. CASE Mine \/ UNCHANGED corpusVars
  BY <1>5 DEF Mine, corpusVars
<1> QED
  BY <1>1, <1>2, <1>3, <1>4, <1>5 DEF CorpusNext

\* The cuts of a split are in order: below the first is below the second.
LEMMA SidesMeetNowhere == SidesInv => NoLeakage
<1>1. \A c \in Cases : ForJudging(c) => Below(c, SealedFraction + GateFraction)
  BY UnitAssumption, SplitAssumption DEF UnitAssumption, SplitAssumption, ForJudging, Below
<1> QED
  BY <1>1 DEF SidesInv, Consumed, NoLeakage, ForTuning, ForScoring, ForJudging

\* No case a patch was tuned on is ever scored or shown to the gating judge, nor one
\* trained on scored as held out: for any corpus, any hash and any fractions of the two
\* splits, which need not fit together.
THEOREM NoLeakageHolds == CorpusSpec => []NoLeakage
<1>1. CorpusInit => SidesInv
  BY DEF CorpusInit, SidesInv, Consumed
<1>2. SidesInv /\ [CorpusNext]_corpusVars => SidesInv'
  BY SidesStep
<1>3. SidesInv => NoLeakage
  BY SidesMeetNowhere
<1> QED
  BY <1>1, <1>2, <1>3, PTL DEF CorpusSpec

\* The share is rounded up.
LEMMA ShareIsNoLess ==
  ASSUME NEW n \in Nat
  PROVE  LET share == (n * RandomPart + EscalationPart - 1) \div EscalationPart IN
         share \in Nat /\ share * EscalationPart >= n * RandomPart
<1> DEFINE a == n * RandomPart
           e == EscalationPart
           share == (a + e - 1) \div e
<1>1. a \in Nat /\ e \in Nat \ {0}
  BY SplitAssumption DEF SplitAssumption
<1> HIDE DEF a, e
<1> DEFINE x == a + e - 1
<1>2. x \in Nat
  BY <1>1
<1> HIDE DEF x
<1>3. x \div e \in Nat /\ x < ((x \div e) + 1) * e
  BY <1>1, <1>2
<1>4. a <= (x \div e) * e
  BY <1>1, <1>2, <1>3 DEF x
<1> QED
  BY <1>3, <1>4 DEF a, e, x

\* Of a finite window, the items below the first one that is left out are as many as
\* the share says, and all of them are sampled.
LEMMA SampleKeepsTheRatio ==
  ASSUME NEW window, IsFiniteSet(window), window \subseteq DOMAIN Unit,
         NEW escalations \in SUBSET window,
         ReviewSample(escalations, window \ escalations) # window
  PROVE  LET sample == ReviewSample(escalations, window \ escalations) IN
         Cardinality(sample \ escalations) * EscalationPart
           >= Cardinality(escalations) * RandomPart
<1> DEFINE pool == window \ escalations
           before(c) == {d \in pool : Unit[d] < Unit[c]}
           share == RoutineShare(escalations)
           chosen == {c \in pool : Cardinality(before(c)) < share}
           sample == ReviewSample(escalations, pool)
<1>0. \A c \in pool : Unit[c] \in Nat
  BY UnitAssumption DEF UnitAssumption
<1>1. sample = escalations \cup chosen /\ sample \ escalations = chosen
  BY DEF ReviewSample
<1>2. IsFiniteSet(escalations) /\ IsFiniteSet(pool) /\ IsFiniteSet(chosen)
  BY FS_Subset
<1>3. Cardinality(escalations) \in Nat /\ Cardinality(chosen) \in Nat
  BY <1>2, FS_CardinalityType
<1>4. share \in Nat /\ share * EscalationPart >= Cardinality(escalations) * RandomPart
  BY <1>3, ShareIsNoLess DEF RoutineShare
<1> DEFINE out == pool \ chosen
           units == {Unit[c] : c \in out}
<1>5. out # {} /\ units # {} /\ units \in SUBSET Nat
  <2>1. out # {}
    BY <1>1
  <2> QED
    BY <1>0, <2>1
<1>6. PICK least \in units : \A other \in units : least <= other
  BY <1>5, LeastOf
<1>7. PICK c \in out : Unit[c] = least
  BY <1>6
<1>8. before(c) \subseteq chosen
  <2> SUFFICES ASSUME NEW d \in pool, Unit[d] < Unit[c], d \notin chosen
               PROVE  FALSE
    OBVIOUS
  <2>1. Unit[d] \in units
    OBVIOUS
  <2>2. Unit[c] <= Unit[d]
    BY <1>6, <1>7, <2>1
  <2>3. Unit[c] \in Nat /\ Unit[d] \in Nat
    BY <1>0
  <2>4. Unit[d] < Unit[c]
    OBVIOUS
  <2> HIDE DEF out, units, pool, chosen, before
  <2> QED
    BY <2>2, <2>3, <2>4
<1>9. Cardinality(before(c)) <= Cardinality(chosen) /\ Cardinality(before(c)) \in Nat
  BY <1>2, <1>8, FS_Subset, FS_CardinalityType
<1>10. Cardinality(before(c)) >= share
  <2>1. ~(Cardinality(before(c)) < share)
    OBVIOUS
  <2> HIDE DEF share, before, chosen
  <2> QED
    BY <1>4, <1>9, <2>1
<1> HIDE DEF chosen, share, sample, pool, before
<1>11. Cardinality(chosen) >= share
  BY <1>3, <1>4, <1>9, <1>10
<1>12. Cardinality(chosen) * EscalationPart >= share * EscalationPart
  BY <1>3, <1>4, <1>11, SplitAssumption DEF SplitAssumption
<1>13. /\ Cardinality(chosen) * EscalationPart \in Nat /\ share * EscalationPart \in Nat
       /\ Cardinality(escalations) * RandomPart \in Nat
  BY <1>3, <1>4, SplitAssumption DEF SplitAssumption
<1>14. Cardinality(chosen) * EscalationPart >= Cardinality(escalations) * RandomPart
  BY <1>4, <1>12, <1>13
<1> QED
  BY <1>1, <1>14 DEF sample, pool

\* Every escalation of a captured window is reviewed, and the routine items reviewed
\* next to them keep the declared ratio, for any hash (ties included), any ratio and
\* any window of finitely many cases.
THEOREM ReviewsKeepTheRatioHolds ==
  ASSUME IsFiniteSet(Cases)
  PROVE  CorpusSpec => []ReviewsKeepTheRatio
<1>1. ReviewsKeepTheRatio
  <2> SUFFICES ASSUME NEW window \in SUBSET (Cases \ corpus)
               PROVE  LET escalations == {c \in window : OutcomeOf[c] = "escalated"}
                          sample == ReviewSample(escalations, window \ escalations)
                      IN /\ escalations \subseteq sample
                         /\ sample # window =>
                              Cardinality(sample \ escalations) * EscalationPart
                                >= Cardinality(escalations) * RandomPart
    BY DEF ReviewsKeepTheRatio
  <2> DEFINE escalations == {c \in window : OutcomeOf[c] = "escalated"}
             sample == ReviewSample(escalations, window \ escalations)
  <2>1. escalations \subseteq sample
    BY DEF ReviewSample
  <2>2. IsFiniteSet(window) /\ window \subseteq DOMAIN Unit
    BY FS_Subset, SplitAssumption DEF SplitAssumption
  <2>3. escalations \in SUBSET window
    OBVIOUS
  <2> HIDE DEF escalations
  <2>4. sample # window => Cardinality(sample \ escalations) * EscalationPart
                             >= Cardinality(escalations) * RandomPart
    BY <2>2, <2>3, SampleKeepsTheRatio
  <2> QED
    BY <2>1, <2>4 DEF escalations
<1> QED
  BY <1>1, PTL

-----------------------------------------------------------------------------
(* The canary.  A trace on the canary would be routed there again, now and *)
(* at every later stop of the ramp; a verdict stays that of the tallies.   *)

ArmsInv ==
  /\ ratio \in 0..100
  /\ arm \in [Traces -> Arms \cup {"none"}]
  /\ \A t \in Traces :
       arm[t] = "canary" => verdict = "rollback" \/ AssignArm(t, ratio) = "canary"

\* The canary's side of the cut only grows.
LEMMA RampKeepsTheCanary ==
  ASSUME NEW t \in Traces, NEW low \in 0..100, NEW high \in 0..100, low <= high,
         AssignArm(t, low) = "canary"
  PROVE  AssignArm(t, high) = "canary"
<1>1. Unit[t] \in 0..99
  BY UnitAssumption, RoutingAssumption DEF UnitAssumption, RoutingAssumption
<1>2. ~(low <= 0) /\ (low >= 100 \/ Unit[t] < low)
  BY DEF AssignArm, Below
<1>3. CASE high >= 100
  BY <1>3 DEF AssignArm
<1>4. CASE ~(high >= 100)
  <2>1. ~(high <= 0) /\ Unit[t] < high
    BY <1>1, <1>2, <1>4
  <2> QED
    BY <1>4, <2>1 DEF AssignArm, Below
<1> QED
  BY <1>3, <1>4

\* A trace is given one of the arms.
LEMMA AssignArmType ==
  ASSUME NEW t, NEW r
  PROVE  AssignArm(t, r) \in Arms
BY DEF AssignArm, Arms

\* Every step keeps on the canary only what would be routed there.
LEMMA ArmsStep ==
  ASSUME ArmsInv, [CanaryNext]_canaryVars
  PROVE  ArmsInv'
<1> USE DEF ArmsInv
<1>1. CASE RampUp
  <2>1. PICK r \in Ratios : r > ratio /\ ratio' = r
    BY <1>1 DEF RampUp
  <2>2. r \in 0..100 /\ ratio <= r
    BY <2>1, RoutingAssumption DEF RoutingAssumption
  <2> QED
    BY <1>1, <2>1, <2>2, RampKeepsTheCanary DEF RampUp
<1>2. CASE \E t \in Traces : Route(t)
  BY <1>2, AssignArmType DEF Route
<1>3. CASE \E t \in Traces : Outcome(t)
  BY <1>3 DEF Outcome
<1>4. CASE DecideRollout
  <2>1. verdict' = "rollback" \/ ratio' = 100
    BY <1>4 DEF DecideRollout
  <2> QED
    BY <1>4, <2>1 DEF DecideRollout, AssignArm
<1>5. CASE UNCHANGED canaryVars
  BY <1>5 DEF canaryVars
<1> QED
  BY <1>1, <1>2, <1>3, <1>4, <1>5 DEF CanaryNext

\* A trace that was on the canary stays there while the ramp goes up, whatever its
\* hash, the shares of the ramp and the moments it is resumed at.
THEOREM CanaryTracesStayHolds == CanarySpec => CanaryTracesStay
<1>1. CanaryInit => ArmsInv
  BY DEF CanaryInit, ArmsInv
<1>2. ArmsInv /\ [CanaryNext]_canaryVars => ArmsInv'
  BY ArmsStep
<1>3. ArmsInv /\ [CanaryNext]_canaryVars =>
        [\A t \in Traces :
           arm[t] = "canary" /\ arm'[t] = "prod" => verdict = "rollback"]_canaryVars
  <2> SUFFICES ASSUME ArmsInv, CanaryNext, NEW t \in Traces,
                      arm[t] = "canary", arm'[t] = "prod"
               PROVE  verdict = "rollback"
    OBVIOUS
  <2>1. PICK u \in Traces : Route(u)
    BY DEF CanaryNext, RampUp, DecideRollout, Outcome, ArmsInv
  <2>2. arm'[t] = AssignArm(t, ratio)
    BY <2>1 DEF Route, ArmsInv
  <2> QED
    BY <2>2 DEF ArmsInv
<1> QED
  BY <1>1, <1>2, <1>3, PTL DEF CanarySpec, CanaryTracesStay

\* A verdict other than "inconclusive" is the rule's on tallies that count no more.
TallyInv ==
  /\ tally \in [Arms -> [n : Nat, passes : Nat]]
  /\ verdict # "inconclusive" => verdict = AbDecision(tally["canary"], tally["prod"])

\* Every step of the canary keeps the verdict that of the tallies.
LEMMA TallyStep ==
  ASSUME TallyInv, [CanaryNext]_canaryVars
  PROVE  TallyInv'
<1> USE DEF TallyInv
<1>1. CASE \E t \in Traces : Outcome(t)
  <2>1. PICK t \in Traces : Outcome(t)
    BY <1>1
  <2>2. PICK pass \in {0, 1} :
          tally' = [tally EXCEPT ![arm[t]] = [n |-> @.n + 1, passes |-> @.passes + pass]]
    BY <2>1 DEF Outcome
  <2>3. ASSUME NEW a \in Arms PROVE tally'[a] \in [n : Nat, passes : Nat]
    <3>1. CASE a = arm[t]
      <4>1. tally'[a] = [n |-> tally[a].n + 1, passes |-> tally[a].passes + pass]
        BY <2>2, <3>1
      <4> QED
        BY <4>1
    <3>2. CASE a # arm[t]
      BY <2>2, <3>2
    <3> QED
      BY <3>1, <3>2
  <2>4. tally' \in [Arms -> [n : Nat, passes : Nat]]
    BY <2>2, <2>3
  <2> QED
    BY <2>1, <2>4 DEF Outcome
<1>2. CASE DecideRollout
  BY <1>2 DEF DecideRollout
<1>3. CASE RampUp \/ (\E t \in Traces : Route(t)) \/ UNCHANGED canaryVars
  BY <1>3 DEF RampUp, Route, canaryVars
<1> QED
  BY <1>1, <1>2, <1>3 DEF CanaryNext

\* One arm leads by what the other is behind.
LEMMA LeadIsOpposed ==
  ASSUME NEW a \in [n : Nat, passes : Nat], NEW b \in [n : Nat, passes : Nat]
  PROVE  Lead(a, b) \in Int /\ Lead(b, a) = -Lead(a, b)
<1> DEFINE x == a.passes * b.n
           y == b.passes * a.n
<1>1. x \in Int /\ y \in Int
  OBVIOUS
<1>2. Lead(a, b) = 100 * (x - y) /\ Lead(b, a) = 100 * (y - x)
  BY DEF Lead
<1> HIDE DEF x, y
<1> QED
  BY <1>1, <1>2

\* The margin of a comparison is a natural number.
LEMMA MarginIsNoLess ==
  ASSUME NEW a \in [n : Nat, passes : Nat], NEW b \in [n : Nat, passes : Nat]
  PROVE  Margin * a.n * b.n \in Nat
<1>1. Margin \in Nat /\ a.n \in Nat /\ b.n \in Nat
  BY RoutingAssumption DEF RoutingAssumption
<1>2. Margin * a.n \in Nat
  BY <1>1
<1> QED
  BY <1>1, <1>2

\* The rule promotes only a canary that is ahead and rolls back only one that is behind.
LEMMA RuleFollowsTheLead ==
  ASSUME NEW a \in [n : Nat, passes : Nat], NEW b \in [n : Nat, passes : Nat],
         AbDecision(a, b) # "inconclusive"
  PROVE  /\ a.n >= MinSample /\ b.n >= MinSample
         /\ AbDecision(a, b) = "promote" <=> Lead(a, b) > 0
<1> DEFINE lead == Lead(a, b)
           bar == Margin * a.n * b.n
<1>1. lead \in Int /\ Lead(b, a) = -lead /\ bar \in Nat
  BY LeadIsOpposed, MarginIsNoLess
<1>2. a.n >= MinSample /\ b.n >= MinSample
  BY RoutingAssumption DEF AbDecision, RoutingAssumption
<1>3. AbDecision(a, b) = IF Lead(b, a) > bar THEN "rollback"
                         ELSE IF lead > bar THEN "promote" ELSE "inconclusive"
  BY <1>2, RoutingAssumption DEF AbDecision, RoutingAssumption
<1> HIDE DEF lead, bar
<1>4. AbDecision(a, b) = "promote" <=> lead > 0
  BY <1>1, <1>3
<1> QED
  BY <1>2, <1>4 DEF lead

\* A rollout is decided with both arms sampled, for the arm that is ahead, whatever
\* the minimum sample, the margin and the outcomes.
THEOREM DecidedOnEvidenceHolds == CanarySpec => []DecidedOnEvidence
<1>1. CanaryInit => TallyInv
  BY DEF CanaryInit, TallyInv
<1>2. TallyInv /\ [CanaryNext]_canaryVars => TallyInv'
  BY TallyStep
<1>3. TallyInv => DecidedOnEvidence
  <2> SUFFICES ASSUME TallyInv, verdict # "inconclusive" PROVE DecidedOnEvidence
    BY DEF DecidedOnEvidence
  <2>1. tally["canary"] \in [n : Nat, passes : Nat] /\ tally["prod"] \in [n : Nat, passes : Nat]
    BY DEF TallyInv, Arms
  <2> QED
    BY <2>1, RuleFollowsTheLead DEF TallyInv, DecidedOnEvidence
<1> QED
  BY <1>1, <1>2, <1>3, PTL DEF CanarySpec

\* The rule favours no arm: exchanging the arms turns a promotion into a rollback.
THEOREM RuleIsSymmetricHolds == CanarySpec => []RuleIsSymmetric
<1>1. ASSUME NEW a \in [n : Nat, passes : Nat], NEW b \in [n : Nat, passes : Nat]
      PROVE  AbDecision(a, b) = "promote" <=> AbDecision(b, a) = "rollback"
  <2> DEFINE lead == Lead(a, b)
             bar == Margin * a.n * b.n
  <2>1. lead \in Int /\ Lead(b, a) = -lead /\ bar \in Nat
    BY LeadIsOpposed, MarginIsNoLess
  <2>2. Margin * b.n * a.n = bar
    BY RoutingAssumption DEF RoutingAssumption
  <2>3. /\ AbDecision(a, b) = IF a.n < MinSample \/ b.n < MinSample THEN "inconclusive"
                              ELSE IF Lead(b, a) > bar THEN "rollback"
                              ELSE IF lead > bar THEN "promote" ELSE "inconclusive"
        /\ AbDecision(b, a) = IF b.n < MinSample \/ a.n < MinSample THEN "inconclusive"
                              ELSE IF lead > bar THEN "rollback"
                              ELSE IF Lead(b, a) > bar THEN "promote" ELSE "inconclusive"
    BY <2>2 DEF AbDecision
  <2> HIDE DEF lead, bar
  <2> QED
    BY <2>1, <2>3
<1>2. TallyInv => RuleIsSymmetric
  BY <1>1 DEF TallyInv, RuleIsSymmetric, Arms
<1>3. CanaryInit => TallyInv
  BY DEF CanaryInit, TallyInv
<1>4. TallyInv /\ [CanaryNext]_canaryVars => TallyInv'
  BY TallyStep
<1> QED
  BY <1>2, <1>3, <1>4, PTL DEF CanarySpec

-----------------------------------------------------------------------------
(* The Cycle of Trust.  The level alone does not say what it was earned    *)
(* by: the counters it rests on only fall where it is taken away.          *)

LadderInv ==
  /\ golden \in Nat /\ cleanRuns \in Nat /\ level \in {"L2", "L3"}
  /\ TrustIsEarned

\* Every step of the ladder keeps its invariant.
LEMMA LadderStep ==
  ASSUME LadderInv, [LadderNext]_ladderVars
  PROVE  LadderInv'
<1> USE DEF LadderInv, TrustIsEarned
<1>1. CASE RunEnds
  <2>1. PICK regressed \in BOOLEAN :
          /\ cleanRuns' = Streak(regressed)
          /\ level' = IF ShouldAutoDemote(regressed, findings) THEN "L2" ELSE level
          /\ UNCHANGED golden
    BY <1>1 DEF RunEnds
  <2>2. cleanRuns' \in Nat
    BY <2>1, LadderAssumption DEF Streak, Lesser, LadderAssumption
  <2>3. level' = "L3" => ~regressed /\ level = "L3"
    BY <2>1 DEF ShouldAutoDemote
  <2>4. level' = "L3" => cleanRuns' >= MinCleanRuns
    BY <2>1, <2>3, LadderAssumption DEF Streak, Lesser, LadderAssumption
  <2> QED
    BY <2>1, <2>2, <2>3, <2>4
<1>2. CASE Graduate
  <2>1. cleanRuns >= MinCleanRuns /\ golden >= MinGoldenSet
    BY <1>2 DEF Graduate, CheckL3Eligibility
  <2> QED
    BY <1>2, <2>1 DEF Graduate
<1>3. CASE GoldenGrows
  BY <1>3, LadderAssumption DEF GoldenGrows, LadderAssumption
<1>4. CASE \/ Calibrate \/ CalibrationExpires \/ FindingOpens \/ FindingCloses
           \/ UNCHANGED ladderVars
  BY <1>4 DEF Calibrate, CalibrationExpires, FindingOpens, FindingCloses, ladderVars
<1> QED
  BY <1>1, <1>2, <1>3, <1>4 DEF LadderNext

\* An agent at L3 has its golden set and an unbroken streak behind it, for any
\* thresholds and any order of runs, findings, calibrations and graduations.
THEOREM TrustIsEarnedHolds == LadderSpec => []TrustIsEarned
<1>1. LadderInit => LadderInv
  BY DEF LadderInit, LadderInv, TrustIsEarned
<1>2. LadderInv /\ [LadderNext]_ladderVars => LadderInv'
  BY LadderStep
<1>3. LadderInv => TrustIsEarned
  BY DEF LadderInv
<1> QED
  BY <1>1, <1>2, <1>3, PTL DEF LadderSpec

-----------------------------------------------------------------------------
(* How much is reviewed.  A halving cannot be told from a cut at the floor *)
(* by the intensity alone; against the halvings not yet made good it can.  *)

\* The intensities that are reached, on which dividing by the step loses nothing, the
\* code's numbers being no integers, or is cut off by the floor.
IsLadder(Rungs) ==
  /\ Ceiling \in Rungs /\ Rungs \subseteq Floor..Ceiling
  /\ \A x \in Rungs :
       /\ Step * (x \div Step) = x \/ x <= Floor * Step
       /\ \A regression, earnedTrust \in BOOLEAN :
            NextSamplingIntensity(x, regression, earnedTrust) \in Rungs

IsPowerUpTo(power, n) == power = [k \in 0..n |-> IF k = 0 THEN 1 ELSE Step * power[k - 1]]

\* The powers of the step are defined.
LEMMA PowersAreDefined ==
  ASSUME NEW n \in Nat
  PROVE  \E power : IsPowerUpTo(power, n)
<1> DEFINE Undefined == {m \in Nat : ~\E power : IsPowerUpTo(power, m)}
<1> SUFFICES ASSUME n \in Undefined
             PROVE  FALSE
  OBVIOUS
<1>1. PICK m \in Undefined : \A k \in Undefined : m <= k
  <2>1. Undefined \in SUBSET Nat /\ Undefined # {}
    OBVIOUS
  <2> QED
    BY <2>1, LeastOf
<1>2. m \in Nat /\ ~\E power : IsPowerUpTo(power, m)
  OBVIOUS
<1>3. m # 0
  <2> DEFINE power == [k \in 0..0 |-> 1]
  <2>1. IsPowerUpTo(power, 0)
    BY DEF IsPowerUpTo
  <2> QED
    BY <1>2, <2>1
<1>4. m - 1 \in Nat /\ m - 1 \notin Undefined
  <2>1. m - 1 \in Nat /\ ~(m <= m - 1)
    BY <1>2, <1>3
  <2> HIDE DEF Undefined
  <2> QED
    BY <1>1, <2>1
<1>5. PICK before : IsPowerUpTo(before, m - 1)
  BY <1>4
<1> DEFINE power == [k \in 0..m |-> IF k = 0 THEN 1 ELSE Step * before[k - 1]]
<1>6. \A k \in 0..(m - 1) : power[k] = before[k]
  BY <1>2, <1>5 DEF IsPowerUpTo
<1>7. IsPowerUpTo(power, m)
  <2>1. ASSUME NEW k \in 0..m
        PROVE  power[k] = IF k = 0 THEN 1 ELSE Step * power[k - 1]
    <3>1. power[k] = IF k = 0 THEN 1 ELSE Step * before[k - 1]
      OBVIOUS
    <3>2. k # 0 => k - 1 \in 0..(m - 1)
      BY <1>2
    <3> HIDE DEF power
    <3> QED
      BY <1>6, <3>1, <3>2
  <2>2. power = [k \in 0..m |-> power[k]]
    OBVIOUS
  <2> HIDE DEF power
  <2> QED
    BY <2>1, <2>2 DEF IsPowerUpTo
<1> QED
  BY <1>2, <1>7

\* And they are what one expects.
LEMMA PowersOfStep ==
  /\ PowerOfStep[0] = 1
  /\ \A n \in 1..MaxRelaxed : PowerOfStep[n] = Step * PowerOfStep[n - 1]
  /\ \A n \in 0..MaxRelaxed : PowerOfStep[n] \in Nat \ {0}
<1> DEFINE Wrong == {n \in 0..MaxRelaxed : PowerOfStep[n] \notin Nat \ {0}}
<1>1. MaxRelaxed \in Nat /\ Step \in Nat \ {0}
  BY LadderAssumption DEF LadderAssumption
<1>2. IsPowerUpTo(PowerOfStep, MaxRelaxed)
  <2>1. PowerOfStep = CHOOSE power : IsPowerUpTo(power, MaxRelaxed)
    BY DEF PowerOfStep, IsPowerUpTo
  <2> QED
    BY <1>1, <2>1, PowersAreDefined
<1>3. \A n \in 0..MaxRelaxed :
        PowerOfStep[n] = IF n = 0 THEN 1 ELSE Step * PowerOfStep[n - 1]
  BY <1>2 DEF IsPowerUpTo
<1>4. Wrong = {}
  <2> SUFFICES ASSUME Wrong # {}
               PROVE  FALSE
    OBVIOUS
  <2>1. PICK n \in Wrong : \A k \in Wrong : n <= k
    <3>1. Wrong \in SUBSET Nat
      OBVIOUS
    <3> HIDE DEF Wrong
    <3> QED
      BY <3>1, LeastOf
  <2>2. n \in 0..MaxRelaxed /\ PowerOfStep[n] \notin Nat \ {0}
    OBVIOUS
  <2>3. n # 0
    BY <1>3, <2>2
  <2>4. n - 1 \in 0..MaxRelaxed /\ ~(n <= n - 1)
    BY <1>1, <2>2, <2>3
  <2>5. n - 1 \notin Wrong
    <3> HIDE DEF Wrong
    <3> QED
      BY <2>1, <2>4
  <2>6. PowerOfStep[n - 1] \in Nat \ {0}
    BY <2>4, <2>5
  <2>7. PowerOfStep[n] = Step * PowerOfStep[n - 1]
    BY <1>3, <2>2, <2>3
  <2> QED
    BY <1>1, <2>2, <2>6, <2>7
<1>5. 0 \in 0..MaxRelaxed /\ \A n \in 1..MaxRelaxed : n \in 0..MaxRelaxed /\ n # 0
  BY <1>1
<1> QED
  BY <1>3, <1>4, <1>5

ReturnsInv(Rungs) ==
  /\ intensity \in Rungs /\ relaxed \in 0..MaxRelaxed
  /\ intensity * PowerOfStep[relaxed] >= Ceiling

\* The end of a run keeps intensity and halvings in step.
LEMMA ReturnsStep ==
  ASSUME NEW Rungs, IsLadder(Rungs), ReturnsInv(Rungs), [LadderNext]_ladderVars
  PROVE  ReturnsInv(Rungs)'
<1> DEFINE P(n) == PowerOfStep[n]
<1>1. /\ Floor \in Nat \ {0} /\ Ceiling \in Nat /\ Floor <= Ceiling /\ Step \in Nat \ {0, 1}
      /\ MaxRelaxed \in Nat
  BY LadderAssumption DEF LadderAssumption
<1>2. /\ intensity \in Floor..Ceiling /\ intensity \in Nat /\ relaxed \in 0..MaxRelaxed
      /\ P(relaxed) \in Nat \ {0} /\ intensity * P(relaxed) >= Ceiling
  BY <1>1, PowersOfStep DEF ReturnsInv, IsLadder
<1>3. CASE RunEnds
  <2>1. PICK regressed, earnedTrust \in BOOLEAN :
          /\ earnedTrust => relaxed < MaxRelaxed
          /\ intensity' = NextSamplingIntensity(intensity, regressed, earnedTrust)
          /\ relaxed' = CASE regressed -> Greater(0, relaxed - 2)
                          [] ~regressed /\ earnedTrust -> relaxed + 1
                          [] OTHER -> relaxed
    BY <1>3 DEF RunEnds
  <2>2. intensity' \in Rungs
    BY <2>1 DEF ReturnsInv, IsLadder
  <2>3. CASE regressed
    <3> DEFINE up == intensity * Step * Step
    <3>1. relaxed' = (IF relaxed > 1 THEN relaxed - 2 ELSE 0) /\ intensity' = Clamp(up)
      BY <1>2, <2>1, <2>3 DEF NextSamplingIntensity, Greater
    <3>2. relaxed' \in 0..MaxRelaxed
      BY <1>1, <1>2, <3>1
    <3>3. P(relaxed') \in Nat \ {0}
      BY <3>2, PowersOfStep
    <3>4. up * P(relaxed') >= Ceiling
      <4>1. CASE relaxed > 1
        <5>1. relaxed \in 1..MaxRelaxed /\ relaxed - 1 \in 1..MaxRelaxed /\ (relaxed - 1) - 1 = relaxed - 2
          BY <1>1, <1>2, <4>1
        <5>2. P(relaxed) = Step * P(relaxed - 1) /\ P(relaxed - 1) = Step * P(relaxed - 2)
          BY <5>1, PowersOfStep
        <5>3. relaxed' = relaxed - 2
          BY <3>1, <4>1
        <5> DEFINE p == P(relaxed - 2)
                   q == P(relaxed)
        <5>4. p \in Nat /\ q = Step * (Step * p) /\ intensity * q >= Ceiling
          BY <1>2, <3>3, <5>2, <5>3
        <5>5. up * p >= Ceiling
          <6> HIDE DEF p, q
          <6>1. intensity * (Step * (Step * p)) = up * p
            BY <1>1, <1>2, <5>4
          <6> QED
            BY <5>4, <6>1
        <5> QED
          BY <5>3, <5>5
      <4>2. CASE ~(relaxed > 1)
        <5>1. relaxed' = 0 /\ P(relaxed') = 1
          BY <3>1, <4>2, PowersOfStep
        <5>2. P(relaxed) = 1 \/ P(relaxed) = Step
          <6>1. relaxed = 0 \/ (relaxed = 1 /\ relaxed \in 1..MaxRelaxed /\ relaxed - 1 = 0)
            BY <1>1, <1>2, <4>2
          <6>2. CASE relaxed = 0
            BY <6>2, PowersOfStep
          <6>3. CASE relaxed = 1 /\ relaxed \in 1..MaxRelaxed /\ relaxed - 1 = 0
            <7>1. P(relaxed) = Step * P(0) /\ P(0) = 1
              BY <6>3, PowersOfStep
            <7> HIDE DEF P
            <7> QED
              BY <1>1, <7>1
          <6> QED
            BY <6>1, <6>2, <6>3
        <5>3. intensity <= intensity * Step /\ intensity * Step <= up
          <6>1. \A x \in Nat : x <= x * Step
            BY <1>1
          <6>2. intensity * Step \in Nat
            BY <1>1, <1>2
          <6> QED
            BY <1>2, <6>1, <6>2
        <5>4. intensity * P(relaxed) = intensity \/ intensity * P(relaxed) = intensity * Step
          BY <1>2, <5>2
        <5>5. up \in Nat /\ intensity * Step \in Nat
          BY <1>1, <1>2
        <5>6. up >= Ceiling
          <6> HIDE DEF up, P
          <6> QED
            BY <1>1, <1>2, <5>3, <5>4, <5>5
        <5>7. up * P(relaxed') = up
          <6> HIDE DEF up
          <6> QED
            BY <5>1, <5>5
        <5> QED
          BY <5>6, <5>7
      <4> QED
        BY <4>1, <4>2
    <3>5. intensity' >= up \/ intensity' = Ceiling
      <4>1. up \in Nat
        BY <1>1, <1>2
      <4> HIDE DEF up
      <4> QED
        BY <1>1, <3>1, <4>1 DEF Clamp, Lesser, Greater
    <3>6. intensity' * P(relaxed') >= Ceiling
      <4> DEFINE p == P(relaxed')
                 x == intensity'
      <4>1. x \in Nat /\ up \in Nat /\ p \in Nat \ {0}
        BY <1>1, <1>2, <2>2, <3>3 DEF IsLadder
      <4>2. CASE x >= up
        <5> HIDE DEF x, up, p
        <5>1. up * p <= x * p
          BY <4>1, <4>2, ProductsAreOrdered
        <5>2. up * p \in Int /\ x * p \in Int
          BY <4>1
        <5>3. up * p >= Ceiling
          BY <3>4 DEF p
        <5>4. x * p >= Ceiling
          BY <1>1, <5>1, <5>2, <5>3
        <5> QED
          BY <5>4 DEF x, p
      <4>3. CASE x = Ceiling
        <5> HIDE DEF x, up, p
        <5>1. x * p >= x
          BY <4>1
        <5>2. x * p >= Ceiling
          BY <4>3, <5>1
        <5> QED
          BY <5>2 DEF x, p
      <4> QED
        BY <3>5, <4>2, <4>3
    <3> QED
      BY <2>2, <3>2, <3>6 DEF ReturnsInv
  <2>4. CASE ~regressed /\ earnedTrust
    <3> DEFINE down == intensity \div Step
    <3>1. relaxed' = relaxed + 1 /\ intensity' = Clamp(down)
      BY <2>1, <2>4 DEF NextSamplingIntensity
    <3>2. relaxed' \in 1..MaxRelaxed /\ relaxed' - 1 = relaxed
      BY <1>1, <1>2, <2>1, <2>4, <3>1
    <3>3. P(relaxed') = Step * P(relaxed)
      BY <3>2, PowersOfStep
    <3>4. Step * down = intensity \/ intensity <= Floor * Step
      BY DEF ReturnsInv, IsLadder
    <3>5. down \in Nat /\ down <= Ceiling
      <4>1. down \in Nat /\ down <= intensity
        BY <1>1, <1>2
      <4> HIDE DEF down
      <4> QED
        BY <1>1, <1>2, <4>1
    <3>6. /\ intensity' \in Nat /\ intensity' >= down /\ intensity' >= Floor
      <4> HIDE DEF down
      <4> QED
        BY <1>1, <3>1, <3>5 DEF Clamp, Lesser, Greater
    <3>7. intensity <= intensity' * Step
      <4> DEFINE x == intensity'
      <4>1. down * Step <= x * Step /\ Floor * Step <= x * Step
        <5>1. /\ down \in Int /\ Floor \in Int /\ x \in Int /\ Step \in Nat
              /\ down <= x /\ Floor <= x
          BY <1>1, <3>5, <3>6
        <5> HIDE DEF x, down
        <5>2. down * Step <= x * Step
          BY <5>1, ProductsAreOrdered
        <5>3. Floor * Step <= x * Step
          BY <5>1, ProductsAreOrdered
        <5> QED
          BY <5>2, <5>3
      <4>2. down * Step = Step * down
        <5> HIDE DEF down
        <5> QED
          BY <1>1, <3>5
      <4>3. /\ x * Step \in Int /\ Floor * Step \in Int
        BY <1>1, <3>6
      <4>4. intensity <= x * Step
        <5> DEFINE a == x * Step
                   b == Floor * Step
                   c == Step * down
        <5>1. /\ c <= a /\ b <= a /\ a \in Int /\ b \in Int /\ (c = intensity \/ intensity <= b)
              /\ intensity \in Int
          BY <1>2, <3>4, <4>1, <4>2, <4>3
        <5> HIDE DEF a, b, c
        <5>2. intensity <= a
          BY <5>1
        <5> QED
          BY <5>2 DEF a
      <4> QED
        BY <4>4
    <3>8. intensity' * P(relaxed') >= Ceiling
      <4> DEFINE x == intensity'
                 p == P(relaxed)
      <4>1. p \in Nat /\ x \in Nat /\ intensity * p >= Ceiling /\ intensity <= x * Step
        BY <1>2, <3>6, <3>7
      <4>2. P(relaxed') = Step * p
        BY <3>3
      <4> HIDE DEF x, p
      <4>3. intensity * p <= (x * Step) * p
        BY <1>1, <1>2, <4>1, ProductsAreOrdered
      <4>4. (x * Step) * p = x * (Step * p)
        BY <1>1, <4>1
      <4>5. intensity * p \in Int /\ x * (Step * p) \in Int
        BY <1>1, <1>2, <4>1
      <4>6. x * (Step * p) >= Ceiling
        BY <1>1, <4>1, <4>3, <4>4, <4>5
      <4> QED
        BY <4>2, <4>6 DEF x
    <3>9. relaxed' \in 0..MaxRelaxed
      BY <1>1, <3>2
    <3> QED
      BY <2>2, <3>8, <3>9 DEF ReturnsInv
  <2>5. CASE ~regressed /\ ~earnedTrust
    <3>1. relaxed' = relaxed /\ intensity' = Clamp(intensity)
      BY <2>1, <2>5 DEF NextSamplingIntensity
    <3>2. intensity' = intensity
      BY <1>1, <1>2, <3>1 DEF Clamp, Lesser, Greater
    <3> QED
      BY <3>1, <3>2 DEF ReturnsInv
  <2> QED
    BY <2>3, <2>4, <2>5
<1>4. CASE UNCHANGED <<intensity, relaxed>>
  BY <1>4 DEF ReturnsInv
<1>5. CASE \/ Graduate \/ GoldenGrows \/ Calibrate \/ CalibrationExpires
           \/ FindingOpens \/ FindingCloses \/ UNCHANGED ladderVars
  BY <1>4, <1>5 DEF Graduate, GoldenGrows, Calibrate, CalibrationExpires, FindingOpens,
                    FindingCloses, ladderVars
<1> QED
  BY <1>3, <1>5 DEF LadderNext

\* Oversight returns faster than it was relaxed, for any floor, ceiling and step and any
\* order of regressions and relaxations, where dividing by the step is exact.
THEOREM OversightReturnsFasterHolds ==
  ASSUME NEW CONSTANT Rungs, IsLadder(Rungs)
  PROVE  LadderSpec => []OversightReturnsFaster
<1>1. LadderInit => ReturnsInv(Rungs)
  <2>1. Ceiling * 1 = Ceiling /\ Ceiling >= Ceiling /\ 0 \in 0..MaxRelaxed
    BY LadderAssumption DEF LadderAssumption
  <2> QED
    BY <2>1, PowersOfStep DEF LadderInit, ReturnsInv, IsLadder
<1>2. ReturnsInv(Rungs) /\ [LadderNext]_ladderVars => ReturnsInv(Rungs)'
  BY ReturnsStep
<1>3. ReturnsInv(Rungs) => OversightReturnsFaster
  BY DEF ReturnsInv, IsLadder, OversightReturnsFaster
<1> QED
  BY <1>1, <1>2, <1>3, PTL DEF LadderSpec

-----------------------------------------------------------------------------
(* The cards behind a rubric.  No version is ahead of the rubric, and a    *)
(* judge that has a card and whose calibration the rubric has overtaken is *)
(* asked for, so that what the calibration leaves behind is not forgotten. *)

CardsInv ==
  /\ rubric \in RubricVersions
  /\ card \in [Judges -> RubricVersions \cup {Nobody}]
  /\ calibrating \in [Judges -> RubricVersions \cup {Nobody}]
  /\ lapse \in [Judges -> RubricVersions \cup {Nobody}]
  /\ \A j \in Judges : card[j] # Nobody => card[j] <= rubric
  /\ \A j \in Judges : calibrating[j] # Nobody => calibrating[j] <= rubric
  /\ \A j \in UsingRubric :
       card[j] # Nobody /\ calibrating[j] \notin {Nobody, rubric} => j \in asked
  /\ BumpsReachStaleCards

\* Every step of the re-baseline keeps its invariant.
LEMMA CardsStep ==
  ASSUME CardsInv, [RebaselineNext]_rebaselineVars
  PROVE  CardsInv'
<1> USE DEF CardsInv, BumpsReachStaleCards
<1>0. /\ UsingRubric \subseteq Judges /\ Nobody \notin RubricVersions
      /\ \A v \in RubricVersions : v \in Nat
  BY RebaselineAssumption DEF RebaselineAssumption, RubricVersions
<1>1. CASE RubricChanges
  <2>1. rubric' \in RubricVersions /\ rubric' = rubric + 1
    BY <1>1, RebaselineAssumption DEF RubricChanges, RubricVersions, RebaselineAssumption
  <2>2. ASSUME NEW j \in Judges, card[j] # Nobody
        PROVE  card[j] <= rubric' /\ card[j] # rubric'
    <3>1. card[j] \in RubricVersions /\ card[j] <= rubric
      BY <2>2
    <3>2. card[j] \in Nat /\ rubric \in Nat
      BY <1>0, <3>1
    <3> QED
      BY <2>1, <3>1, <3>2
  <2>3. ASSUME NEW j \in Judges, calibrating[j] # Nobody
        PROVE  calibrating[j] <= rubric' /\ calibrating[j] # rubric'
    <3>1. calibrating[j] \in RubricVersions /\ calibrating[j] <= rubric
      BY <2>3
    <3>2. calibrating[j] \in Nat /\ rubric \in Nat
      BY <1>0, <3>1
    <3> QED
      BY <2>1, <3>1, <3>2
  <2>4. \A j \in UsingRubric : card[j] # Nobody => j \in asked'
    <3> SUFFICES ASSUME NEW j \in UsingRubric, card[j] # Nobody PROVE j \in asked'
      OBVIOUS
    <3>1. card[j] # rubric'
      BY <1>0, <2>1, <2>2
    <3> QED
      BY <1>1, <3>1 DEF RubricChanges, RebaselineTargets
  <2>5. /\ card' = card /\ calibrating' = calibrating /\ lapse' = lapse
        /\ asked' \subseteq UsingRubric
    BY <1>1 DEF RubricChanges, RebaselineTargets
  <2>6. /\ \A j \in Judges : card'[j] # Nobody => card'[j] <= rubric'
        /\ \A j \in Judges : calibrating'[j] # Nobody => calibrating'[j] <= rubric'
    BY <1>0, <2>2, <2>3, <2>5
  <2>7. /\ rubric' \in RubricVersions /\ card' \in [Judges -> RubricVersions \cup {Nobody}]
        /\ calibrating' \in [Judges -> RubricVersions \cup {Nobody}]
        /\ lapse' \in [Judges -> RubricVersions \cup {Nobody}]
    BY <2>1, <2>5
  <2>8. \A j \in UsingRubric : card'[j] # Nobody => j \in asked'
    BY <2>4, <2>5
  <2>9. /\ BumpsReachStaleCards'
        /\ \A j \in UsingRubric :
             card'[j] # Nobody /\ calibrating'[j] \notin {Nobody, rubric'} => j \in asked'
    BY <2>5, <2>8
  <2> QED
    BY <2>6, <2>7, <2>9
<1>2. CASE \E j \in Judges : StartBaseline(j)
  BY <1>0, <1>2 DEF StartBaseline
<1>3. CASE \E j \in Judges : EndBaseline(j, TRUE) \/ EndBaseline(j, FALSE)
  <2>1. PICK j \in Judges, isStored \in BOOLEAN : EndBaseline(j, isStored)
    BY <1>3
  <2>2. /\ card' \in [Judges -> RubricVersions \cup {Nobody}]
        /\ calibrating' \in [Judges -> RubricVersions \cup {Nobody}]
        /\ lapse' \in [Judges -> RubricVersions \cup {Nobody}]
        /\ rubric' = rubric /\ asked' = asked
    BY <2>1 DEF EndBaseline
  <2>3. \A k \in Judges : k # j => /\ card'[k] = card[k] /\ calibrating'[k] = calibrating[k]
                                   /\ lapse'[k] = lapse[k]
    BY <2>1 DEF EndBaseline
  <2>4. /\ calibrating'[j] = Nobody /\ calibrating[j] # Nobody
        /\ card'[j] = IF isStored THEN calibrating[j] ELSE card[j]
        /\ lapse'[j] = IF isStored /\ (calibrating[j] = rubric \/ card[j] # Nobody)
                       THEN Nobody ELSE rubric
    BY <2>1 DEF EndBaseline
  <2>5. j \in UsingRubric =>
          card'[j] \in {Nobody, rubric'} \/ j \in asked' \/ lapse'[j] = rubric'
    BY <2>2, <2>4
  <2> QED
    BY <1>0, <2>2, <2>3, <2>4, <2>5
<1>4. CASE UNCHANGED rebaselineVars
  BY <1>4 DEF rebaselineVars
<1> QED
  BY <1>1, <1>2, <1>3, <1>4 DEF RebaselineNext

\* A new version of the rubric reaches every card that is behind, for any judges and
\* versions, however many changes a calibration overlaps with: whoever is behind and
\* not asked for fell behind after the last change.
THEOREM BumpsReachStaleCardsHolds == RebaselineSpec => []BumpsReachStaleCards
<1>1. RebaselineInit => CardsInv
  BY RebaselineAssumption
  DEF RebaselineInit, CardsInv, BumpsReachStaleCards, RubricVersions, RebaselineAssumption
<1>2. CardsInv /\ [RebaselineNext]_rebaselineVars => CardsInv'
  BY CardsStep
<1>3. CardsInv => BumpsReachStaleCards
  BY DEF CardsInv
<1> QED
  BY <1>1, <1>2, <1>3, PTL DEF RebaselineSpec
=============================================================================
