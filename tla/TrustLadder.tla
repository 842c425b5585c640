----------------------------- MODULE TrustLadder -----------------------------
(***************************************************************************)
(* The Cycle of Trust of one agent.  Its runs are clean or regress, its    *)
(* golden set grows, its judge's calibration expires and is renewed, and   *)
(* assurance findings open and close; from these it is promoted to         *)
(* judge-gated improvement (L3) and demoted, and the share of its outcomes *)
(* that people review goes down and up.                                    *)
(*                                                                         *)
(* The three decisions are the code's (checkL3Eligibility,                 *)
(* shouldAutoDemote, nextSamplingIntensity); that demotion is evaluated at *)
(* the end of a run, and the streak of clean runs starts over on a         *)
(* regression, is what their comments ask of the caller.                   *)
(***************************************************************************)
EXTENDS Integers

CONSTANTS
  Unknown,       \* an input of the eligibility check that the caller omits
  MinGoldenSet, MinCleanRuns,
  Floor, Ceiling, Step,  \* of the sampling intensity, in units of 1/Ceiling
  MaxFindings, MaxGolden, MaxRelaxed

ASSUME LadderAssumption ==
  /\ MinGoldenSet \in Nat /\ MinCleanRuns \in Nat \ {0}
  /\ Floor \in Nat \ {0} /\ Ceiling \in Nat /\ Floor <= Ceiling /\ Step \in Nat \ {0, 1}
  /\ MaxFindings \in Nat /\ MaxGolden \in Nat /\ MaxRelaxed \in Nat

VARIABLES
  golden,      \* size of the golden set, bounded by MaxGolden
  calibration, \* "none", "fresh" or "stale"; fresh and stale are stratified
  cleanRuns,   \* consecutive clean runs, counted up to MinCleanRuns
  findings,    \* open critical or high findings
  level,       \* "L2" or "L3"
  intensity,   \* share of outcomes reviewed
  relaxed      \* history: halvings not yet made good by an escalation

ladderVars == <<golden, calibration, cleanRuns, findings, level, intensity, relaxed>>

Lesser(a, b) == IF a < b THEN a ELSE b
Greater(a, b) == IF a > b THEN a ELSE b

\* As if the streak were not asked for.
EligibleWithoutStreak(input) ==
  /\ input.independentGatingJudgeAvailable
  /\ input.goldenSetSize >= MinGoldenSet
  /\ input.calibrationStratified /\ ~input.calibrationStale
  /\ input.openCriticalOrHigh \in {0, Unknown}

\* An omitted streak counts as none, an omitted number of findings as zero.
CheckL3Eligibility(input) ==
  /\ input.goldenSetSize >= MinGoldenSet
  /\ input.calibrationStratified /\ ~input.calibrationStale
  /\ input.independentGatingJudgeAvailable
  /\ input.consecutiveCleanRuns # Unknown /\ input.consecutiveCleanRuns >= MinCleanRuns
  /\ input.openCriticalOrHigh \in {0, Unknown}

\* As if an agent graduated with findings open but few.
EligibleWithFewFindings(input) ==
  /\ input.goldenSetSize >= MinGoldenSet
  /\ input.calibrationStratified /\ ~input.calibrationStale
  /\ input.independentGatingJudgeAvailable
  /\ input.consecutiveCleanRuns # Unknown /\ input.consecutiveCleanRuns >= MinCleanRuns
  /\ input.openCriticalOrHigh \in {0, 1, Unknown}

ShouldAutoDemote(regressed, openCriticalOrHigh) == regressed \/ openCriticalOrHigh > 0

Clamp(value) == Lesser(Ceiling, Greater(Floor, value))

\* As if an escalation climbed one rung, as a relaxation goes down one.
NextIntensityByOneRung(current, regression, earnedTrust) ==
  CASE regression -> Clamp(current * Step)
    [] ~regression /\ earnedTrust -> Clamp(current \div Step)
    [] OTHER -> Clamp(current)

NextSamplingIntensity(current, regression, earnedTrust) ==
  CASE regression -> Clamp(current * Step * Step)
    [] ~regression /\ earnedTrust -> Clamp(current \div Step)
    [] OTHER -> Clamp(current)

-----------------------------------------------------------------------------
LadderInit ==
  /\ golden = 0 /\ calibration = "none" /\ cleanRuns = 0 /\ findings = 0
  /\ level = "L2" /\ intensity = Ceiling /\ relaxed = 0

GoldenGrows ==
  /\ golden < MaxGolden /\ golden' = golden + 1
  /\ UNCHANGED <<calibration, cleanRuns, findings, level, intensity, relaxed>>

Calibrate ==
  /\ calibration # "fresh" /\ calibration' = "fresh"
  /\ UNCHANGED <<golden, cleanRuns, findings, level, intensity, relaxed>>

CalibrationExpires ==
  /\ calibration = "fresh" /\ calibration' = "stale"
  /\ UNCHANGED <<golden, cleanRuns, findings, level, intensity, relaxed>>

FindingOpens ==
  /\ findings < MaxFindings /\ findings' = findings + 1
  /\ UNCHANGED <<golden, calibration, cleanRuns, level, intensity, relaxed>>

FindingCloses ==
  /\ findings > 0 /\ findings' = findings - 1
  /\ UNCHANGED <<golden, calibration, cleanRuns, level, intensity, relaxed>>

Streak(regressed) == IF regressed THEN 0 ELSE Lesser(cleanRuns + 1, MinCleanRuns)

\* A run ends: the streak goes on or starts over, trust decays, and the share of
\* outcomes reviewed follows.
RunEnds ==
  \E regressed, earnedTrust \in BOOLEAN :
    /\ earnedTrust => relaxed < MaxRelaxed
    /\ cleanRuns' = Streak(regressed)
    /\ level' = IF ShouldAutoDemote(regressed, findings) THEN "L2" ELSE level
    /\ intensity' = NextSamplingIntensity(intensity, regressed, earnedTrust)
    /\ relaxed' = CASE regressed -> Greater(0, relaxed - 2)
                     [] ~regressed /\ earnedTrust -> relaxed + 1
                     [] OTHER -> relaxed
    /\ UNCHANGED <<golden, calibration, findings>>

\* The agent is considered for judge-gated improvement.
Graduate ==
  /\ level = "L2"
  /\ \E independentJudge \in BOOLEAN, openFindings \in {findings, Unknown} :
       CheckL3Eligibility(
         [goldenSetSize |-> golden, calibrationStratified |-> calibration # "none",
          calibrationStale |-> calibration = "stale",
          independentGatingJudgeAvailable |-> independentJudge,
          consecutiveCleanRuns |-> cleanRuns, openCriticalOrHigh |-> openFindings])
  /\ level' = "L3"
  /\ UNCHANGED <<golden, calibration, cleanRuns, findings, intensity, relaxed>>

LadderNext ==
  \/ GoldenGrows \/ Calibrate \/ CalibrationExpires \/ FindingOpens \/ FindingCloses
  \/ RunEnds \/ Graduate

LadderSpec == LadderInit /\ [][LadderNext]_ladderVars

-----------------------------------------------------------------------------
\* An agent improves under a judge's gate only while its streak stands: one
\* regression takes the level away, and the way back is a whole streak ("trust
\* decays, it is not sticky").
TrustIsEarned == level = "L3" => cleanRuns >= MinCleanRuns /\ golden >= MinGoldenSet

PowerOfStep[n \in 0..MaxRelaxed] == IF n = 0 THEN 1 ELSE Step * PowerOfStep[n - 1]

\* "Oversight returns faster than it was relaxed": one regression makes good two
\* relaxations, whatever the order they came in and the rungs the floor cut off.
OversightReturnsFaster ==
  intensity \in Floor..Ceiling /\ intensity * PowerOfStep[relaxed] >= Ceiling

\* "Zero open Critical/High findings - a fail-closed allowlist of conditions": an
\* agent does not graduate while a finding is open.
NoGraduationWithFindings ==
  [][level = "L2" /\ level' = "L3" => findings = 0]_ladderVars
=============================================================================
