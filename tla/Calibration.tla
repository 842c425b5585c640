----------------------------- MODULE Calibration -----------------------------
(***************************************************************************)
(* What a judge's calibration reports of its verdicts on labeled examples, *)
(* when a stored calibration is stale and what a Judge Card's status is.   *)
(*                                                                         *)
(* Rates are compared in integers.  The Wilson lower bound of successes out*)
(* of n exceeds the threshold t exactly when successes / n does and        *)
(* n * (successes / n - t)^2 > z^2 * t * (1 - t), for z = 1.96.            *)
(***************************************************************************)
EXTENDS Naturals, Integers, Sequences, FiniteSets

CONSTANTS
  Threshold,    \* in percent
  MinPerClass,
  MaxAge        \* the age at which a calibration expires, in days

ASSUME CalibrationAssumption ==
  Threshold \in 1..99 /\ MinPerClass \in Nat /\ MaxAge \in Nat

\* The first line of a judge's reply, by the words of the verdict vocabulary.
PassWords == {"pass", "supported", "yes", "true"}

\* A reply is the set of words on its first line; a chat call that throws endorses
\* nothing.
Got(reply) == reply.answered /\ reply.words \cap PassWords # {}

Count(results, expected, got) ==
  Cardinality({i \in DOMAIN results : results[i].expected = expected /\ results[i].got = got})

WilsonLowerBoundExceeds(successes, n) ==
  LET excess == 100 * successes - Threshold * n IN
  n > 0 /\ excess > 0 /\ 10000 * excess * excess > 38416 * Threshold * (100 - Threshold) * n

\* As if catching the good ones were all that is asked of a judge.
CalibratedOnTpr(results) ==
  /\ Count(results, TRUE, TRUE) + Count(results, TRUE, FALSE) >= MinPerClass
  /\ WilsonLowerBoundExceeds(Count(results, TRUE, TRUE),
                             Count(results, TRUE, TRUE) + Count(results, TRUE, FALSE))

StratifiedCalibrated(results) ==
  LET tp == Count(results, TRUE, TRUE)
      fn == Count(results, TRUE, FALSE)
      tn == Count(results, FALSE, FALSE)
      fp == Count(results, FALSE, TRUE)
  IN /\ tp + fn >= MinPerClass /\ tn + fp >= MinPerClass
     /\ WilsonLowerBoundExceeds(tp, tp + fn)
     /\ WilsonLowerBoundExceeds(tn, tn + fp)

\* As if the model were not part of the judge.
StaleByPromptOrAge(stored, current, now) ==
  stored.prompt # current.prompt \/ now - stored.calibratedAt > MaxAge

IsCalibrationStale(stored, current, now) ==
  \/ stored.prompt # current.prompt
  \/ stored.model # current.model
  \/ now - stored.calibratedAt > MaxAge

\* As if the last day of the window were outside it.
DeriveStatusOneDayEarly(hasAnchorSample, meetsAccuracyBar, meetsEceBar, lastCalibrated, now) ==
  IF ~hasAnchorSample \/ ~meetsAccuracyBar \/ ~meetsEceBar THEN "uncalibrated"
  ELSE IF now - lastCalibrated >= MaxAge THEN "stale"
  ELSE "calibrated"

DeriveStatus(hasAnchorSample, meetsAccuracyBar, meetsEceBar, lastCalibrated, now) ==
  IF ~hasAnchorSample \/ ~meetsAccuracyBar \/ ~meetsEceBar THEN "uncalibrated"
  ELSE IF now - lastCalibrated > MaxAge THEN "stale"
  ELSE "calibrated"

CanGate(status) == status = "calibrated"
=============================================================================
