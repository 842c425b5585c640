------------------------------ MODULE EvalGate ------------------------------
(***************************************************************************)
(* The version gate: a candidate's score on its frozen golden set against  *)
(* the stored score of the version in production.  A score is a record     *)
(* with caseSetHash, passRate (in percent) and total; prior is Null when   *)
(* there is none; judge is Null for a deterministic suite, else            *)
(* [calibrated, stale].                                                    *)
(***************************************************************************)
EXTENDS Naturals

CONSTANTS Null, MinSeedCases, Tolerance

\* What a gate decision may be.
Reasons == {"baseline-fail", "judge-uncalibrated", "empty-suite", "cold-start",
            "case-set-mismatch", "regression", "ok"}

ASSUME GateAssumption ==
  MinSeedCases \in Nat /\ Tolerance \in Nat /\ Null \notin Reasons

JudgeCannotGate(judge) == judge # Null /\ (~judge.calibrated \/ judge.stale)

\* As if a score were comparable with any other.
GateOnAnySet(current, prior, baselinePassed, judge) ==
  IF ~baselinePassed THEN "baseline-fail"
  ELSE IF JudgeCannotGate(judge) THEN "judge-uncalibrated"
  ELSE IF current.total = 0 THEN "empty-suite"
  ELSE IF prior = Null \/ current.total < MinSeedCases THEN "cold-start"
  ELSE IF current.passRate + Tolerance < prior.passRate THEN "regression"
  ELSE "ok"

\* As if the two scores were the other way round.
GateOnSwappedScores(current, prior, baselinePassed, judge) ==
  IF ~baselinePassed THEN "baseline-fail"
  ELSE IF JudgeCannotGate(judge) THEN "judge-uncalibrated"
  ELSE IF current.total = 0 THEN "empty-suite"
  ELSE IF prior = Null \/ current.total < MinSeedCases THEN "cold-start"
  ELSE IF prior.caseSetHash # current.caseSetHash THEN "case-set-mismatch"
  ELSE IF prior.passRate + Tolerance < current.passRate THEN "regression"
  ELSE "ok"

\* The first condition that applies, in the code's order.
Gate(current, prior, baselinePassed, judge) ==
  IF ~baselinePassed THEN "baseline-fail"
  ELSE IF JudgeCannotGate(judge) THEN "judge-uncalibrated"
  ELSE IF current.total = 0 THEN "empty-suite"
  ELSE IF prior = Null \/ current.total < MinSeedCases THEN "cold-start"
  ELSE IF prior.caseSetHash # current.caseSetHash THEN "case-set-mismatch"
  ELSE IF current.passRate + Tolerance < prior.passRate THEN "regression"
  ELSE "ok"

Passes(kind) == kind \in {"cold-start", "ok"}
=============================================================================
