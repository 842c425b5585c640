--------------------------- MODULE JudgeLifecycle ---------------------------
(***************************************************************************)
(* A judge over its life: its prompt and model are edited, the provider    *)
(* moves what a floating alias stands for, the judge is calibrated example *)
(* by example on a labeled set, calibrations age, and the gate asks        *)
(* whether its verdicts may gate.                                          *)
(*                                                                         *)
(* runJudge, the staleness check and the gate are the code's.  That a      *)
(* calibration is stored with the prompt and the model it was run with, and*)
(* that the gate is given the stored calibration and the current judge, is *)
(* the orchestrator's part.                                                *)
(***************************************************************************)
EXTENDS Calibration

CONSTANTS
  None,
  Prompts,
  Snapshots,  \* dated model snapshots
  Aliases,    \* floating model names
  MayBeUnset, \* whether a judge may name no model
  Labels,     \* the labeled set: a sequence of BOOLEAN
  JudgeReplies, \* what the chat may answer: [answered, words]
  MaxClock

ASSUME JudgeAssumption ==
  /\ MaxClock \in Nat /\ MayBeUnset \in BOOLEAN /\ Labels \in Seq(BOOLEAN)
  /\ Snapshots \cap Aliases = {} /\ None \notin Snapshots \cup Aliases

VARIABLES
  now,
  judge,        \* the judge there is: [prompt, model]; model None names none
  alias,        \* the snapshot the provider serves for a floating name
  run,          \* the calibration in progress, or None
  calibration   \* the stored calibration, or None

judgeVars == <<now, judge, alias, run, calibration>>

Models == Snapshots \cup Aliases \cup (IF MayBeUnset THEN {None} ELSE {})

\* The model that answers when the judge names this one.
Served(model) == IF model \in Snapshots THEN model ELSE alias

JudgeInit ==
  /\ now = 0
  /\ judge \in [prompt : Prompts, model : Models]
  /\ alias \in Snapshots
  /\ run = None /\ calibration = None

JudgeEdited ==
  /\ judge' \in [prompt : Prompts, model : Models] \ {judge}
  /\ UNCHANGED <<now, alias, run, calibration>>

ProviderRotates ==
  /\ alias' \in Snapshots \ {alias}
  /\ UNCHANGED <<now, judge, run, calibration>>

\* A judge model that is named must be a dated snapshot, or runJudge throws.
MayRun(model) == model = None \/ model \in Snapshots

StartCalibration ==
  /\ run = None /\ MayRun(judge.model)
  /\ run' = [prompt |-> judge.prompt, model |-> judge.model, results |-> <<>>,
             measured |-> {}]
  /\ UNCHANGED <<now, judge, alias, calibration>>

\* The next example is put to the model the run started with.
JudgeExample ==
  /\ run # None /\ Len(run.results) < Len(Labels)
  /\ \E reply \in JudgeReplies :
       run' = [run EXCEPT
         !.results = Append(@, [expected |-> Labels[Len(@) + 1], got |-> Got(reply),
                                reply |-> reply]),
         !.measured = @ \cup {Served(run.model)}]
  /\ UNCHANGED <<now, judge, alias, calibration>>

FinishCalibration ==
  /\ run # None /\ Len(run.results) = Len(Labels)
  /\ calibration' =
       [prompt |-> run.prompt, model |-> run.model, calibratedAt |-> now,
        calibrated |-> StratifiedCalibrated(run.results),
        replies |-> {run.results[i].reply : i \in DOMAIN Labels},
        measured |-> run.measured]
  /\ run' = None
  /\ UNCHANGED <<now, judge, alias>>

Tick ==
  /\ now < MaxClock /\ now' = now + 1
  /\ UNCHANGED <<judge, alias, run, calibration>>

JudgeNext ==
  \/ JudgeEdited \/ ProviderRotates \/ StartCalibration \/ JudgeExample
  \/ FinishCalibration \/ Tick

JudgeSpec == JudgeInit /\ [][JudgeNext]_judgeVars

\* What the gate answers when it is asked now: it refuses a judge that is not
\* calibrated or whose calibration is stale.
MayGate ==
  /\ calibration # None
  /\ calibration.calibrated
  /\ ~IsCalibrationStale(calibration, judge, now)

-----------------------------------------------------------------------------
\* A judge gates only on verdicts it gave itself, with the prompt it has and from
\* the model snapshot that serves it, at most MaxAge days ago: edits, provider
\* refreshes, age and calibrations that overlap with them included.
GatesOnItsOwnMeasurement ==
  MayGate =>
    /\ calibration.prompt = judge.prompt
    /\ calibration.measured = {Served(judge.model)}
    /\ now - calibration.calibratedAt <= MaxAge

\* A judge that gives the same answer whatever it is asked never gates, nor one
\* that never answers.
RubberStampNeverGates ==
  MayGate => Cardinality(calibration.replies) > 1

\* "Answer only PASS if the item is supported, otherwise FAIL": a reply that says
\* FAIL and not PASS on its first line endorses nothing.
FailIsNoEndorsement ==
  run # None =>
    \A i \in DOMAIN run.results :
      "fail" \in run.results[i].reply.words /\ "pass" \notin run.results[i].reply.words
        => ~run.results[i].got

\* The two rules of what may gate agree: a judge whose calibration the staleness
\* check lets through has a Judge Card whose status, derived now, may gate too.
StatusRulesAgree ==
  MayGate => CanGate(DeriveStatus(TRUE, calibration.calibrated, TRUE,
                                  calibration.calibratedAt, now))
=============================================================================
