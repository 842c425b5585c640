----------------------------- MODULE Rebaseline -----------------------------
(***************************************************************************)
(* A rubric and the Judge Cards calibrated under it.  The rubric is        *)
(* versioned; a new version asks for a re-baseline of the judges that      *)
(* rebaselineTargets names.  A calibration takes a while, binds the version*)
(* it started under and writes that on the judge's card when it ends.      *)
(*                                                                         *)
(* Which judges are stale is the code's, and a new version is the one      *)
(* trigger it names; asking for them, running the calibrations and storing *)
(* the cards is the orchestrator's part.                                   *)
(***************************************************************************)
EXTENDS Naturals

CONSTANTS
  Judges,
  UsingRubric,  \* the judges that use the rubric
  Nobody,       \* no version: no card, or no calibration in progress
  MaxRubric     \* bound on the versions of the rubric

RubricVersions == 1..MaxRubric

ASSUME RebaselineAssumption ==
  /\ UsingRubric \subseteq Judges /\ MaxRubric \in Nat \ {0} /\ Nobody \notin RubricVersions

VARIABLES
  rubric,      \* the version in force
  card,        \* card[j]: the rubric version on j's Judge Card, if it has one
  asked,       \* the judges a re-baseline is asked for
  calibrating, \* calibrating[j]: the version j's calibration started under, if one runs
  lapse        \* history, lapse[j]: the version in force when the last calibration of j to
               \* end failed, or was j's first and of an earlier version; else Nobody

rebaselineVars == <<rubric, card, asked, calibrating, lapse>>

\* As if the versions only ever moved by one between two calibrations.
TargetsOfLastVersion(rubricVersion, cards) ==
  {j \in UsingRubric : cards[j] \in RubricVersions /\ cards[j] + 1 = rubricVersion}

\* Judges without a card are omitted: they need a first calibration.
RebaselineTargets(rubricVersion, cards) ==
  {j \in UsingRubric : cards[j] # Nobody /\ cards[j] # rubricVersion}

RebaselineInit ==
  /\ rubric = 1 /\ asked = {}
  /\ card = [j \in Judges |-> Nobody] /\ calibrating = [j \in Judges |-> Nobody]
  /\ lapse = [j \in Judges |-> Nobody]

RubricChanges ==
  /\ rubric < MaxRubric /\ rubric' = rubric + 1
  /\ asked' = asked \cup RebaselineTargets(rubric', card)
  /\ UNCHANGED <<card, calibrating, lapse>>

\* A judge may be calibrated unasked: a first time, or because its card got old.
StartBaseline(j) ==
  /\ calibrating[j] = Nobody
  /\ calibrating' = [calibrating EXCEPT ![j] = rubric]
  /\ asked' = asked \ {j}
  /\ UNCHANGED <<rubric, card, lapse>>

\* The card is of the version the calibration ran under, whatever is in force now;
\* no targets are computed anew.
EndBaseline(j, isStored) ==
  /\ calibrating[j] # Nobody
  /\ card' = IF isStored THEN [card EXCEPT ![j] = calibrating[j]] ELSE card
  /\ calibrating' = [calibrating EXCEPT ![j] = Nobody]
  /\ lapse' = [lapse EXCEPT ![j] =
       IF isStored /\ (calibrating[j] = rubric \/ card[j] # Nobody) THEN Nobody ELSE rubric]
  /\ UNCHANGED <<rubric, asked>>

RebaselineNext ==
  \/ RubricChanges
  \/ \E j \in Judges : StartBaseline(j) \/ EndBaseline(j, TRUE) \/ EndBaseline(j, FALSE)

RebaselineSpec == RebaselineInit /\ [][RebaselineNext]_rebaselineVars

-----------------------------------------------------------------------------
\* A new version of the rubric reaches every card that is behind, by however many
\* versions and whatever ran while it changed: a judge whose card is not of the version
\* in force is asked for or being calibrated, unless it fell behind since that version
\* came, by a first calibration started before it or by one that failed.  None is asked
\* for that has another rubric.
BumpsReachStaleCards ==
  /\ asked \subseteq UsingRubric
  /\ \A j \in UsingRubric :
       card[j] \in {Nobody, rubric} \/ j \in asked \/ calibrating[j] # Nobody \/ lapse[j] = rubric

\* "A rubric version bump forces a re-baseline of every judge whose Judge Card still
\* carries the old version": no card stays behind the rubric without a calibration
\* of its judge asked for or in progress, whatever ran while the version changed.
StaleCardsAreAskedFor ==
  \A j \in UsingRubric :
    card[j] \in {Nobody, rubric} \/ j \in asked \/ calibrating[j] # Nobody
=============================================================================
