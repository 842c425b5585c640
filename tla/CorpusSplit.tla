----------------------------- MODULE CorpusSplit -----------------------------
(***************************************************************************)
(* The eval corpus of an agent as it grows.  Cases are mined from traffic  *)
(* and captured from reviews.  The code has two splits of it, which know   *)
(* nothing of each other: one into the proposer's side, the gate's and a   *)
(* sealed part that is the gating judge's alone, and one into what the     *)
(* improver trains on and what is held out.                                *)
(*                                                                         *)
(* The splits, the composition cap and the review sample are the code's;   *)
(* when a case is added, a patch tuned or a version scored is the          *)
(* orchestrator's.                                                         *)
(***************************************************************************)
EXTENDS HashUnit, FiniteSets

CONSTANTS
  Cases,           \* the ids of the cases there may be, each with a hash
  OutcomeOf,       \* the outcome each case was mined from
  MaxFailures,     \* maxFailureFraction, in percent
  SealedFraction,  \* of partitionCorpus, in percent
  GateFraction,
  HoldOut,         \* gateFraction of splitTrainGate, in percent: any
  EscalationPart, RandomPart  \* the declared review ratio

ASSUME SplitAssumption ==
  /\ Cases \subseteq DOMAIN Unit
  /\ SealedFraction \in Nat /\ GateFraction \in Nat /\ HoldOut \in Nat /\ MaxFailures \in 0..100
  /\ EscalationPart \in Nat \ {0} /\ RandomPart \in Nat

VARIABLES
  corpus,    \* the cases of the corpus
  tuned,     \* the cases a patch was tuned on, of the proposer's side
  scored,    \* the cases versions were scored on, of the gate's side
  judged,    \* the cases the gating judge was shown
  trained,   \* the cases the improver was trained on, of the other split
  heldOut    \* the cases versions were scored on that it holds out

corpusVars == <<corpus, tuned, scored, judged, trained, heldOut>>

\* What has been consumed, whichever split it came from.
Consumed == tuned \cup trained

Failures(cases) == {c \in cases : OutcomeOf[c] \in {"fail", "escalated"}}

\* An empty set is within any cap.
WithinFailureCap(cases) ==
  100 * Cardinality(Failures(cases)) <= MaxFailures * Cardinality(cases)

\* As if the cut depended on what there is to cut.
SealedFirst(cases) ==
  {c \in cases : 100 * Cardinality({d \in cases : Unit[d] < Unit[c]})
                   < SealedFraction * Cardinality(cases)}

Sealed(cases) == {c \in cases : Below(c, SealedFraction)}

GateSet(cases) ==
  {c \in cases : ~Below(c, SealedFraction) /\ Below(c, SealedFraction + GateFraction)}

Tuning(cases) == {c \in cases : ~Below(c, SealedFraction + GateFraction)}

\* The other split of the code: gate cases by the same hash and one fraction.
SplitTrain(cases) == {c \in cases : ~Below(c, HoldOut)}

SplitGate(cases) == {c \in cases : Below(c, HoldOut)}

ExcludeConsumed(scoring, used) == scoring \ used

\* As if the share were rounded down.
RoutineShareDown(escalations) == (Cardinality(escalations) * RandomPart) \div EscalationPart

RoutineShare(escalations) ==
  (Cardinality(escalations) * RandomPart + EscalationPart - 1) \div EscalationPart

\* All escalations and the routine items of lowest hash, as many as the ratio says.
ReviewSample(escalations, routine) ==
  LET pool == routine \ escalations IN
  escalations \cup
    {c \in pool : Cardinality({d \in pool : Unit[d] < Unit[c]}) < RoutineShare(escalations)}

-----------------------------------------------------------------------------
CorpusInit ==
  /\ corpus = {} /\ tuned = {} /\ scored = {} /\ judged = {} /\ trained = {} /\ heldOut = {}

\* A case is mined if the set stays within its failure cap.
Mine ==
  /\ \E c \in Cases \ corpus :
       /\ WithinFailureCap(corpus \cup {c})
       /\ corpus' = corpus \cup {c}
  /\ UNCHANGED <<tuned, scored, judged, trained, heldOut>>

\* The reviewed sample of a window of traffic becomes golden candidates.
CaptureReviews ==
  /\ \E window \in SUBSET (Cases \ corpus) :
       LET escalations == {c \in window : OutcomeOf[c] = "escalated"} IN
       /\ escalations # {}
       /\ corpus' = corpus \cup ReviewSample(escalations, window \ escalations)
  /\ UNCHANGED <<tuned, scored, judged, trained, heldOut>>

\* A patch is tuned on the proposer's side of the corpus, or the improver trained on
\* the training side of the other split.
Tune ==
  /\ \E cases \in SUBSET Tuning(corpus) : tuned' = tuned \cup cases
  /\ UNCHANGED <<corpus, scored, judged, trained, heldOut>>

Train ==
  /\ \E cases \in SUBSET SplitTrain(corpus) : trained' = trained \cup cases
  /\ UNCHANGED <<corpus, tuned, scored, judged, heldOut>>

\* A version is scored on the gate's side, or on what the other split holds out.
Score ==
  /\ scored' = scored \cup ExcludeConsumed(GateSet(corpus), Consumed)
  /\ UNCHANGED <<corpus, tuned, judged, trained, heldOut>>

ScoreHeldOut ==
  /\ heldOut' = heldOut \cup ExcludeConsumed(SplitGate(corpus), Consumed)
  /\ UNCHANGED <<corpus, tuned, scored, judged, trained>>

Judge ==
  /\ judged' = judged \cup Sealed(corpus)
  /\ UNCHANGED <<corpus, tuned, scored, trained, heldOut>>

CorpusNext == Mine \/ CaptureReviews \/ Tune \/ Train \/ Score \/ ScoreHeldOut \/ Judge

CorpusSpec == CorpusInit /\ [][CorpusNext]_corpusVars

-----------------------------------------------------------------------------
\* No case is ever on two sides of a split: what a patch was tuned on was never scored
\* and never shown to the gating judge, before or after, and what was trained on never
\* scored as held out, as the corpus grows and whatever fractions the splits have.
NoLeakage ==
  /\ tuned \cap scored = {} /\ tuned \cap judged = {} /\ scored \cap judged = {}
  /\ trained \cap heldOut = {}

\* The same of the two splits together: "the proposer can never train on it".  What the
\* one holds out the other may train on once it is scored, and what the gating judge
\* alone should see the other may train on at any time.
NoLeakageAcrossSplits == Consumed \cap (scored \cup judged \cup heldOut) = {}

\* Whoever is escalated is reviewed, and the random arm keeps its declared share:
\* a captured window never adds more escalations than the ratio allows for the
\* routine cases it adds, unless it ran out of them.
ReviewsKeepTheRatio ==
  \A window \in SUBSET (Cases \ corpus) :
    LET escalations == {c \in window : OutcomeOf[c] = "escalated"}
        sample == ReviewSample(escalations, window \ escalations)
    IN /\ escalations \subseteq sample
       /\ sample # window =>
            Cardinality(sample \ escalations) * EscalationPart
              >= Cardinality(escalations) * RandomPart
=============================================================================
