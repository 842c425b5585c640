--------------------------- MODULE FailureTaxonomy ---------------------------
(***************************************************************************)
(* The coding of failures: a model proposes a label, which snaps onto a    *)
(* controlled vocabulary or waits for a reviewer.                          *)
(*                                                                         *)
(* The stage of the pipeline a failure is attributed to follows from what  *)
(* its run signals; the scorecard rolls the stages up.                     *)
(*                                                                         *)
(* The coding is the code's.  Storing what it returns is the orchestrator's*)
(* part: a reviewer reads the vocabulary, decides and stores the one that  *)
(* addToVocabulary returned, while others do the same.                     *)
(*                                                                         *)
(* A label is a word in a form: "plain" is lower case with single spaces,  *)
(* "cased" has capitals, "spaced" has more spaces between its parts.       *)
(***************************************************************************)
EXTENDS Naturals, Sequences, FiniteSetsExt

CONSTANTS
  TaxonomyWords,      \* the words a label may be
  InitialVocabulary,  \* what people wrote to begin with: a sequence of labels
  Reviewers,
  NotReviewing,
  MaxCoded,           \* bound on the failures coded
  MaxFailed           \* bound on the failures attributed

Forms == {"plain", "cased", "spaced"}

TaxonomyLabels == [word : TaxonomyWords, form : Forms]

ASSUME TaxonomyAssumption ==
  InitialVocabulary \in Seq(TaxonomyLabels) /\ MaxCoded \in Nat

ASSUME StagesAssumption == MaxFailed \in Nat

VARIABLES
  vocabulary,  \* the controlled vocabulary, a sequence of labels
  coded,       \* the coded failures: [reply, label], oldest first
  reading,     \* reading[r]: the vocabulary reviewer r has read, NotReviewing otherwise
  failedRuns   \* the failures attributed so far: [signals, stage]

taxonomyVars == <<vocabulary, coded, reading>>

NormalizeLabel(label) == [label EXCEPT !.form = "plain"]

\* The first line of the model's reply, trimmed and in lower case.
OpenCode(reply) == [reply EXCEPT !.form = IF @ = "cased" THEN "plain" ELSE @]

SameForm(vocab, label) ==
  {i \in DOMAIN vocab : NormalizeLabel(vocab[i]) = NormalizeLabel(label)}

First(positions) == CHOOSE i \in positions : \A j \in positions : i <= j

AxialCode(label, vocab) ==
  IF SameForm(vocab, label) = {}
  THEN [label |-> NormalizeLabel(label), needsReview |-> TRUE]
  ELSE [label |-> vocab[First(SameForm(vocab, label))], needsReview |-> FALSE]

\* As if the reviewer's spelling were kept.
AddAsWritten(vocab, label) ==
  IF SameForm(vocab, label) # {} THEN vocab ELSE Append(vocab, label)

AddToVocabulary(vocab, label) ==
  IF SameForm(vocab, label) # {} THEN vocab ELSE Append(vocab, NormalizeLabel(label))

-----------------------------------------------------------------------------
TaxonomyInit ==
  /\ vocabulary = InitialVocabulary /\ coded = <<>>
  /\ reading = [r \in Reviewers |-> NotReviewing]

\* A proposal that matches nothing is never added by itself.
CodeFailure ==
  /\ Len(coded) < MaxCoded
  /\ \E reply \in TaxonomyLabels :
       coded' = Append(coded, [reply |-> reply,
                               label |-> AxialCode(OpenCode(reply), vocabulary).label])
  /\ UNCHANGED <<vocabulary, reading>>

StartReview(r) ==
  /\ reading[r] = NotReviewing
  /\ reading' = [reading EXCEPT ![r] = vocabulary]
  /\ UNCHANGED <<vocabulary, coded>>

\* The reviewer accepts a label, in whatever form it is written.
EndReview(r) ==
  /\ reading[r] # NotReviewing
  /\ \E label \in TaxonomyLabels : vocabulary' = AddToVocabulary(reading[r], label)
  /\ reading' = [reading EXCEPT ![r] = NotReviewing]
  /\ UNCHANGED coded

TaxonomyNext == CodeFailure \/ \E r \in Reviewers : StartReview(r) \/ EndReview(r)

TaxonomySpec == TaxonomyInit /\ [][TaxonomyNext]_taxonomyVars

-----------------------------------------------------------------------------
\* The label space is stable: coding a failure again gives the label it has, whatever
\* reviewers accepted in between and even if one overwrote what another had added.
CodingIsStable ==
  \A i \in DOMAIN coded :
    AxialCode(OpenCode(coded[i].reply), vocabulary).label = coded[i].label

\* "The vocabulary grows only through explicit human review": a label that was accepted
\* stays in it.
AcceptedStays ==
  [][\A i \in DOMAIN vocabulary : \E j \in DOMAIN vocabulary' :
       vocabulary'[j] = vocabulary[i]]_taxonomyVars

-----------------------------------------------------------------------------
\* Attribution to a stage.
PipelineStages ==
  <<"retrieval_miss", "reasoning_error", "tool_error", "verification_error">>

\* The signals, the one that outranks the others first, and the stage each blames.
Signals == <<"retrievalRecallFailed", "toolErrored", "verificationRejected">>

BlamedStage == <<"retrieval_miss", "tool_error", "verification_error">>

Raised(signals) == {i \in DOMAIN Signals : Signals[i] \in signals}

\* As if a failure were blamed on the last stage that noticed it.
InferLastStage(signals) ==
  IF Raised(signals) = {} THEN "reasoning_error" ELSE BlamedStage[Max(Raised(signals))]

\* The first match wins, reasoning is what remains.
InferStage(signals) ==
  IF Raised(signals) = {} THEN "reasoning_error" ELSE BlamedStage[Min(Raised(signals))]

StageCount(failures, stage) ==
  Cardinality({i \in DOMAIN failures : failures[i].stage = stage})

\* The rows of the stages that have failures, the most frequent first, ties in the
\* order of PipelineStages: a row's rank is how many others come before it.
StageRollup(failures) ==
  LET count == [i \in DOMAIN PipelineStages |-> StageCount(failures, PipelineStages[i])]
      failing == {i \in DOMAIN PipelineStages : count[i] > 0}
      Before(i, j) == \/ count[i] > count[j]
                      \/ count[i] = count[j] /\ i < j
      Rank(i) == 1 + Cardinality({j \in failing : Before(j, i)})
      Row(i) == [stage |-> PipelineStages[i], count |-> count[i]]
  IN [n \in 1..Cardinality(failing) |-> Row(CHOOSE i \in failing : Rank(i) = n)]

-----------------------------------------------------------------------------
StagesInit == failedRuns = <<>>

RunFailed ==
  /\ Len(failedRuns) < MaxFailed
  /\ \E signals \in SUBSET {Signals[i] : i \in DOMAIN Signals} :
       failedRuns' = Append(failedRuns, [signals |-> signals, stage |-> InferStage(signals)])

StagesNext == RunFailed

StagesSpec == StagesInit /\ [][StagesNext]_failedRuns

-----------------------------------------------------------------------------
\* The rows of the scorecard account for every failure once, largest first, and a
\* retrieval that missed is counted as that and nothing else, whatever it made fail
\* downstream: it is "never blended".
RetrievalIsNeverBlended ==
  LET rollup == StageRollup(failedRuns)
      CountOf(stage) == {rollup[i].count : i \in {j \in DOMAIN rollup : rollup[j].stage = stage}}
      missed == {i \in DOMAIN failedRuns : "retrievalRecallFailed" \in failedRuns[i].signals}
  IN /\ CountOf("retrieval_miss") = {Cardinality(missed)} \ {0}
     /\ \A i, j \in DOMAIN rollup : i < j => rollup[i].count >= rollup[j].count
     /\ SumFunction([i \in DOMAIN rollup |-> rollup[i].count]) = Len(failedRuns)
=============================================================================
