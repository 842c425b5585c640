---------------------------- MODULE RetrievalEval ----------------------------
(***************************************************************************)
(* The evaluation of an agent's retrieval: a change of its configuration is*)
(* run on the retrieval cases until its last gate decisions let it ship.   *)
(*                                                                         *)
(* Metrics, gate and pass^3 are the code's.  Running the harness, storing  *)
(* what the next change is compared with and scoring it again when the     *)
(* cases change is the orchestrator's part.                                *)
(*                                                                         *)
(* Recall and MRR are exact, in parts of Scale; the discount of NDCG is    *)
(* 1 / log2(position + 2) in thousandths.                                  *)
(***************************************************************************)
EXTENDS Naturals, Sequences, SequencesExt, FiniteSetsExt

CONSTANTS
  NoRun,           \* no prior run, or no change under evaluation
  Queries,         \* the retrieval cases there may come to be
  Grade,           \* Grade[q][m]: the graded relevance of memory m, 0 if irrelevant
  Rankings,        \* what the index may answer: sequences of memories
  TopK,            \* the k of the gated recall
  RecallTolerance, \* in parts of Scale
  Rescores,        \* whether the prior configuration is run again on new cases
  MaxGateRuns      \* bound on the runs of one change

\* A mean over up to four cases of fractions with denominators up to four.
Scale == 144

\* By position, in thousandths.
Discount == <<1000, 631, 500, 431>>

ASSUME RetrievalAssumption ==
  /\ TopK \in Nat \ {0} /\ RecallTolerance \in 0..Scale /\ Rescores \in BOOLEAN
  /\ MaxGateRuns \in Nat
  /\ Cardinality(Queries) <= 4
  /\ \A q \in Queries :
       /\ Grade[q] \in [DOMAIN Grade[q] -> Nat]
       /\ IsFiniteSet(DOMAIN Grade[q]) /\ Cardinality(DOMAIN Grade[q]) <= 4
       /\ Rankings \subseteq Seq(DOMAIN Grade[q])
  /\ \A r \in Rankings : Len(r) <= Len(Discount)

VARIABLES
  caseSet,     \* the retrieval cases
  prior,       \* the stored run of the configuration in production
  change,      \* the runs of the change under evaluation, oldest first
  answers      \* answers[q]: the ranking of q in the newest run

retrievalVars == <<caseSet, prior, change, answers>>

Relevant(q) == {m \in DOMAIN Grade[q] : Grade[q][m] > 0}

TopOf(ranking, k) == {ranking[i] : i \in {j \in DOMAIN ranking : j <= k}}

\* As if the top of the ranking were sliced from its other end.
BottomRecall(ranking, relevant, k) ==
  IF relevant = {} THEN 0
  ELSE (Scale * Cardinality(TopOf(Reverse(ranking), k) \cap relevant))
         \div Cardinality(relevant)

\* A case with nothing to retrieve counts as nothing retrieved.
RecallAtK(ranking, relevant, k) ==
  IF relevant = {} THEN 0
  ELSE (Scale * Cardinality(TopOf(ranking, k) \cap relevant)) \div Cardinality(relevant)

ReciprocalRank(ranking, relevant) ==
  LET hits == {i \in DOMAIN ranking : ranking[i] \in relevant}
  IN IF hits = {} THEN 0 ELSE Scale \div Min(hits)

Dcg(grades, k) ==
  SumFunctionOnSet([i \in DOMAIN grades |-> grades[i] * Discount[i]],
                   {i \in DOMAIN grades : i <= k})

\* The grades of a case, the best first: the one at position i has fewer than i
\* above it, and at least i with itself and its equals.
IdealGrades(grade) ==
  LET graded == {m \in DOMAIN grade : grade[m] > 0}
  IN [i \in 1..Cardinality(graded) |->
        CHOOSE g \in {grade[m] : m \in graded} :
          /\ Cardinality({m \in graded : grade[m] > g}) < i
          /\ i <= Cardinality({m \in graded : grade[m] >= g})]

\* In thousandths; 0 for a case without grades.
Ndcg(ranking, grade, k) ==
  LET ideal == Dcg(IdealGrades(grade), k)
  IN IF ideal = 0 THEN 0
     ELSE (1000 * Dcg([i \in DOMAIN ranking |-> grade[ranking[i]]], k)) \div ideal

\* The mean over the cases of a run.
MeanRecall(rankings) ==
  MapThenSumSet(LAMBDA q : RecallAtK(rankings[q], Relevant(q), TopK), DOMAIN rankings)
    \div Cardinality(DOMAIN rankings)

Run(rankings) ==
  [recall |-> IF DOMAIN rankings = {} THEN 0 ELSE MeanRecall(rankings),
   n |-> Cardinality(DOMAIN rankings), caseSetHash |-> DOMAIN rankings]

\* No case is a failure, no prior run a pass, and then there is the tolerance.
RetrievalGate(current, before) ==
  /\ current.n > 0
  /\ before = NoRun \/ current.recall + RecallTolerance >= before.recall

\* As if any three passes were enough.
PassThreeTimes(history) == Cardinality({i \in DOMAIN history : history[i]}) >= 3

\* The last three decisions are there and are passes.
PassCubed(history) ==
  Len(history) >= 3 /\ \A i \in (Len(history) - 2)..Len(history) : history[i]

-----------------------------------------------------------------------------
NoAnswers == [q \in {} |-> <<>>]

RetrievalInit ==
  /\ caseSet = {} /\ prior = NoRun /\ change = <<>> /\ answers = NoAnswers

\* A case is added between two evaluations.
CasesGrow ==
  /\ change = <<>>
  /\ \E q \in Queries \ caseSet : caseSet' = caseSet \cup {q}
  /\ \E rankings \in [caseSet' -> Rankings] :
       prior' = IF Rescores /\ prior # NoRun THEN Run(rankings) ELSE prior
  /\ answers' = NoAnswers
  /\ UNCHANGED change

\* The harness runs the changed configuration: an index that is rebuilt, or searched
\* approximately, need not answer twice the same.
RunHarness ==
  /\ Len(change) < MaxGateRuns
  /\ \E rankings \in [caseSet -> Rankings] :
       /\ answers' = rankings
       /\ change' = Append(change, [run |-> Run(rankings),
                                    pass |-> RetrievalGate(Run(rankings), prior)])
  /\ UNCHANGED <<caseSet, prior>>

Ship ==
  /\ PassCubed([i \in DOMAIN change |-> change[i].pass])
  /\ prior' = Last(change).run
  /\ change' = <<>> /\ answers' = NoAnswers
  /\ UNCHANGED caseSet

GiveUp ==
  /\ change # <<>>
  /\ change' = <<>> /\ answers' = NoAnswers
  /\ UNCHANGED <<caseSet, prior>>

RetrievalNext == CasesGrow \/ RunHarness \/ Ship \/ GiveUp

RetrievalSpec == RetrievalInit /\ [][RetrievalNext]_retrievalVars

-----------------------------------------------------------------------------
\* What ships held up: a change whose evaluation failed now and then has come back to
\* within the tolerance of what it replaces for three runs on end, the last of which
\* the next change is compared with, and none of them was on an empty set of cases.
ShippedHeldUpThrice ==
  [][caseSet' = caseSet /\ prior' # prior =>
       LET n == Len(change) IN
       /\ n >= 3 /\ caseSet # {} /\ prior' = change[n].run
       /\ \A i \in (n - 2)..n :
            prior = NoRun \/ change[i].run.recall + RecallTolerance >= prior.recall
    ]_retrievalVars

Swapped(ranking, i) ==
  [ranking EXCEPT ![i] = ranking[i + 1], ![i + 1] = ranking[i]]

\* A memory that is more relevant than the one ranked just before it only gains by
\* changing places with it: no metric is lower for it, at any cut, and none is above
\* that of the ideal ranking. A memory that is in the ranking twice has gained
\* nothing for the recall the second time, nor can a ranking like that be compared
\* with the ideal one.
BetterRankingsScoreNoLess ==
  \A q \in DOMAIN answers :
    LET ranking == answers[q]
        grade == Grade[q]
    IN \A k \in DOMAIN ranking :
         /\ RecallAtK(ranking, Relevant(q), k) <= Scale
         /\ Cardinality(ToSet(ranking)) = Len(ranking) => Ndcg(ranking, grade, k) <= 1000
         /\ \A i \in 1..(Len(ranking) - 1) :
              grade[ranking[i + 1]] > grade[ranking[i]] =>
                LET better == Swapped(ranking, i) IN
                /\ ranking[i + 1] \notin TopOf(ranking, i) =>
                     RecallAtK(better, Relevant(q), k) >= RecallAtK(ranking, Relevant(q), k)
                /\ ReciprocalRank(better, Relevant(q)) >= ReciprocalRank(ranking, Relevant(q))
                /\ Ndcg(better, grade, k) >= Ndcg(ranking, grade, k)

\* "The retrieval regression gate compares configurations ON THE SAME frozen set."
ComparedOnOneSet ==
  \A i \in DOMAIN change : prior # NoRun => change[i].run.caseSetHash = prior.caseSetHash
=============================================================================
