----------------------------- MODULE ReleaseGate -----------------------------
(***************************************************************************)
(* The release of agent versions.  A model proposes a patch; what passes   *)
(* the screens becomes a candidate version, is scored on the golden set    *)
(* frozen at that moment, and is submitted to the gate, which compares it  *)
(* with the stored score of the version in production.  Meanwhile the      *)
(* golden set grows, so that stored scores are of older generations.       *)
(*                                                                         *)
(* The gate and the screens are the code's; the calls that bring their     *)
(* inputs together (score, look up the newest stored runs, promote, re-run *)
(* the prior version when the gate asks for it) are the orchestrator's.    *)
(***************************************************************************)
EXTENDS PatchScreen, EvalGate, FiniteSets

CONSTANTS
  Cases,      \* the cases the golden set may come to hold
  Unlabeled,  \* those without provenance: mined, not captured from a review
  Replies,    \* what the model may answer when asked for a patch
  Submitted,  \* [patch, minedArtifacts, knownTools] people submit
  Suites,     \* results of the baseline suite: sequences of BOOLEAN
  MaxRuns     \* bound on the eval runs stored

ASSUME ReleaseAssumption ==
  MaxRuns \in Nat /\ Null \notin Nat /\ IsFiniteSet(Cases) /\ Unlabeled \subseteq Cases

VARIABLES
  golden,     \* the golden set
  runs,       \* the stored eval runs, oldest first
  prod,       \* the version in production, Null before the first release
  candidate,  \* the version under evaluation: its number and submission, or Null
  verdict,    \* the gate's last decision on the candidate, Null before one
  released,   \* history: the run and the decision of every release
  shipped     \* history: what the version in production is of, Null before: its
              \* submission and the judge it was scored by

releaseVars == <<golden, runs, prod, candidate, verdict, released, shipped>>

\* The hash of a generation is that of its sorted case ids.
CaseSetHash(cases) == cases

\* As if the rate were of the cases there were when the last one was added.
ScoredOverOneLess(version, cases, passed) ==
  [agentVersion |-> version, caseSetHash |-> CaseSetHash(cases),
   passRate |-> IF Cardinality(cases) < 2 THEN 0
                ELSE (100 * passed) \div (Cardinality(cases) - 1),
   total |-> Cardinality(cases)]

ScoredRun(version, cases, passed) ==
  [agentVersion |-> version, caseSetHash |-> CaseSetHash(cases),
   passRate |-> IF cases = {} THEN 0 ELSE (100 * passed) \div Cardinality(cases),
   total |-> Cardinality(cases)]

RunsOf(version) == {i \in DOMAIN runs : runs[i].agentVersion = version}

\* The newest run of a version.
StoredScore(version) ==
  IF version = Null \/ RunsOf(version) = {} THEN Null ELSE runs[Max(RunsOf(version))]

IsUnanchored(items) == items = {} \/ items \cap Unlabeled # {}

CanBackReleaseGate(items) == ~IsUnanchored(items)

BaselinePassed(suite) == suite # <<>> /\ \A i \in DOMAIN suite : suite[i]

\* What may have scored a suite: code alone, or a judge in any state of calibration.
GatingJudges == {Null} \cup [calibrated : BOOLEAN, stale : BOOLEAN]

\* The stage that rejects a submission and the gate's decision, if it got there.  The
\* names of tools are looked for if the submission gives them.
EvaluateSubmission(submission, current, prior, judge) ==
  IF ~CheckAutonomy(submission.patch, submission.knownTools) THEN "autonomy"
  ELSE IF \E a \in submission.minedArtifacts : ~ScreenMinedArtifact(a) THEN "content-safety"
  ELSE Gate(current, prior, BaselinePassed(submission.baseline), judge)

\* The score curve: the runs on the set of the first run of the current version.
ScoreCurve(currentVersion) ==
  LET own == RunsOf(currentVersion) IN
  SelectSeq(runs, LAMBDA r : own = {} \/ r.caseSetHash = runs[Min(own)].caseSetHash)

-----------------------------------------------------------------------------
ReleaseInit ==
  /\ golden = {} /\ runs = <<>> /\ prod = Null /\ candidate = Null /\ verdict = Null
  /\ released = <<>> /\ shipped = Null

\* A failure is mined, or a review captured, into the golden set.
GoldenGrows ==
  /\ \E c \in Cases \ golden : golden' = golden \cup {c}
  /\ UNCHANGED <<runs, prod, candidate, verdict, released, shipped>>

\* Versions are numbered in the order of their submission.
Versions == 1..MaxRuns

NextVersion == Cardinality({runs[i].agentVersion : i \in DOMAIN runs}) + 1

Candidate(submission, suite) ==
  candidate' = [version |-> NextVersion, patch |-> submission.patch,
                minedArtifacts |-> submission.minedArtifacts,
                knownTools |-> submission.knownTools, baseline |-> suite]

\* L2: the model suggests a patch, and what the screens accept is submitted.  The
\* proposal and the submission each come with the names of the tools or without.
Suggest ==
  /\ candidate = Null /\ Len(runs) < MaxRuns
  /\ \E reply \in Replies, suite \in Suites, toolsAtProposal, toolsAtSubmission \in BOOLEAN :
       /\ ProposeAndScreen(reply, toolsAtProposal) = "accepted"
       /\ Candidate([patch |-> ProposePatch(reply).patch,
                     minedArtifacts |-> ProposePatch(reply).minedArtifacts,
                     knownTools |-> toolsAtSubmission], suite)
  /\ UNCHANGED <<golden, runs, prod, verdict, released, shipped>>

\* L1: someone submits a patch.
Assist ==
  /\ candidate = Null /\ Len(runs) < MaxRuns
  /\ \E submission \in Submitted, suite \in Suites : Candidate(submission, suite)
  /\ UNCHANGED <<golden, runs, prod, verdict, released, shipped>>

StoreRun(version) ==
  /\ Len(runs) < MaxRuns
  /\ \E passed \in 0..Cardinality(golden) :
       runs' = Append(runs, ScoredRun(version, golden, passed))
  /\ UNCHANGED <<golden, prod, candidate, released, shipped>>

ScoreCandidate ==
  /\ candidate # Null /\ RunsOf(candidate.version) = {}
  /\ StoreRun(candidate.version) /\ UNCHANGED verdict

\* The gate found the two scores to be of different sets: both versions are run on
\* the set there is now, as its reason says.
RescoreAfterMismatch ==
  /\ verdict = "case-set-mismatch"
  /\ \E version \in {prod, candidate.version} :
       /\ StoredScore(version).caseSetHash # golden
       /\ StoreRun(version)
  /\ UNCHANGED verdict

Submit ==
  /\ candidate # Null /\ RunsOf(candidate.version) # {}
  /\ \E judge \in GatingJudges :
       LET current == StoredScore(candidate.version)
           decision == EvaluateSubmission(candidate, current, StoredScore(prod), judge)
       IN /\ IF Passes(decision)
             THEN /\ prod' = candidate.version
                  /\ released' = Append(released, [run |-> current, kind |-> decision])
                  /\ shipped' = [submission |-> candidate, judge |-> judge]
             ELSE UNCHANGED <<prod, released, shipped>>
          /\ IF decision = "case-set-mismatch"
             THEN candidate' = candidate /\ verdict' = decision
             ELSE candidate' = Null /\ verdict' = Null
  /\ UNCHANGED <<golden, runs>>

ReleaseNext ==
  \/ GoldenGrows \/ Suggest \/ Assist \/ ScoreCandidate \/ RescoreAfterMismatch \/ Submit

ReleaseSpec == ReleaseInit /\ [][ReleaseNext]_releaseVars

-----------------------------------------------------------------------------
ReleaseTypeOK ==
  /\ golden \subseteq Cases
  /\ \A i \in DOMAIN runs :
       /\ runs[i].agentVersion \in Versions /\ runs[i].caseSetHash \subseteq Cases
       /\ runs[i].passRate \in 0..100 /\ runs[i].total \in 0..Cardinality(Cases)
  /\ Len(runs) <= MaxRuns /\ prod \in Versions \cup {Null}

\* A release that was not a cold start was no regression: the version it replaced
\* had a stored run on the very set the release was scored on, and the release is
\* within the tolerance of it, however the golden set grew in between.
NoRegressionReleased ==
  \A i \in DOMAIN released : released[i].kind = "ok" =>
    i > 1 /\ \E j \in DOMAIN runs :
      /\ runs[j].agentVersion = released[i - 1].run.agentVersion
      /\ runs[j].caseSetHash = released[i].run.caseSetHash
      /\ released[i].run.passRate + Tolerance >= runs[j].passRate

\* Successive releases on one frozen set lose at most the tolerance each: the pass
\* rate of a release is bounded below by that of any earlier one.
DriftIsBounded ==
  \A i, j \in DOMAIN released :
    /\ i < j
    /\ \A k \in (i + 1)..j : /\ released[k].kind = "ok"
                              /\ released[k].run.caseSetHash = released[i].run.caseSetHash
    => released[j].run.passRate + (j - i) * Tolerance >= released[i].run.passRate

\* What a run, its judge and a submission are to be: no check looks at more of them.
PassedEveryCheck(run, judge, submission) ==
  /\ run.agentVersion = submission.version /\ run.total > 0
  /\ BaselinePassed(submission.baseline) /\ ~JudgeCannotGate(judge)
  /\ \A op \in submission.patch.ops :
       /\ op.field \in AllowedPatchFields /\ op.value \cap {"directive", "injection"} = {}
       /\ submission.knownTools => "tool" \notin op.value
  /\ submission.patch.toolsBefore # <<>> /\ submission.patch.toolsAfter # <<>>
       => submission.patch.toolsBefore = submission.patch.toolsAfter
  /\ \A a \in submission.minedArtifacts :
       a.trust = "trusted" /\ a.text \cap {"injection", "pii", "instruction"} = {}

\* Nothing gets around a check, whoever proposed it: what is in production was scored
\* itself, on a set that is not empty and by code or by a judge that may gate, and
\* passed the baseline, the first version no less than a later one.  It touches the
\* allowed fields only and leaves the tools alone, carries no directive and no injection,
\* nor the name of a tool where the names were given, and what it is said to be made of
\* is clean.
ReleasedThroughEveryCheck ==
  shipped # Null =>
    PassedEveryCheck(released[Len(released)].run, shipped.judge, shipped.submission)

\* "This enforces the boundary mechanically: ... references to real tool names": no patch
\* that names a tool is released, whether or not the names of the tools were passed.
NoToolNameReleased ==
  shipped # Null => \A op \in shipped.submission.patch.ops : "tool" \notin op.value

\* "No poisoned mined artifact becomes durable behaviour": no released example carries
\* personal data or an instruction, whether or not the artifact was passed along.
NoPoisonReleased ==
  shipped # Null =>
    \A op \in shipped.submission.patch.ops :
      op.field = "few_shot" => op.value \cap {"pii", "instruction"} = {}

\* "An unanchored set must NOT back Loop-License / release gates": no version is
\* released on a set with a case nobody is known to have labeled.
ReleasedOnAnchoredSet ==
  \A i \in DOMAIN released : CanBackReleaseGate(released[i].run.caseSetHash)

\* "Score curve over time for the CURRENT frozen case set only": once the version in
\* production has a run on the golden set there is now, the curve is of that set.
ScoreCurveIsCurrent ==
  prod # Null /\ StoredScore(prod).caseSetHash = golden =>
    \A i \in DOMAIN ScoreCurve(prod) : ScoreCurve(prod)[i].caseSetHash = golden
=============================================================================
