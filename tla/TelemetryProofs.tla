--------------------------- MODULE TelemetryProofs ---------------------------
(***************************************************************************)
(* What the runs check of the sampling of traces, of the coding of         *)
(* failures, of the identity and the trend of their clusters and of the    *)
(* drift of an agent's mix of calls, proved for every value of the         *)
(* constants.                                                              *)
(***************************************************************************)
EXTENDS TraceSampling, FailureTaxonomy, ClusterIdentity, ClusterTrend, BehaviorDrift,
        DataLemmas

-----------------------------------------------------------------------------
SpanType == [phase : {"none", "open", "ended"}, start : Nat, end : Nat,
             outcome : Outcomes \cup {"none"}, keep : BOOLEAN, error : BOOLEAN]

SpansInv ==
  /\ now \in Nat
  /\ span \in [Spans -> SpanType]
  /\ span["task"].phase # "none"

FlagsInv ==
  /\ reported \/ span["task"].outcome \in {"fail", "escalated"} => span["task"].keep
  /\ failed \subseteq Spans
  /\ \A t \in failed \cap Tools : Ended(t) /\ span[t].error

BufferInv ==
  /\ arrived \subseteq Spans /\ seen \subseteq arrived
  /\ \A s \in arrived : Ended(s)
  /\ decision # "pending" /\ KeepPolicy(seen) => decision = "kept"

SamplingInv == SpansInv /\ FlagsInv /\ BufferInv

\* The only span a step may change is one that has not ended.
LEMMA EndedSpansAreFrozen ==
  ASSUME SpansInv, [SamplingNext]_samplingVars
  PROVE  \A s \in Spans : Ended(s) => span'[s] = span[s]
<1> USE DEF SpansInv, Ended, Open
<1>1. CASE \E t \in Tools : CallTool(t) \/ ToolReturns(t) \/ ToolThrows(t)
  BY <1>1 DEF CallTool, ToolReturns, ToolThrows, EndSpan
<1>2. CASE \E outcome \in Outcomes : RecordOutcome(outcome)
  BY <1>2 DEF RecordOutcome
<1>3. CASE TaskReturns \/ TaskThrows
  BY <1>3 DEF TaskReturns, TaskThrows, EndSpan
<1>4. CASE (\E s \in Spans : Arrive(s)) \/ DecideOnTrace \/ Tick \/ UNCHANGED samplingVars
  BY <1>4 DEF Arrive, DecideOnTrace, Tick, samplingVars
<1> QED
  BY <1>1, <1>2, <1>3, <1>4 DEF SamplingNext

\* Ends and flags of a span are set once, by the SDK; the clock only goes on.
LEMMA SpansStep ==
  ASSUME SpansInv, [SamplingNext]_samplingVars
  PROVE  SpansInv'
<1> USE DEF SpansInv
<1>1. "task" \in Spans /\ Tools \subseteq Spans /\ "task" \notin Tools
  BY SamplingAssumption DEF Spans, SamplingAssumption
<1>2. ASSUME NEW t \in Tools, CallTool(t)
      PROVE  SpansInv'
  <2>1. [NotStarted EXCEPT !.phase = "open", !.start = now] \in SpanType
    BY DEF NotStarted, SpanType
  <2> QED
    BY <1>1, <1>2, <2>1 DEF CallTool
<1>3. ASSUME NEW s \in Spans, NEW error \in BOOLEAN, EndSpan(s, error)
      PROVE  span' \in [Spans -> SpanType] /\ span'["task"].phase # "none"
  <2>1. [span[s] EXCEPT !.phase = "ended", !.end = now, !.error = error] \in SpanType
    BY DEF SpanType
  <2>2. span' = [span EXCEPT ![s] = [span[s] EXCEPT !.phase = "ended", !.end = now,
                                                    !.error = error]]
    BY <1>3 DEF EndSpan, SpanType
  <2>3. [span[s] EXCEPT !.phase = "ended", !.end = now, !.error = error].phase = "ended"
    BY DEF SpanType
  <2> QED
    BY <1>1, <2>1, <2>2, <2>3
<1>4. ASSUME NEW outcome \in Outcomes, RecordOutcome(outcome)
      PROVE  SpansInv'
  <2>1. ASSUME NEW keep \in BOOLEAN
        PROVE  [span["task"] EXCEPT !.outcome = outcome, !.keep = keep] \in SpanType
    BY <1>1 DEF SpanType
  <2>2. PICK keep \in BOOLEAN :
          span' = [span EXCEPT !["task"] = [span["task"] EXCEPT !.outcome = outcome,
                                                               !.keep = keep]]
    BY <1>1, <1>4 DEF RecordOutcome, SpanType
  <2>3. [span["task"] EXCEPT !.outcome = outcome, !.keep = keep].phase = span["task"].phase
    BY <1>1 DEF SpanType
  <2> QED
    BY <1>1, <1>4, <2>1, <2>2, <2>3 DEF RecordOutcome
<1>5. ASSUME NEW t \in Tools, ToolReturns(t) \/ ToolThrows(t)
      PROVE  SpansInv'
  BY <1>1, <1>3, <1>5 DEF ToolReturns, ToolThrows
<1>6. CASE TaskReturns \/ TaskThrows
  BY <1>1, <1>3, <1>6 DEF TaskReturns, TaskThrows
<1>7. CASE (\E s \in Spans : Arrive(s)) \/ DecideOnTrace \/ Tick \/ UNCHANGED samplingVars
  BY <1>7 DEF Arrive, DecideOnTrace, Tick, samplingVars
<1> QED
  BY <1>2, <1>4, <1>5, <1>6, <1>7 DEF SamplingNext

\* Whatever ended as a failure has told its own span and that of the task.
LEMMA FlagsStep ==
  ASSUME SpansInv, FlagsInv, [SamplingNext]_samplingVars
  PROVE  FlagsInv'
<1> USE DEF SpansInv, SpanType, FlagsInv, Ended
<1>1. "task" \in Spans /\ Tools \subseteq Spans /\ "task" \notin Tools
  BY SamplingAssumption DEF Spans, SamplingAssumption
<1>2. ASSUME NEW t \in Tools, CallTool(t) \/ ToolReturns(t) \/ ToolThrows(t)
      PROVE  FlagsInv'
  BY <1>1, <1>2
  DEF CallTool, ToolReturns, ToolThrows, EndSpan, Open
<1>3. ASSUME NEW outcome \in Outcomes, RecordOutcome(outcome)
      PROVE  FlagsInv'
  BY <1>1, <1>3 DEF RecordOutcome, Open, Outcomes
<1>4. CASE TaskReturns \/ TaskThrows
  BY <1>1, <1>4 DEF TaskReturns, TaskThrows, EndSpan
<1>5. CASE (\E s \in Spans : Arrive(s)) \/ DecideOnTrace \/ Tick \/ UNCHANGED samplingVars
  BY <1>5 DEF Arrive, DecideOnTrace, Tick, samplingVars
<1> QED
  BY <1>2, <1>3, <1>4, <1>5 DEF SamplingNext

\* The Collector decides on the spans it has seen.
LEMMA BufferStep ==
  ASSUME SpansInv, BufferInv, [SamplingNext]_samplingVars
  PROVE  BufferInv'
<1>1. \A s \in Spans : Ended(s) => span'[s] = span[s]
  BY EndedSpansAreFrozen
<1>2. KeepPolicy(seen)' <=> IF seen' = seen THEN KeepPolicy(seen) ELSE KeepPolicy(seen)'
  BY <1>1 DEF BufferInv, KeepPolicy, SlowTrace
<1>3. CASE \E s \in Spans : Arrive(s)
  BY <1>1, <1>2, <1>3 DEF BufferInv, Arrive, Ended
<1>4. CASE DecideOnTrace
  BY <1>1, <1>4 DEF BufferInv, DecideOnTrace, Ended, KeepPolicy, SlowTrace
<1>5. CASE UNCHANGED <<arrived, seen, decision>>
  BY <1>1, <1>2, <1>5 DEF BufferInv, Ended
<1> QED
  BY <1>3, <1>4, <1>5
  DEF SamplingNext, samplingVars, CallTool, ToolReturns, ToolThrows, RecordOutcome,
      TaskReturns, TaskThrows, Tick

\* The three parts together are inductive.
LEMMA SamplingInvariant == SamplingSpec => []SamplingInv
<1>1. SamplingInit => SamplingInv
  <2> SUFFICES ASSUME SamplingInit
               PROVE  SamplingInv
    OBVIOUS
  <2>1. NotStarted \in SpanType /\ [NotStarted EXCEPT !.phase = "open"] \in SpanType
    BY DEF NotStarted, SpanType
  <2>2. "task" \in Spans /\ span["task"] = [NotStarted EXCEPT !.phase = "open"]
    BY DEF SamplingInit, Spans
  <2>3. span["task"].phase = "open" /\ span["task"].outcome = "none"
    BY <2>2 DEF NotStarted
  <2>4. SpansInv
    BY <2>1, <2>3 DEF SamplingInit, SpansInv
  <2> QED
    BY <2>3, <2>4 DEF SamplingInit, SamplingInv, FlagsInv, BufferInv
<1>2. SamplingInv /\ [SamplingNext]_samplingVars => SamplingInv'
  BY SpansStep, FlagsStep, BufferStep DEF SamplingInv
<1> QED
  BY <1>1, <1>2, PTL DEF SamplingSpec

\* A whole trace with a tool that threw, or a task that ever reported a failure, is
\* kept (keepTrace and the error status set in sdk/trace.ts), whatever the tools,
\* their number, the waits of the Collector and the order in which spans arrive.
THEOREM FailuresKeptHolds == SamplingSpec => []FailuresKept
<1>1. SamplingInv => FailuresKept
  <2> SUFFICES ASSUME SamplingInv, DecidedOnAll, failed \cap Tools # {} \/ reported
               PROVE  decision = "kept"
    BY DEF FailuresKept
  <2>1. \E s \in Spans : s \in seen /\ (span[s].keep \/ span[s].error)
    BY DEF SamplingInv, SpansInv, FlagsInv, DecidedOnAll, Spans, Ended
  <2> QED
    BY <2>1 DEF SamplingInv, BufferInv, DecidedOnAll, KeepPolicy
<1> QED
  BY <1>1, SamplingInvariant, PTL

\* What the SDK's tailKeepDecision keeps, given the span of the task, the policies of
\* the Collector keep, given the whole trace, for any limit of slowness.
THEOREM ModelIsSoundHolds == SamplingSpec => []ModelIsSound
<1>1. SamplingInv => ModelIsSound
  <2> SUFFICES ASSUME SamplingInv, DecidedOnAll,
                      TailKeepDecision(span["task"].outcome, span["task"].keep,
                                       span["task"].end - span["task"].start)
               PROVE  decision = "kept"
    BY DEF ModelIsSound
  <2>1. "task" \in seen
    BY DEF SamplingInv, SpansInv, DecidedOnAll, Spans
  <2>2. span["task"].keep \/ span["task"].end >= span["task"].start + SlowMs
    BY SamplingAssumption
    DEF SamplingInv, SpansInv, SpanType, FlagsInv, TailKeepDecision, Spans, SamplingAssumption
  <2> QED
    BY <2>1, <2>2 DEF SamplingInv, BufferInv, DecidedOnAll, KeepPolicy, SlowTrace
<1> QED
  BY <1>1, SamplingInvariant, PTL

-----------------------------------------------------------------------------
\* A vocabulary people wrote to begin with, and labels that were accepted.
GrownFrom(initial, vocab) ==
  /\ vocab \in Seq(TaxonomyLabels) /\ Len(initial) <= Len(vocab)
  /\ \A i \in 1..Len(initial) : vocab[i] = initial[i]
  /\ \A i \in (Len(initial) + 1)..Len(vocab) : vocab[i].form = "plain"

InitialCode(label) == AxialCode(label, InitialVocabulary).label

TaxonomyInv ==
  /\ GrownFrom(InitialVocabulary, vocabulary)
  /\ \A r \in Reviewers :
       reading[r] # NotReviewing => GrownFrom(InitialVocabulary, reading[r])
  /\ coded \in Seq([reply : TaxonomyLabels, label : TaxonomyLabels])
  /\ \A i \in DOMAIN coded : coded[i].label = InitialCode(OpenCode(coded[i].reply))

\* What open coding or normalizing makes of a label is a label, and normalizing twice
\* is normalizing once.
LEMMA PlainLabel ==
  ASSUME NEW label \in TaxonomyLabels
  PROVE  /\ NormalizeLabel(label) \in TaxonomyLabels
         /\ OpenCode(label) \in TaxonomyLabels
         /\ NormalizeLabel(label).form = "plain"
         /\ label.form = "plain" => NormalizeLabel(label) = label
BY DEF NormalizeLabel, OpenCode, TaxonomyLabels, Forms

\* The first of the positions is one of them and is determined by being first.
LEMMA FirstIsFirst ==
  ASSUME NEW positions \in SUBSET Nat, NEW i \in positions, \A j \in positions : i <= j
  PROVE  First(positions) = i
<1>1. First(positions) \in positions /\ \A j \in positions : First(positions) <= j
  BY DEF First
<1>2. First(positions) <= i /\ i <= First(positions)
  BY <1>1
<1>3. First(positions) \in Nat /\ i \in Nat
  BY <1>1
<1> QED
  BY <1>2, <1>3

\* Where there are positions, there is a first one.
LEMMA FirstExists ==
  ASSUME NEW positions \in SUBSET Nat, positions # {}
  PROVE  First(positions) \in positions /\ \A j \in positions : First(positions) <= j
BY LeastOf DEF First

\* Coding with a vocabulary that has grown gives the label it gave to begin with.
LEMMA GrowthKeepsCoding ==
  ASSUME NEW initial \in Seq(TaxonomyLabels), NEW vocab, GrownFrom(initial, vocab),
         NEW label \in TaxonomyLabels
  PROVE  AxialCode(label, vocab).label = AxialCode(label, initial).label
<1> DEFINE Old == SameForm(initial, label)
           All == SameForm(vocab, label)
<1>1. /\ Old \subseteq 1..Len(initial) /\ All \subseteq 1..Len(vocab)
      /\ \A i \in 1..Len(initial) : i \in Old <=> i \in All
  BY DEF SameForm, GrownFrom
<1>2. CASE Old # {}
  <2>1. First(Old) \in Old /\ \A j \in Old : First(Old) <= j
    BY <1>1, <1>2, FirstExists
  <2>2. First(Old) \in All /\ \A j \in All : First(Old) <= j
    BY <1>1, <2>1
  <2>3. First(All) = First(Old)
    BY <1>1, <2>2, FirstIsFirst
  <2>4. vocab[First(Old)] = initial[First(Old)]
    BY <1>1, <2>1 DEF GrownFrom
  <2> QED
    BY <1>2, <2>2, <2>3, <2>4 DEF AxialCode
<1>3. CASE Old = {} /\ All # {}
  <2>1. First(All) \in All
    BY <1>1, <1>3, FirstExists
  <2>2. First(All) \in (Len(initial) + 1)..Len(vocab)
    BY <1>1, <1>3, <2>1
  <2>3. vocab[First(All)] \in TaxonomyLabels /\ vocab[First(All)].form = "plain"
    BY <2>2 DEF GrownFrom
  <2>4. vocab[First(All)] = NormalizeLabel(label)
    BY <2>1, <2>3, PlainLabel DEF SameForm
  <2> QED
    BY <1>3, <2>4 DEF AxialCode
<1>4. CASE Old = {} /\ All = {}
  BY <1>4 DEF AxialCode
<1> QED
  BY <1>2, <1>3, <1>4

\* Accepting a code leaves the ones before it where they are.
LEMMA AcceptingGrows ==
  ASSUME NEW initial \in Seq(TaxonomyLabels), NEW vocab, GrownFrom(initial, vocab),
         NEW label \in TaxonomyLabels
  PROVE  GrownFrom(initial, AddToVocabulary(vocab, label))
<1>1. Append(vocab, NormalizeLabel(label)) \in Seq(TaxonomyLabels)
  BY PlainLabel DEF GrownFrom
<1> QED
  BY <1>1, PlainLabel DEF GrownFrom, AddToVocabulary

\* Coding gives a label.
LEMMA CodeType ==
  ASSUME NEW vocab \in Seq(TaxonomyLabels), NEW label \in TaxonomyLabels
  PROVE  AxialCode(label, vocab).label \in TaxonomyLabels
<1>1. CASE SameForm(vocab, label) = {}
  BY <1>1, PlainLabel DEF AxialCode
<1>2. CASE SameForm(vocab, label) # {}
  <2>1. SameForm(vocab, label) \subseteq Nat
    BY DEF SameForm
  <2>2. First(SameForm(vocab, label)) \in DOMAIN vocab
    BY <1>2, <2>1, FirstExists DEF SameForm
  <2> QED
    BY <1>2, <2>2 DEF AxialCode
<1> QED
  BY <1>1, <1>2

\* A label that was stored is coded again as it is, in every step.
LEMMA TaxonomyStep ==
  ASSUME TaxonomyInv, [TaxonomyNext]_taxonomyVars
  PROVE  TaxonomyInv'
<1> USE DEF TaxonomyInv
<1>1. CASE CodeFailure
  <2>1. PICK reply \in TaxonomyLabels :
          coded' = Append(coded, [reply |-> reply,
                                  label |-> AxialCode(OpenCode(reply), vocabulary).label])
    BY <1>1 DEF CodeFailure
  <2>2. AxialCode(OpenCode(reply), vocabulary).label = InitialCode(OpenCode(reply))
    BY PlainLabel, GrowthKeepsCoding, TaxonomyAssumption
    DEF TaxonomyAssumption, InitialCode
  <2>3. InitialCode(OpenCode(reply)) \in TaxonomyLabels
    BY PlainLabel, CodeType, TaxonomyAssumption DEF TaxonomyAssumption, InitialCode
  <2>4. coded' \in Seq([reply : TaxonomyLabels, label : TaxonomyLabels])
    BY <2>1, <2>2, <2>3
  <2>5. \A i \in DOMAIN coded' : coded'[i].label = InitialCode(OpenCode(coded'[i].reply))
    BY <2>1, <2>2
  <2> QED
    BY <1>1, <2>4, <2>5 DEF CodeFailure, InitialCode
<1>2. ASSUME NEW r \in Reviewers, StartReview(r)
      PROVE  TaxonomyInv'
  BY <1>2 DEF StartReview, InitialCode
<1>3. ASSUME NEW r \in Reviewers, EndReview(r)
      PROVE  TaxonomyInv'
  BY <1>3, AcceptingGrows, TaxonomyAssumption DEF EndReview, TaxonomyAssumption, InitialCode
<1>4. CASE UNCHANGED taxonomyVars
  BY <1>4 DEF taxonomyVars, InitialCode
<1> QED
  BY <1>1, <1>2, <1>3, <1>4 DEF TaxonomyNext

\* A failure that was coded is coded the same for good (axialCode of
\* failures/taxonomy.ts), for any vocabulary to begin with, any reviewers and any
\* interleaving of what they load and store.
THEOREM CodingIsStableHolds == TaxonomySpec => []CodingIsStable
<1>1. TaxonomyInit => TaxonomyInv
  BY TaxonomyAssumption DEF TaxonomyInit, TaxonomyInv, GrownFrom, TaxonomyAssumption
<1>2. TaxonomyInv /\ [TaxonomyNext]_taxonomyVars => TaxonomyInv'
  BY TaxonomyStep
<1>3. TaxonomyInv => CodingIsStable
  <2> SUFFICES ASSUME TaxonomyInv, NEW i \in DOMAIN coded
               PROVE  AxialCode(OpenCode(coded[i].reply), vocabulary).label = coded[i].label
    BY DEF CodingIsStable
  <2>1. i \in 1..Len(coded) /\ coded[i] \in [reply : TaxonomyLabels, label : TaxonomyLabels]
    <3>1. coded \in Seq([reply : TaxonomyLabels, label : TaxonomyLabels])
      BY DEF TaxonomyInv
    <3> QED
      BY <3>1, LenProperties
  <2>2. OpenCode(coded[i].reply) \in TaxonomyLabels
    BY <2>1, PlainLabel
  <2> QED
    BY <2>2, GrowthKeepsCoding, TaxonomyAssumption
    DEF TaxonomyInv, InitialCode, TaxonomyAssumption
<1> QED
  BY <1>1, <1>2, <1>3, PTL DEF TaxonomySpec

-----------------------------------------------------------------------------
\* The first m candidates are assigned as matchClusters does.
AssignedUpTo(f, priors, candidates, m) ==
  f = [n \in 1..m |-> Assign(priors, candidates[n], ClaimedBefore(f, n))]

\* The recursion over the clusters of a run has a value, one cluster after the other.
LEMMA MatchingIsDefined ==
  ASSUME NEW priors, NEW candidates, NEW m \in Nat
  PROVE  \E f : AssignedUpTo(f, priors, candidates, m)
<1> DEFINE Undefined == {k \in Nat : ~\E f : AssignedUpTo(f, priors, candidates, k)}
<1> SUFFICES ASSUME m \in Undefined
             PROVE  FALSE
  OBVIOUS
<1>1. PICK k \in Undefined : \A j \in Undefined : k <= j
  <2>1. Undefined \subseteq Nat /\ Undefined # {}
    OBVIOUS
  <2> QED
    BY <2>1, LeastOf
<1>2. k # 0
  <2>1. AssignedUpTo([n \in 1..0 |-> 0], priors, candidates, 0)
    BY DEF AssignedUpTo
  <2> QED
    BY <1>1, <2>1
<1>3. k - 1 \in Nat /\ k - 1 \notin Undefined
  BY <1>1, <1>2
<1>4. PICK f : AssignedUpTo(f, priors, candidates, k - 1)
  BY <1>3
<1> DEFINE g == [n \in 1..k |-> IF n = k THEN Assign(priors, candidates[k], ClaimedBefore(f, k))
                                         ELSE f[n]]
<1>5. \A n \in 1..k : ClaimedBefore(g, n) = ClaimedBefore(f, n)
  <2> TAKE n \in 1..k
  <2>1. \A j \in 1..(n - 1) : g[j] = f[j]
    BY <1>3
  <2> QED
    BY <2>1 DEF ClaimedBefore
<1>6. AssignedUpTo(g, priors, candidates, k)
  <2> SUFFICES ASSUME NEW n \in 1..k
               PROVE  g[n] = Assign(priors, candidates[n], ClaimedBefore(f, n))
    BY <1>5 DEF AssignedUpTo
  <2>1. CASE n # k
    <3>1. n \in 1..(k - 1)
      BY <1>3, <2>1
    <3>2. f[n] = Assign(priors, candidates[n], ClaimedBefore(f, n))
      BY <1>4, <3>1 DEF AssignedUpTo
    <3> QED
      BY <2>1, <3>2
  <2> QED
    BY <2>1
<1> QED
  BY <1>1, <1>6

\* And matchClusters is that value.
LEMMA MatchingAssigns ==
  ASSUME NEW priors, NEW m \in Nat, NEW candidates, DOMAIN candidates = 1..m
  PROVE  AssignedUpTo(MatchClusters(priors, candidates), priors, candidates, m)
<1>1. MatchClusters(priors, candidates)
        = CHOOSE f : f = [n \in DOMAIN candidates |->
                            Assign(priors, candidates[n], ClaimedBefore(f, n))]
  BY DEF MatchClusters
<1>2. \E f : f = [n \in DOMAIN candidates |->
                    Assign(priors, candidates[n], ClaimedBefore(f, n))]
  <2>1. PICK f : AssignedUpTo(f, priors, candidates, m)
    BY MatchingIsDefined
  <2> QED
    BY <2>1 DEF AssignedUpTo
<1> QED
  BY <1>1, <1>2 DEF AssignedUpTo

\* Similarities are numbers.
LEMMA CosineType ==
  ASSUME NEW x \in Labels, NEW y \in Labels
  PROVE  Cosine[<<x, y>>] \in Int /\ Threshold \in Int
<1>1. Cosine[<<x, y>>] \in 0..100 /\ Threshold \in 1..100
  BY ClusterAssumption, Zenon DEF ClusterAssumption
<1> QED
  BY <1>1

\* The clusters of the last run have ids that were given, each its own.
PriorInv ==
  /\ nextId \in Nat
  /\ \A p \in prior : p.id \in 0..(nextId - 1) /\ p.label \in Labels
  /\ \A p, q \in prior : p.id = q.id => p = q

ClusterInv == PriorInv /\ AlertsAreForNewSeries /\ SeriesContinue

\* What a candidate of a run is assigned: its own id, or that of a cluster of the run
\* before which it is similar to and which is not claimed.
LEMMA AssignedId ==
  ASSUME PriorInv, NEW candidate, NEW claimed
  PROVE  LET a == Assign(prior, candidate, claimed) IN
         /\ a.candidate = candidate
         /\ ~a.carriedOver => a.assignedId = candidate.id
         /\ a.carriedOver => \E p \in prior : /\ p.id = a.assignedId /\ p.id \notin claimed
                                             /\ Similar(candidate.label, p.label)
<1> DEFINE best == BestMatches(prior, candidate, claimed)
           ids == {p.id : p \in best}
<1>1. best \subseteq prior
      /\ \A p \in best : p.id \notin claimed /\ Similar(candidate.label, p.label)
  BY DEF BestMatches
<1>2. CASE best = {}
  BY <1>2 DEF Assign
<1>3. CASE best # {}
  <2>1. nextId \in Nat /\ ids \in SUBSET (0..nextId) /\ ids # {}
    BY <1>1, <1>3 DEF PriorInv
  <2>2. \E i \in ids : \A j \in ids : j <= i
    BY ONLY <2>1, LargestOf
  <2>3. \E i \in ids : \A p \in best : p.id <= i
    BY <2>2
  <2> DEFINE newest == CHOOSE i \in ids : \A p \in best : p.id <= i
  <2>4. newest \in ids
    BY <2>3
  <2>5. Assign(prior, candidate, claimed)
          = [candidate |-> candidate, carriedOver |-> TRUE, assignedId |-> newest]
    BY <1>3 DEF Assign
  <2> HIDE DEF newest
  <2> QED
    BY <1>1, <2>4, <2>5
<1> QED
  BY <1>2, <1>3

\* A run of the clustering, as the proofs below see it.
LEMMA RunAssigns ==
  ASSUME PriorInv, NEW labels \in LabelSeqs, Run(labels)
  PROVE  LET a == last'.assignments IN
         /\ Len(labels) \in Nat /\ labels \in [1..Len(labels) -> Labels]
         /\ last'.priors = prior /\ DOMAIN a = 1..Len(labels)
         /\ \A n \in 1..Len(labels) :
              a[n] = Assign(prior, [id |-> nextId + n - 1, label |-> labels[n]],
                            ClaimedBefore(a, n))
<1> DEFINE candidates == Candidates(labels, nextId)
           a == MatchClusters(prior, candidates)
<1>1. PICK m \in Nat : labels \in [1..m -> Labels]
  BY ClusterAssumption DEF LabelSeqs, ClusterAssumption
<1>2. m = Len(labels) /\ DOMAIN candidates = 1..m
  BY <1>1 DEF Candidates
<1>3. AssignedUpTo(a, prior, candidates, m)
  BY <1>1, <1>2, MatchingAssigns
<1>4. last'.priors = prior /\ last'.assignments = a
  BY DEF Run
<1>5. \A n \in 1..m : candidates[n] = [id |-> nextId + n - 1, label |-> labels[n]]
  BY <1>1 DEF Candidates
<1> HIDE DEF a, candidates
<1> QED
  BY <1>1, <1>2, <1>3, <1>4, <1>5 DEF AssignedUpTo

\* No two clusters of a run get one id.
LEMMA RunGivesEachItsOwn ==
  ASSUME PriorInv, NEW labels \in LabelSeqs, Run(labels)
  PROVE  LET a == last'.assignments IN
         /\ \A n \in 1..Len(labels) : a[n].assignedId \in 0..(nextId + n - 1)
         /\ \A i, j \in 1..Len(labels) : a[i].assignedId = a[j].assignedId => i = j
<1> DEFINE a == last'.assignments
           Cand(n) == [id |-> nextId + n - 1, label |-> labels[n]]
<1>1. \A n \in 1..Len(labels) : a[n] = Assign(prior, Cand(n), ClaimedBefore(a, n))
  BY RunAssigns
<1>2. \A n \in 1..Len(labels) :
        /\ ~a[n].carriedOver => a[n].assignedId = nextId + n - 1
        /\ a[n].carriedOver => /\ a[n].assignedId \in 0..(nextId - 1)
                               /\ a[n].assignedId \notin ClaimedBefore(a, n)
  <2> TAKE n \in 1..Len(labels)
  <2> HIDE DEF a
  <2>1. a[n] = Assign(prior, Cand(n), ClaimedBefore(a, n))
    BY <1>1
  <2>2. /\ ~a[n].carriedOver => a[n].assignedId = Cand(n).id
        /\ a[n].carriedOver =>
             \E p \in prior : p.id = a[n].assignedId /\ p.id \notin ClaimedBefore(a, n)
    <3> HIDE DEF Cand
    <3> QED
      BY <2>1, AssignedId
  <2> QED
    BY <2>2 DEF PriorInv
<1>3. Len(labels) \in Nat /\ nextId \in Nat
  BY RunAssigns DEF PriorInv
<1> HIDE DEF a
<1>4. ASSUME NEW i \in 1..Len(labels), NEW j \in 1..Len(labels), i < j
      PROVE  a[i].assignedId # a[j].assignedId
  <2>1. a[i].carriedOver => a[i].assignedId \in ClaimedBefore(a, j)
    BY <1>3, <1>4 DEF ClaimedBefore
  <2> QED
    BY <1>2, <1>3, <1>4, <2>1
<1>5. \A i, j \in 1..Len(labels) : a[i].assignedId = a[j].assignedId => i = j
  BY <1>3, <1>4
<1>6. \A n \in 1..Len(labels) : a[n].assignedId \in 0..(nextId + n - 1)
  BY <1>2, <1>3
<1> QED
  BY <1>5, <1>6 DEF a

\* The next run compares with what this one stored.
LEMMA PriorStep ==
  ASSUME PriorInv, [ClusterNext]_clusterVars
  PROVE  PriorInv'
<1>1. ASSUME NEW labels \in LabelSeqs, Run(labels)
      PROVE  PriorInv'
  <2> DEFINE a == last'.assignments
  <2>1. DOMAIN labels = 1..Len(labels) /\ Len(labels) \in Nat /\ nextId \in Nat
        /\ \A n \in 1..Len(labels) : labels[n] \in Labels
    BY <1>1, RunAssigns DEF PriorInv
  <2>2. \A n \in 1..Len(labels) : a[n].assignedId \in 0..(nextId + n - 1)
    BY <1>1, RunGivesEachItsOwn
  <2>3. \A i, j \in 1..Len(labels) : a[i].assignedId = a[j].assignedId => i = j
    BY <1>1, RunGivesEachItsOwn
  <2>4. /\ prior' = {[id |-> a[i].assignedId, label |-> labels[i]] : i \in 1..Len(labels)}
        /\ nextId' = nextId + Len(labels)
    BY <1>1, <2>1 DEF Run
  <2> HIDE DEF a
  <2>5. \A p \in prior' : p.id \in 0..(nextId' - 1) /\ p.label \in Labels
    BY <2>1, <2>2, <2>4
  <2>6. \A p, q \in prior' : p.id = q.id => p = q
    BY <2>3, <2>4
  <2> QED
    BY <2>1, <2>4, <2>5, <2>6 DEF PriorInv
<1>2. CASE UNCHANGED clusterVars
  BY <1>2 DEF clusterVars, PriorInv
<1> QED
  BY <1>1, <1>2 DEF ClusterNext

\* What is new to isNewCluster is similar to nothing matchClusters could continue.
LEMMA AlertsStep ==
  ASSUME PriorInv, AlertsAreForNewSeries, [ClusterNext]_clusterVars
  PROVE  AlertsAreForNewSeries'
<1>1. ASSUME NEW labels \in LabelSeqs, Run(labels), NEW i \in last'.alerts,
             last'.assignments[i].carriedOver
      PROVE  FALSE
  <2> DEFINE a == last'.assignments
             cand == [id |-> nextId + i - 1, label |-> labels[i]]
             claimed == ClaimedBefore(a, i)
  <2>1. i \in 1..Len(labels)
        /\ \A x \in {p.label : p \in prior} : Cosine[<<labels[i], x>>] < Threshold
    BY <1>1, RunAssigns DEF Run, IsNewCluster
  <2>2. a[i] = Assign(prior, cand, claimed) /\ cand.label = labels[i] /\ labels[i] \in Labels
    BY <1>1, <2>1, RunAssigns
  <2> HIDE DEF a, cand, claimed
  <2>3. PICK p \in prior : Similar(cand.label, p.label)
    BY <1>1, <2>2, AssignedId DEF a
  <2>4. Cosine[<<labels[i], p.label>>] \in Int /\ Threshold \in Int
    BY <2>2, CosineType DEF PriorInv
  <2> QED
    BY <2>1, <2>2, <2>3, <2>4 DEF Similar
<1>2. CASE UNCHANGED clusterVars
  BY <1>2 DEF clusterVars, AlertsAreForNewSeries
<1> QED
  BY <1>1, <1>2 DEF ClusterNext, AlertsAreForNewSeries

\* A run keeps the claims about the ids it gave out.
LEMMA SeriesStep ==
  ASSUME PriorInv, SeriesContinue, [ClusterNext]_clusterVars
  PROVE  SeriesContinue'
<1>1. ASSUME NEW labels \in LabelSeqs, Run(labels)
      PROVE  SeriesContinue'
  <2> DEFINE a == last'.assignments
             Cand(n) == [id |-> nextId + n - 1, label |-> labels[n]]
  <2>1. /\ DOMAIN a = 1..Len(labels) /\ Len(labels) \in Nat /\ last'.priors = prior
        /\ \A n \in 1..Len(labels) : labels[n] \in Labels
        /\ \A n \in 1..Len(labels) : a[n] = Assign(prior, Cand(n), ClaimedBefore(a, n))
    BY <1>1, RunAssigns
  <2>2. \A i, j \in 1..Len(labels) : a[i].assignedId = a[j].assignedId => i = j
    BY <1>1, RunGivesEachItsOwn
  <2> HIDE DEF a
  <2>3. \A n \in 1..Len(labels) : a[n].candidate.label = labels[n]
    <3> TAKE n \in 1..Len(labels)
    <3>1. a[n].candidate = Cand(n)
      <4> HIDE DEF Cand
      <4> QED
        BY <2>1, AssignedId
    <3> QED
      BY <3>1
  <2>4. IsInjective([i \in DOMAIN a |-> a[i].assignedId])
    BY <2>1, <2>2 DEF IsInjective
  <2>5. ASSUME NEW i \in 1..Len(labels), NEW p \in prior, Similar(labels[i], p.label),
               Unambiguous([n \in 1..Len(labels) |-> labels[n]], prior)
        PROVE  a[i].assignedId = p.id
    <3>1. p.id \notin ClaimedBefore(a, i)
      <4> SUFFICES ASSUME p.id \in ClaimedBefore(a, i)
                   PROVE  FALSE
        OBVIOUS
      <4>1. PICK j \in 1..(i - 1) : a[j].carriedOver /\ p.id = a[j].assignedId
        BY DEF ClaimedBefore
      <4>2. j \in 1..Len(labels) /\ j # i
        BY <2>1, <4>1
      <4>3. PICK q \in prior : q.id = a[j].assignedId /\ Similar(Cand(j).label, q.label)
        <5>1. a[j] = Assign(prior, Cand(j), ClaimedBefore(a, j))
          BY <2>1, <4>2
        <5> HIDE DEF Cand
        <5> QED
          BY <4>1, <5>1, AssignedId
      <4>4. q = p /\ Similar(labels[j], p.label)
        BY <4>1, <4>3 DEF PriorInv
      <4> QED
        BY <2>5, <4>2, <4>4 DEF Unambiguous
    <3>2. p \in BestMatches(prior, Cand(i), ClaimedBefore(a, i))
      <4>1. ASSUME NEW q \in prior
            PROVE  Cosine[<<labels[i], q.label>>] <= Cosine[<<labels[i], p.label>>]
        <5>1. /\ Cosine[<<labels[i], q.label>>] \in Int /\ Threshold \in Int
              /\ Cosine[<<labels[i], p.label>>] \in Int
          BY <2>1, CosineType DEF PriorInv
        <5>2. Similar(labels[i], q.label) => q = p
          BY <2>5 DEF Unambiguous
        <5>3. CASE q = p
          BY <5>1, <5>3
        <5>4. CASE q # p
          <6> DEFINE mine == Cosine[<<labels[i], p.label>>]
                     other == Cosine[<<labels[i], q.label>>]
          <6>1. ~(other >= Threshold) /\ mine >= Threshold
            BY <2>5, <5>2, <5>4 DEF Similar
          <6>2. mine \in Int /\ other \in Int /\ Threshold \in Int
            BY <5>1
          <6> HIDE DEF mine, other
          <6>3. other <= mine
            BY <6>1, <6>2
          <6> QED
            BY <6>3 DEF mine, other
        <5> QED
          BY <5>3, <5>4
      <4> QED
        BY <2>5, <3>1, <4>1 DEF BestMatches
    <3>3. a[i] = Assign(prior, Cand(i), ClaimedBefore(a, i))
      BY <2>1
    <3>4. a[i].carriedOver
      BY <3>2, <3>3 DEF Assign
    <3>5. PICK q \in prior : q.id = a[i].assignedId /\ Similar(Cand(i).label, q.label)
      <4> HIDE DEF Cand
      <4> QED
        BY <3>3, <3>4, AssignedId
    <3>6. q = p
      BY <2>5, <3>5 DEF Unambiguous
    <3> QED
      BY <3>5, <3>6
  <2>6. [i \in DOMAIN a |-> a[i].candidate.label] = [n \in 1..Len(labels) |-> labels[n]]
    BY <2>1, <2>3
  <2> QED
    BY <2>1, <2>3, <2>4, <2>5, <2>6 DEF SeriesContinue, a
<1>2. CASE UNCHANGED clusterVars
  BY <1>2 DEF clusterVars, SeriesContinue
<1> QED
  BY <1>1, <1>2 DEF ClusterNext

\* The invariant of the runs of clustering.
LEMMA ClusterInvariant == ClusterSpec => []ClusterInv
<1>1. ClusterInit => ClusterInv
  BY DEF ClusterInit, ClusterInv, PriorInv, AlertsAreForNewSeries, SeriesContinue, IsInjective
<1>2. ClusterInv /\ [ClusterNext]_clusterVars => ClusterInv'
  BY PriorStep, AlertsStep, SeriesStep DEF ClusterInv
<1> QED
  BY <1>1, <1>2, PTL DEF ClusterSpec

\* A cluster that is reported as new continues no series: matchClusters and the alert
\* of new clusters agree, for any similarity, threshold, sizes and number of runs.
THEOREM AlertsAreForNewSeriesHolds == ClusterSpec => []AlertsAreForNewSeries
BY ClusterInvariant, PTL DEF ClusterInv

\* The ids of a run are its own, and where labels are unambiguous each cluster has the
\* id of the series it is similar to, for any similarity and any numbering of a run.
THEOREM SeriesContinueHolds == ClusterSpec => []SeriesContinue
BY ClusterInvariant, PTL DEF ClusterInv

-----------------------------------------------------------------------------
Mixes == [CallTools -> Nat]

BehaviorInv == recent \in Mixes /\ baselineMix \in Mixes

\* A mix of calls has a number of them.
LEMMA TotalIsNatural ==
  ASSUME NEW calls \in Mixes
  PROVE  Total(calls) \in Nat
<1> DEFINE gains == {t \in CallTools : calls[t] > 0}
<1>1. \A t \in CallTools : calls[t] \in Int /\ calls[t] = IF calls[t] < 0 THEN -calls[t] ELSE calls[t]
  BY DEF Mixes
<1>2. /\ \A ts \in SUBSET CallTools : SumFunctionOnSet(calls, ts) <= SumFunctionOnSet(calls, gains)
      /\ Total(calls) = 2 * SumFunctionOnSet(calls, gains) - Total(calls)
  BY <1>1, SumOfGains, BehaviorAssumption DEF BehaviorAssumption, Total
<1>3. Total(calls) \in Int /\ SumFunctionOnSet(calls, gains) \in Int
  BY <1>1, SumType, BehaviorAssumption DEF BehaviorAssumption, Total
<1>4. SumFunctionOnSet(calls, {}) = 0
  BY SumChooses, FS_EmptySet
<1>5. 0 <= SumFunctionOnSet(calls, gains)
  BY <1>2, <1>4
<1> HIDE DEF gains
<1> QED
  BY <1>2, <1>3, <1>5

\* What some tools gain the others lose: the distance of two mixes is twice the largest
\* shift of a set of tools, which is that of the tools that gained.
LEMMA ShiftsCancel ==
  ASSUME NEW after \in Mixes, NEW before \in Mixes, Total(after) > 0, Total(before) > 0
  PROVE  LET shift == Shift(after, before)
             gains == {t \in CallTools : shift[t] > 0}
         IN  /\ MixShift(after, before) = 2 * SumFunctionOnSet(shift, gains)
             /\ \A ts \in SUBSET CallTools :
                  /\ SumFunctionOnSet(shift, ts) \in Int
                  /\ SumFunctionOnSet(shift, ts) <= SumFunctionOnSet(shift, gains)
<1> DEFINE shift == Shift(after, before)
           gains == {t \in CallTools : shift[t] > 0}
           a == Total(after)
           b == Total(before)
<1>1. a \in Nat /\ b \in Nat /\ Whole(after) = a /\ Whole(before) = b
  BY TotalIsNatural DEF Whole
<1>2. IsFiniteSet(CallTools)
  BY BehaviorAssumption DEF BehaviorAssumption
<1>3. \A t \in CallTools : /\ after[t] \in Int /\ before[t] \in Int
                           /\ shift[t] = after[t] * b - before[t] * a
  BY <1>1 DEF Shift, Mixes
<1>4. \A t \in CallTools : shift[t] \in Int
  <2> HIDE DEF shift, a, b
  <2> QED
    BY <1>1, <1>3
<1>5. SumFunctionOnSet(shift, CallTools) = 0
  <2>1. SumFunctionOnSet(shift, CallTools) = a * b - b * a
    <3>1. a \in Int /\ b \in Int
      BY <1>1
    <3>2. a = SumFunctionOnSet(after, CallTools) /\ b = SumFunctionOnSet(before, CallTools)
      BY DEF Total
    <3> HIDE DEF shift, a, b
    <3>3. SumFunctionOnSet(shift, CallTools)
            = SumFunctionOnSet(after, CallTools) * b - SumFunctionOnSet(before, CallTools) * a
      BY <1>2, <1>3, <3>1, SumIsLinear
    <3> QED
      BY <3>2, <3>3
  <2> HIDE DEF shift, a, b
  <2> QED
    BY <1>1, <2>1
<1>6. \A t \in CallTools :
        Distances(shift)[t] = IF shift[t] < 0 THEN -shift[t] ELSE shift[t]
  BY DEF Distances
<1>7. /\ \A ts \in SUBSET CallTools : SumFunctionOnSet(shift, ts) <= SumFunctionOnSet(shift, gains)
      /\ MixShift(after, before)
           = 2 * SumFunctionOnSet(shift, gains) - SumFunctionOnSet(shift, CallTools)
  <2>1. MixShift(after, before) = SumFunctionOnSet(Distances(shift), CallTools)
    BY DEF MixShift
  <2> HIDE DEF shift
  <2> QED
    BY <1>2, <1>4, <1>6, <2>1, SumOfGains
<1>8. \A ts \in SUBSET CallTools : SumFunctionOnSet(shift, ts) \in Int
  <2> HIDE DEF shift
  <2> QED
    BY <1>2, <1>4, SumType
<1>9. 2 * SumFunctionOnSet(shift, gains) - 0 = 2 * SumFunctionOnSet(shift, gains)
  <2> HIDE DEF shift
  <2>1. SumFunctionOnSet(shift, gains) \in Int
    BY <1>8
  <2> QED
    BY <2>1
<1> QED
  BY <1>5, <1>7, <1>8, <1>9

\* So an alert is the shift of some tools by more than the threshold.
LEMMA AlertOfShifts ==
  ASSUME BehaviorInv
  PROVE  AlertIsSomeToolsShift
<1> SUFFICES ASSUME Total(recent) >= MinCalls, Total(baselineMix) > 0
             PROVE  BehaviorDriftAlert(recent, baselineMix) <=>
                      \E ts \in SUBSET CallTools :
                        100 * SumFunctionOnSet(Shift(recent, baselineMix), ts)
                          > TvdThreshold * Total(baselineMix) * Total(recent)
  BY DEF AlertIsSomeToolsShift
<1> DEFINE a == Total(recent)
           b == Total(baselineMix)
           shift == Shift(recent, baselineMix)
           gains == {t \in CallTools : shift[t] > 0}
           most == SumFunctionOnSet(shift, gains)
           bound == TvdThreshold * b * a
<1>1. /\ a \in Nat /\ b \in Nat /\ MinCalls \in Nat \ {0} /\ TvdThreshold \in Nat
  BY TotalIsNatural, BehaviorAssumption DEF BehaviorAssumption, BehaviorInv
<1>2. a > 0
  BY <1>1
<1>3. Whole(recent) = a /\ Whole(baselineMix) = b
  BY <1>1, <1>2 DEF Whole
<1>4. /\ MixShift(recent, baselineMix) = 2 * most
      /\ \A ts \in SUBSET CallTools : /\ SumFunctionOnSet(shift, ts) \in Int
                                      /\ SumFunctionOnSet(shift, ts) <= most
  BY <1>2, ShiftsCancel DEF BehaviorInv
<1>5. gains \in SUBSET CallTools
  OBVIOUS
<1>6. most \in Int
  BY <1>4, <1>5
<1>7. bound \in Int /\ 2 * TvdThreshold * b * a = 2 * bound
  <2> HIDE DEF a, b
  <2> QED
    BY <1>1
<1>8. BehaviorDriftAlert(recent, baselineMix) <=> 100 * (2 * most) > 2 * bound
  BY <1>3, <1>4, <1>7 DEF BehaviorDriftAlert
<1>9. 100 * (2 * most) > 2 * bound <=> 100 * most > bound
  <2> HIDE DEF most, bound
  <2> QED
    BY <1>6, <1>7
<1>10. ASSUME NEW ts \in SUBSET CallTools, 100 * SumFunctionOnSet(shift, ts) > bound
       PROVE  100 * most > bound
  <2> DEFINE some == SumFunctionOnSet(shift, ts)
  <2>1. some \in Int /\ some <= most /\ 100 * some > bound
    BY <1>4, <1>10
  <2> HIDE DEF some, most, bound
  <2> QED
    BY <1>6, <1>7, <2>1
<1>11. 100 * most > bound <=> \E ts \in SUBSET CallTools : 100 * SumFunctionOnSet(shift, ts) > bound
  <2> HIDE DEF shift, bound
  <2> QED
    BY <1>5, <1>10
<1> QED
  BY <1>8, <1>9, <1>11

\* The drift of the mix of calls is reported for some set of tools, and reported if
\* some set of tools has shifted so far: gains and losses do not hide each other, for
\* any tools, threshold and number of calls.
THEOREM AlertIsSomeToolsShiftHolds == BehaviorSpec => []AlertIsSomeToolsShift
<1>1. BehaviorInit => BehaviorInv
  BY DEF BehaviorInit, BehaviorInv, NoCalls, Mixes
<1>2. BehaviorInv /\ [BehaviorNext]_behaviorVars => BehaviorInv'
  <2> SUFFICES ASSUME BehaviorInv, [BehaviorNext]_behaviorVars
               PROVE  BehaviorInv'
    OBVIOUS
  <2>1. CASE ToolCalled
    BY <2>1 DEF ToolCalled, BehaviorInv, Mixes
  <2>2. CASE BaselineRecorded
    BY <2>2 DEF BaselineRecorded, BehaviorInv, Mixes, NoCalls
  <2>3. CASE UNCHANGED behaviorVars
    BY <2>3 DEF behaviorVars, BehaviorInv
  <2> QED
    BY <2>1, <2>2, <2>3 DEF BehaviorNext
<1>3. BehaviorInv => AlertIsSomeToolsShift
  BY AlertOfShifts
<1> QED
  BY <1>1, <1>2, <1>3, PTL DEF BehaviorSpec

-----------------------------------------------------------------------------
TrendInv == windows \in Seq(Counts) /\ volume \in {0, MinVolume - 1, MinVolume}

\* average[i] is the moving average of the first i windows, for i up to n.
AveragesUpTo(average, series, n) ==
  average = [i \in 1..n |-> IF i = 1 THEN [value |-> series[1], unit |-> 1]
                            ELSE Averaged(average[i - 1], series[i])]

\* There are such averages.
LEMMA AveragesAreDefined ==
  ASSUME NEW series, NEW n \in Nat
  PROVE  \E average : AveragesUpTo(average, series, n)
<1> DEFINE Undefined == {m \in Nat : ~\E average : AveragesUpTo(average, series, m)}
<1> SUFFICES ASSUME n \in Undefined
             PROVE  FALSE
  OBVIOUS
<1>1. PICK m \in Undefined : \A k \in Undefined : m <= k
  <2>1. Undefined \in SUBSET Nat /\ Undefined # {}
    OBVIOUS
  <2> QED
    BY <2>1, LeastOf
<1>2. m \in Nat /\ ~\E average : AveragesUpTo(average, series, m)
  OBVIOUS
<1>3. m # 0
  <2>1. AveragesUpTo([i \in 1..0 |-> series], series, 0)
    BY DEF AveragesUpTo
  <2> QED
    BY <1>2, <2>1
<1>4. m - 1 \in Nat /\ m - 1 \notin Undefined
  <2>1. m - 1 \in Nat /\ ~(m <= m - 1)
    BY <1>2, <1>3
  <2> HIDE DEF Undefined
  <2> QED
    BY <1>1, <2>1
<1>5. PICK before : AveragesUpTo(before, series, m - 1)
  BY <1>4
<1> DEFINE average == [i \in 1..m |-> IF i = 1 THEN [value |-> series[1], unit |-> 1]
                                      ELSE Averaged(before[i - 1], series[i])]
<1>6. \A i \in 1..(m - 1) : average[i] = before[i]
  BY <1>2, <1>5 DEF AveragesUpTo
<1>7. AveragesUpTo(average, series, m)
  <2>1. ASSUME NEW i \in 1..m
        PROVE  average[i] = IF i = 1 THEN [value |-> series[1], unit |-> 1]
                            ELSE Averaged(average[i - 1], series[i])
    <3>1. average[i] = IF i = 1 THEN [value |-> series[1], unit |-> 1]
                       ELSE Averaged(before[i - 1], series[i])
      OBVIOUS
    <3>2. i # 1 => i - 1 \in 1..(m - 1)
      BY <1>2
    <3> HIDE DEF average
    <3> QED
      BY <1>6, <3>1, <3>2
  <2>2. average = [i \in 1..m |-> average[i]]
    OBVIOUS
  <2> HIDE DEF average
  <2> QED
    BY <2>1, <2>2 DEF AveragesUpTo
<1> QED
  BY <1>2, <1>7

\* A moving average lies between any two bounds of the windows it is the average of.
LEMMA EwmaIsBetween ==
  ASSUME NEW series \in Seq(Nat), series # <<>>, NEW low \in Nat, NEW high \in Nat,
         \A i \in DOMAIN series : low <= series[i] /\ series[i] <= high
  PROVE  /\ Ewma(series).unit \in Nat \ {0} /\ Ewma(series).value \in Nat
         /\ low * Ewma(series).unit <= Ewma(series).value
         /\ Ewma(series).value <= high * Ewma(series).unit
<1> DEFINE n == Len(series)
<1>1. n \in Nat \ {0} /\ DOMAIN series = 1..n
  BY LenProperties, EmptySeq
<1>2. PICK average : AveragesUpTo(average, series, n) /\ Ewma(series) = average[n]
  <2>1. Ewma(series) = (CHOOSE average : AveragesUpTo(average, series, n))[n]
    BY DEF Ewma, AveragesUpTo
  <2>2. \E average : AveragesUpTo(average, series, n)
    BY <1>1, AveragesAreDefined
  <2> QED
    BY <2>1, <2>2
<1> DEFINE Between(a) == /\ a.unit \in Nat \ {0} /\ a.value \in Nat
                         /\ low * a.unit <= a.value /\ a.value <= high * a.unit
           Outside == {i \in 1..n : ~Between(average[i])}
<1>3. ASSUME NEW a, Between(a), NEW count \in Nat, low <= count, count <= high
      PROVE  Between(Averaged(a, count))
  <2> DEFINE v == a.value
             u == a.unit
  <2>1. /\ u \in Nat \ {0} /\ v \in Nat /\ low * u <= v /\ v <= high * u
        /\ Alpha \in 0..10
    BY <1>3, TrendAssumption DEF TrendAssumption
  <2>2. /\ Averaged(a, count).unit = 10 * u
        /\ Averaged(a, count).value = Alpha * count * u + (10 - Alpha) * v
    BY DEF Averaged
  <2> HIDE DEF u, v
  <2>3. low * (10 * u) = Alpha * (low * u) + (10 - Alpha) * (low * u)
    BY <2>1
  <2>4. high * (10 * u) = Alpha * (high * u) + (10 - Alpha) * (high * u)
    BY <2>1
  <2>5. Alpha * count * u = Alpha * (count * u)
    BY <2>1
  <2>6. low * u <= count * u /\ count * u <= high * u
    BY <1>3, <2>1, ProductsAreOrdered
  <2> DEFINE l == low * u
             h == high * u
             c == count * u
             beta == 10 - Alpha
  <2>7. l \in Int /\ h \in Int /\ c \in Nat /\ beta \in Nat /\ Alpha \in Nat
    BY <2>1
  <2>8. l <= c /\ c <= h /\ l <= v /\ v <= h
    BY <2>1, <2>6
  <2>9. /\ low * (10 * u) = Alpha * l + beta * l
        /\ high * (10 * u) = Alpha * h + beta * h
        /\ Averaged(a, count).value = Alpha * c + beta * v
    BY <2>2, <2>3, <2>4, <2>5
  <2> HIDE DEF l, h, c, beta
  <2>10. /\ Alpha * l <= Alpha * c /\ Alpha * c <= Alpha * h
         /\ beta * l <= beta * v /\ beta * v <= beta * h
    BY <2>1, <2>7, <2>8, ProductsAreOrdered
  <2>11. /\ Alpha * l \in Int /\ Alpha * h \in Int /\ Alpha * c \in Nat
         /\ beta * l \in Int /\ beta * h \in Int /\ beta * v \in Nat
    BY <2>1, <2>7
  <2>12. 10 * u \in Nat \ {0}
    BY <2>1
  <2> DEFINE al == Alpha * l
             ac == Alpha * c
             ah == Alpha * h
             bl == beta * l
             bv == beta * v
             bh == beta * h
  <2>13. /\ al + bl <= ac + bv /\ ac + bv <= ah + bh /\ ac + bv \in Nat
    <3>1. /\ al <= ac /\ ac <= ah /\ bl <= bv /\ bv <= bh
          /\ al \in Int /\ ah \in Int /\ ac \in Nat /\ bl \in Int /\ bh \in Int /\ bv \in Nat
      BY <2>10, <2>11
    <3> HIDE DEF al, ac, ah, bl, bv, bh
    <3> QED
      BY <3>1
  <2>14. /\ low * (10 * u) = al + bl /\ high * (10 * u) = ah + bh
         /\ Averaged(a, count).value = ac + bv
    BY <2>9
  <2> HIDE DEF al, ac, ah, bl, bv, bh
  <2> QED
    BY <2>2, <2>12, <2>13, <2>14
<1>4. Outside = {}
  <2> SUFFICES ASSUME Outside # {}
               PROVE  FALSE
    OBVIOUS
  <2>1. PICK i \in Outside : \A j \in Outside : i <= j
    <3>1. Outside \in SUBSET Nat
      BY <1>1
    <3> HIDE DEF Outside
    <3> QED
      BY <3>1, LeastOf
  <2>2. i \in 1..n /\ ~Between(average[i])
    OBVIOUS
  <2>3. series[i] \in Nat /\ low <= series[i] /\ series[i] <= high
    BY <1>1, <2>2, ElementOfSeq
  <2>4. average[i] = IF i = 1 THEN [value |-> series[1], unit |-> 1]
                     ELSE Averaged(average[i - 1], series[i])
    BY <1>2, <2>2 DEF AveragesUpTo
  <2>5. CASE i = 1
    <3>1. average[i] = [value |-> series[i], unit |-> 1]
      BY <2>4, <2>5
    <3>2. low * 1 = low /\ high * 1 = high
      OBVIOUS
    <3>3. /\ average[i].value = series[i] /\ average[i].unit = 1
          /\ low * average[i].unit = low /\ high * average[i].unit = high
      BY <3>1, <3>2
    <3>4. Between(average[i])
      BY <2>3, <3>3
    <3> HIDE DEF Between
    <3> QED
      BY <2>2, <3>4
  <2>6. CASE i # 1
    <3>1. i - 1 \in 1..n /\ ~(i <= i - 1)
      <4>1. i \in 1..n /\ n \in Nat
        BY <1>1, <2>2
      <4> HIDE DEF n, Between, Outside
      <4> QED
        BY <2>6, <4>1
    <3>2. i - 1 \notin Outside
      <4> HIDE DEF Outside
      <4> QED
        BY <2>1, <3>1
    <3>3. Between(average[i - 1])
      BY <3>1, <3>2
    <3> HIDE DEF Between
    <3> QED
      BY <1>3, <2>2, <2>3, <2>4, <2>6, <3>3
  <2> QED
    BY <2>5, <2>6
<1> QED
  BY <1>1, <1>2, <1>4

\* One of the windows of a history counts the most.
LEMMA LargestWindow ==
  ASSUME NEW series \in Seq(Nat), series # <<>>
  PROVE  \E m \in DOMAIN series : \A i \in DOMAIN series : series[i] <= series[m]
<1> DEFINE n == Len(series)
           IsLargest(m, k) == \A i \in 1..k : series[i] <= series[m]
           Without == {k \in Nat \ {0} : k <= n /\ ~\E m \in 1..k : IsLargest(m, k)}
<1>1. n \in Nat \ {0} /\ DOMAIN series = 1..n /\ \A i \in 1..n : series[i] \in Nat
  BY LenProperties, EmptySeq, ElementOfSeq
<1>2. Without = {}
  <2> SUFFICES ASSUME Without # {}
               PROVE  FALSE
    OBVIOUS
  <2>1. PICK k \in Without : \A j \in Without : k <= j
    <3>1. Without \in SUBSET Nat
      OBVIOUS
    <3> HIDE DEF Without
    <3> QED
      BY <3>1, LeastOf
  <2>2. k \in 1..n /\ ~\E m \in 1..k : IsLargest(m, k)
    BY <1>1
  <2>3. k # 1
    <3>1. ASSUME k = 1
          PROVE  1 \in 1..k /\ IsLargest(1, k)
      BY <1>1, <3>1
    <3> HIDE DEF IsLargest
    <3> QED
      BY <2>2, <3>1
  <2>4. k - 1 \in 1..n /\ ~(k <= k - 1)
    BY <1>1, <2>2, <2>3
  <2>5. k - 1 \notin Without
    <3> HIDE DEF Without
    <3> QED
      BY <2>1, <2>4
  <2>6. PICK m \in 1..(k - 1) : IsLargest(m, k - 1)
    BY <1>1, <2>4, <2>5
  <2> HIDE DEF Without
  <2>7. 1..k = 1..(k - 1) \cup {k}
    <3>1. n \in Nat /\ k \in 1..n
      BY <1>1, <2>2
    <3> HIDE DEF n
    <3> QED
      BY <3>1
  <2>8. m \in 1..n
    <3>1. n \in Nat /\ k \in Nat /\ k <= n /\ m \in Nat /\ 1 <= m /\ m <= k - 1
      BY <1>1, <2>2
    <3> HIDE DEF n
    <3> QED
      BY <3>1
  <2>9. \A i \in 1..(k - 1) : series[i] <= series[m]
    BY <2>6
  <2> DEFINE value(i) == series[i]
  <2>10. /\ value(k) \in Int /\ value(m) \in Int
         /\ \A i \in 1..(k - 1) : value(i) \in Int /\ value(i) <= value(m)
    <3>1. \A i \in 1..k : i \in 1..n
      BY <1>1, <2>2
    <3>2. \A i \in 1..n : value(i) \in Int
      BY <1>1
    <3>3. \A i \in 1..(k - 1) : value(i) <= value(m)
      BY <2>9
    <3> HIDE DEF value, n
    <3> QED
      BY <2>2, <2>7, <2>8, <3>1, <3>2, <3>3
  <2>11. CASE value(k) <= value(m)
    <3>1. \A i \in 1..k : value(i) <= value(m)
      BY <2>7, <2>9, <2>11
    <3>2. m \in 1..k
      BY <2>7
    <3> QED
      BY <2>2, <3>1, <3>2
  <2>12. CASE ~(value(k) <= value(m))
    <3> HIDE DEF value
    <3>1. \A i \in 1..(k - 1) : value(i) <= value(k)
      BY <2>10, <2>12
    <3>2. value(k) <= value(k)
      BY <2>10
    <3>3. \A i \in 1..k : value(i) <= value(k)
      BY <2>7, <3>1, <3>2
    <3>4. k \in 1..k
      BY <2>7
    <3> QED
      BY <2>2, <3>3, <3>4 DEF value
  <2> QED
    BY <2>11, <2>12
<1>3. n \notin Without
  BY <1>2
<1> QED
  BY <1>1, <1>3

\* The larger of two numbers.
LEMMA MaxOfTwo ==
  ASSUME NEW x \in Int, NEW y \in Int
  PROVE  Max({x, y}) = IF x >= y THEN x ELSE y
BY DEF Max

\* A count above the bound that a larger average gives is above that of a smaller one.
LEMMA BoundsAreOrdered ==
  ASSUME NEW observed \in Nat, NEW largest \in Nat, AboveBound(observed, largest, 1),
         NEW unit \in Nat \ {0}, NEW value \in Nat, value <= largest * unit
  PROVE  AboveBound(observed, value, unit)
<1> DEFINE x == observed - largest
           mean == IF largest >= 1 THEN largest ELSE 1
           most == IF value >= unit THEN value ELSE unit
           excess == observed * unit - value
           ZZ == Z * Z
<1>1. ZZ \in Nat /\ mean \in Nat \ {0} /\ most \in Nat \ {0}
  BY TrendAssumption DEF TrendAssumption
<1>2. x \in Nat \ {0} /\ x * x > ZZ * mean
  <2>1. Max({largest, 1}) = mean
    BY MaxOfTwo
  <2>2. observed * 1 - largest = x
    OBVIOUS
  <2>3. x > 0 /\ x * x > ZZ * mean * 1
    BY <2>1, <2>2 DEF AboveBound
  <2> HIDE DEF mean, ZZ
  <2>4. ZZ * mean * 1 = ZZ * mean
    BY <1>1
  <2> QED
    BY <2>3, <2>4
<1>3. most <= mean * unit
  <2>1. 1 * unit <= mean * unit /\ largest * unit <= mean * unit
    <3>1. 1 <= mean /\ largest <= mean
      OBVIOUS
    <3> HIDE DEF mean
    <3> QED
      BY <1>1, <3>1, ProductsAreOrdered
  <2>2. mean * unit \in Nat /\ 1 * unit = unit /\ largest * unit \in Nat
    BY <1>1
  <2> DEFINE mu == mean * unit
             lu == largest * unit
  <2>3. unit <= mu /\ value <= mu
    <3> HIDE DEF mean
    <3> QED
      BY <2>1, <2>2
  <2> HIDE DEF mu
  <2> QED
    BY <2>3 DEF mu
<1>4. excess >= x * unit /\ x * unit \in Nat \ {0} /\ excess \in Int
  <2>1. (observed - largest) * unit = observed * unit - largest * unit
    OBVIOUS
  <2>2. observed * unit \in Int /\ largest * unit \in Int
    OBVIOUS
  <2>3. excess >= x * unit /\ excess \in Int
    BY <2>1, <2>2
  <2>4. x * unit \in Nat \ {0}
    <3> HIDE DEF x
    <3> QED
      BY <1>2
  <2> QED
    BY <2>3, <2>4
<1> HIDE DEF x, mean, most, excess, ZZ
<1>5. excess * excess >= (x * unit) * (x * unit)
  <2> DEFINE xu == x * unit
  <2>1. xu \in Nat /\ excess \in Nat /\ xu <= excess
    BY <1>4
  <2> HIDE DEF xu
  <2>2. xu * xu <= excess * xu /\ excess * xu <= excess * excess
    BY <2>1, ProductsAreOrdered
  <2>3. xu * xu \in Int /\ excess * xu \in Int /\ excess * excess \in Int
    BY <2>1
  <2>4. excess * excess >= xu * xu
    BY <2>2, <2>3
  <2> QED
    BY <2>4 DEF xu
<1>6. (x * unit) * (x * unit) > (ZZ * mean) * (unit * unit)
  <2>1. (x * unit) * (x * unit) = (x * x) * (unit * unit)
    BY <1>2
  <2> DEFINE xx == x * x
             zm == ZZ * mean
             uu == unit * unit
  <2>2. xx \in Nat /\ zm \in Nat /\ uu \in Nat \ {0} /\ xx >= zm + 1
    BY <1>1, <1>2
  <2>3. xx * uu > zm * uu
    <3> HIDE DEF xx, zm, uu
    <3>1. (zm + 1) * uu <= xx * uu
      BY <2>2, ProductsAreOrdered
    <3>2. (zm + 1) * uu = zm * uu + uu
      BY <2>2
    <3>3. zm * uu \in Nat /\ xx * uu \in Nat
      BY <2>2
    <3> QED
      BY <2>2, <3>1, <3>2, <3>3
  <2> QED
    BY <2>1, <2>3
<1>7. ZZ * most * unit <= (ZZ * mean) * (unit * unit)
  <2> DEFINE mu == mean * unit
  <2>1. mu \in Nat /\ most <= mu
    BY <1>1, <1>3
  <2>2. mu * unit = mean * (unit * unit)
    BY <1>1
  <2> HIDE DEF mu
  <2>3. most * unit <= mu * unit
    BY <1>1, <2>1, ProductsAreOrdered
  <2>4. most * unit \in Nat /\ mu * unit \in Nat
    BY <1>1, <2>1
  <2> DEFINE lower == most * unit
             upper == mu * unit
  <2>5. ZZ * lower <= ZZ * upper
    <3> HIDE DEF lower, upper
    <3> QED
      BY <1>1, <2>3, <2>4, ProductsAreOrdered DEF lower, upper
  <2>6. ZZ * most * unit = ZZ * lower
    BY <1>1
  <2>7. ZZ * (mean * (unit * unit)) = (ZZ * mean) * (unit * unit)
    BY <1>1
  <2> QED
    BY <2>2, <2>5, <2>6, <2>7
<1>8. excess > 0 /\ excess * excess > ZZ * most * unit
  <2>1. ZZ * most * unit \in Int
    BY <1>1
  <2>2. (ZZ * mean) * (unit * unit) \in Int
    BY <1>1
  <2>3. (x * unit) * (x * unit) \in Int /\ excess * excess \in Int
    BY <1>4
  <2> DEFINE p == ZZ * most * unit
             q == (ZZ * mean) * (unit * unit)
             r == (x * unit) * (x * unit)
             e == excess * excess
  <2>4. p <= q /\ q < r /\ r <= e /\ p \in Int /\ q \in Int /\ r \in Int /\ e \in Int
    BY <1>5, <1>6, <1>7, <2>1, <2>2, <2>3
  <2>5. e > p
    <3> HIDE DEF p, q, r, e
    <3> QED
      BY <2>4
  <2>6. excess > 0
    <3> DEFINE xu == x * unit
    <3>1. excess >= xu /\ xu \in Nat \ {0}
      BY <1>4
    <3> HIDE DEF xu
    <3> QED
      BY <1>4, <3>1
  <2> QED
    BY <2>5, <2>6
<1>9. Max({value, unit}) = most
  BY MaxOfTwo DEF most
<1> QED
  BY <1>8, <1>9 DEF AboveBound, excess, ZZ

\* So a window is judged by the least and by the largest before it.
LEMMA SpikesOfHistory ==
  ASSUME TrendInv
  PROVE  SpikesAreJudgedByHistory
<1> DEFINE n == Len(windows)
           observed == windows[n]
           counts == {History[i] : i \in DOMAIN History}
           unit == Ewma(History).unit
           value == Ewma(History).value
<1> SUFFICES ASSUME n > 1
             PROVE  /\ SpikeAlert => volume >= MinVolume /\ \E c \in counts : observed > c
                    /\ volume >= MinVolume /\ AboveBound(observed, Max(counts), 1) => SpikeAlert
  BY DEF SpikesAreJudgedByHistory
<1>1. windows \in Seq(Nat) /\ n \in Nat /\ observed \in Nat
  <2>1. windows \in Seq(Counts) /\ Counts \subseteq Nat
    BY TrendAssumption DEF TrendAssumption, TrendInv
  <2>2. windows \in Seq(Nat)
    BY <2>1, SeqMonotonic
  <2>3. n \in Nat /\ n \in 1..n
    BY <2>2, LenProperties
  <2> QED
    BY <2>2, <2>3, ElementOfSeq
<1>2. /\ History \in Seq(Nat) /\ Len(History) = n - 1 /\ DOMAIN History = 1..(n - 1)
      /\ History # <<>>
  <2>1. History \in Seq(Nat) /\ Len(History) = n - 1
    BY <1>1 DEF History
  <2> QED
    BY <1>1, <2>1, LenProperties, EmptySeq
<1>3. windows # <<>>
  BY <1>1, EmptySeq
<1>4. SpikeAlert <=> volume >= MinVolume /\ AboveBound(observed, value, unit)
  BY <1>3 DEF SpikeAlert, PoissonSpike
<1>5. PICK m \in DOMAIN History : \A i \in DOMAIN History : History[i] <= History[m]
  BY <1>2, LargestWindow
<1>6. \A i \in DOMAIN History : History[i] \in Nat
  BY <1>2, ElementOfSeq
<1>7. Max(counts) = History[m]
  BY <1>5, <1>6 DEF Max
<1>8. /\ unit \in Nat \ {0} /\ value \in Nat /\ value <= History[m] * unit
  <2>1. \A i \in DOMAIN History : 0 <= History[i] /\ History[i] <= History[m]
    BY <1>5, <1>6
  <2> QED
    BY <1>2, <1>6, <2>1, EwmaIsBetween
<1>9. ASSUME SpikeAlert
      PROVE  \E c \in counts : observed > c
  <2> SUFFICES ASSUME \A i \in DOMAIN History : ~(observed > History[i])
               PROVE  FALSE
    OBVIOUS
  <2>1. \A i \in DOMAIN History : observed <= History[i] /\ History[i] <= History[m]
    BY <1>1, <1>5, <1>6
  <2>2. observed * unit <= value
    BY <1>1, <1>2, <1>6, <2>1, EwmaIsBetween
  <2>3. observed * unit - value > 0
    BY <1>4, <1>9 DEF AboveBound
  <2>4. observed * unit \in Int
    BY <1>1, <1>8
  <2> DEFINE ou == observed * unit
  <2> HIDE DEF ou
  <2>5. ou \in Int /\ ou <= value /\ ou - value > 0
    BY <2>2, <2>3, <2>4 DEF ou
  <2> HIDE DEF value
  <2> QED
    BY <1>8, <2>5
<1>10. ASSUME volume >= MinVolume, AboveBound(observed, Max(counts), 1)
       PROVE  SpikeAlert
  <2>1. AboveBound(observed, History[m], 1)
    BY <1>7, <1>10
  <2>2. AboveBound(observed, value, unit)
    <3> HIDE DEF observed, value, unit
    <3> QED
      BY <1>1, <1>6, <1>8, <2>1, BoundsAreOrdered
  <2> QED
    BY <1>4, <1>10, <2>2
<1> QED
  BY <1>4, <1>9, <1>10

\* An alert on a cluster is about a window that counts more than one before it, with
\* the volume to say so, and a window above the bound of the largest before it is
\* alerted on, for any weight, bound and counts and any number of windows.
THEOREM SpikesAreJudgedByHistoryHolds == TrendSpec => []SpikesAreJudgedByHistory
<1>1. TrendInit => TrendInv
  BY EmptySeq DEF TrendInit, TrendInv
<1>2. TrendInv /\ [TrendNext]_trendVars => TrendInv'
  BY AppendProperties DEF TrendInv, TrendNext, WindowEnds, trendVars
<1>3. TrendInv => SpikesAreJudgedByHistory
  BY SpikesOfHistory
<1> QED
  BY <1>1, <1>2, <1>3, PTL DEF TrendSpec

-----------------------------------------------------------------------------
SignalNames == {Signals[i] : i \in DOMAIN Signals}

StageNames == {PipelineStages[i] : i \in DOMAIN PipelineStages}

FailedRuns == [signals : SUBSET SignalNames, stage : StageNames]

StageCounts(failures) ==
  [i \in DOMAIN PipelineStages |-> StageCount(failures, PipelineStages[i])]

StagesInv ==
  /\ failedRuns \in Seq(FailedRuns)
  /\ \A i \in DOMAIN failedRuns : failedRuns[i].stage = InferStage(failedRuns[i].signals)
  /\ SumFunctionOnSet(StageCounts(failedRuns), DOMAIN PipelineStages) = Len(failedRuns)

\* The four stages and the three signals.
LEMMA StagesAre ==
  /\ DOMAIN PipelineStages = {1, 2, 3, 4} /\ DOMAIN Signals = {1, 2, 3}
  /\ PipelineStages[1] = "retrieval_miss"
  /\ \A i, j \in DOMAIN PipelineStages : PipelineStages[i] = PipelineStages[j] => i = j
  /\ IsFiniteSet(DOMAIN PipelineStages)
<1>1. DOMAIN PipelineStages = 1..4 /\ DOMAIN Signals = 1..3
  BY DEF PipelineStages, Signals
<1>2. IsFiniteSet(1..4)
  <2>1. PICK four \in Int : four = 4
    OBVIOUS
  <2>2. IsFiniteSet(1..four)
    BY FS_Interval
  <2> QED
    BY <2>1, <2>2
<1>3. 1..4 = {1, 2, 3, 4} /\ 1..3 = {1, 2, 3}
  OBVIOUS
<1>4. \A i, j \in {1, 2, 3, 4} : PipelineStages[i] = PipelineStages[j] => i = j
  BY DEF PipelineStages
<1> QED
  BY <1>1, <1>2, <1>3, <1>4 DEF PipelineStages

\* A failure is attributed to one of the stages, and to retrieval if and only if it
\* signals that.
LEMMA RetrievalOutranks ==
  ASSUME NEW signals \in SUBSET SignalNames
  PROVE  /\ InferStage(signals) \in StageNames
         /\ InferStage(signals) = "retrieval_miss" <=> "retrievalRecallFailed" \in signals
<1>1. Raised(signals) \in SUBSET {1, 2, 3}
  BY StagesAre DEF Raised
<1>2. 1 \in Raised(signals) <=> "retrievalRecallFailed" \in signals
  BY StagesAre DEF Raised, Signals
<1>3. /\ PipelineStages[1] = "retrieval_miss" /\ PipelineStages[2] = "reasoning_error"
      /\ PipelineStages[3] = "tool_error" /\ PipelineStages[4] = "verification_error"
  BY DEF PipelineStages
<1>4. {"retrieval_miss", "reasoning_error", "tool_error", "verification_error"} \subseteq StageNames
  BY <1>3, StagesAre DEF StageNames
<1>5. CASE Raised(signals) = {}
  BY <1>2, <1>4, <1>5 DEF InferStage
<1>6. CASE Raised(signals) # {}
  <2> DEFINE first == Min(Raised(signals))
  <2>1. Raised(signals) \in SUBSET Nat
    BY <1>1
  <2>2. \E i \in Raised(signals) : \A j \in Raised(signals) : i <= j
    BY <1>6, <2>1, LeastOf
  <2>3. first \in Raised(signals) /\ \A j \in Raised(signals) : first <= j
    BY <2>2 DEF Min
  <2> HIDE DEF first
  <2>4. first = 1 <=> 1 \in Raised(signals)
    BY <1>1, <2>3
  <2>5. first \in {1, 2, 3}
    BY <1>1, <2>3
  <2>6. InferStage(signals) = BlamedStage[first]
    BY <1>6 DEF InferStage, first
  <2>7. /\ BlamedStage[1] = "retrieval_miss" /\ BlamedStage[2] = "tool_error"
        /\ BlamedStage[3] = "verification_error"
    BY DEF BlamedStage
  <2> QED
    BY <1>2, <1>4, <2>4, <2>5, <2>6, <2>7
<1> QED
  BY <1>5, <1>6

\* A failure is counted for its stage.
LEMMA CountOfOneMore ==
  ASSUME NEW failures \in Seq(FailedRuns), NEW run \in FailedRuns, NEW stage
  PROVE  /\ StageCount(failures, stage) \in Nat
         /\ StageCount(Append(failures, run), stage)
              = IF stage = run.stage THEN StageCount(failures, stage) + 1
                                     ELSE StageCount(failures, stage)
<1> DEFINE n == Len(failures)
           longer == Append(failures, run)
           of == {i \in DOMAIN failures : failures[i].stage = stage}
           ofLonger == {i \in DOMAIN longer : longer[i].stage = stage}
<1>1. n \in Nat /\ DOMAIN failures = 1..n
  BY LenProperties
<1>2. /\ DOMAIN longer = 1..(n + 1) /\ longer[n + 1] = run
      /\ \A i \in 1..n : longer[i] = failures[i]
  <2>1. longer \in Seq(FailedRuns) /\ Len(longer) = n + 1
    BY AppendProperties
  <2> QED
    BY <1>1, <2>1, AppendProperties, LenProperties
<1>3. 1..(n + 1) = 1..n \cup {n + 1} /\ n + 1 \notin 1..n
  <2> HIDE DEF n
  <2> QED
    BY <1>1
<1>4. IsFiniteSet(of)
  <2>1. IsFiniteSet(1..n) /\ of \in SUBSET (1..n)
    BY <1>1, FS_Interval
  <2> HIDE DEF of
  <2> QED
    BY <2>1, FS_Subset
<1>5. ofLonger = IF stage = run.stage THEN of \cup {n + 1} ELSE of
  <2> HIDE DEF n, longer
  <2> QED
    BY <1>1, <1>2, <1>3
<1>6. n + 1 \notin of
  BY <1>1, <1>3
<1>7. /\ Cardinality(of) \in Nat
      /\ Cardinality(of \cup {n + 1}) = Cardinality(of) + 1
  <2> HIDE DEF of, n
  <2> QED
    BY <1>4, <1>6, FS_AddElement, FS_CardinalityType
<1>8. StageCount(failures, stage) = Cardinality(of)
  BY DEF StageCount
<1>9. StageCount(longer, stage) = Cardinality(ofLonger)
  BY DEF StageCount
<1> QED
  <2> HIDE DEF of, ofLonger, n, longer
  <2>1. Cardinality(ofLonger) = IF stage = run.stage THEN Cardinality(of) + 1 ELSE Cardinality(of)
    BY <1>5, <1>7
  <2> QED
    BY <1>7, <1>8, <1>9, <2>1 DEF longer

\* The rows of the roll-up are those of the stages that have failures, by a rank that
\* puts the more frequent first.
LEMMA RollupRanks ==
  ASSUME NEW failures, \A i \in DOMAIN PipelineStages : StageCounts(failures)[i] \in Nat
  PROVE  LET count == StageCounts(failures)
             failing == {i \in DOMAIN PipelineStages : count[i] > 0}
             rows == StageRollup(failures)
         IN \E rank \in Bijection(failing, DOMAIN rows) :
              /\ \A i \in failing : /\ rows[rank[i]].stage = PipelineStages[i]
                                    /\ rows[rank[i]].count = count[i]
              /\ \A i, j \in failing : rank[i] < rank[j] => count[i] >= count[j]
<1> DEFINE count == StageCounts(failures)
           failing == {i \in DOMAIN PipelineStages : count[i] > 0}
           rows == StageRollup(failures)
           Before(i, j) == \/ count[i] > count[j]
                           \/ count[i] = count[j] /\ i < j
           before == {e \in failing \X failing : Before(e[1], e[2])}
           rank == [i \in failing |-> 1 + Cardinality(AllBefore(failing, before, i))]
           Rank(i) == 1 + Cardinality({j \in failing : Before(j, i)})
           Row(i) == [stage |-> PipelineStages[i], count |-> count[i]]
<1>1. IsFiniteSet(failing) /\ \A i \in failing : i \in Int /\ count[i] \in Nat
  <2>1. failing \in SUBSET DOMAIN PipelineStages
    OBVIOUS
  <2>2. IsFiniteSet(failing)
    <3> HIDE DEF failing
    <3> QED
      BY <2>1, StagesAre, FS_Subset
  <2> QED
    BY <2>2, StagesAre
<1>2. \A i, j \in failing : <<i, j>> \in before <=> Before(i, j)
  <2> HIDE DEF failing, Before
  <2> QED
    OBVIOUS
<1>3. /\ \A i \in failing : ~Before(i, i)
      /\ \A i, j \in failing : i # j => Before(i, j) \/ Before(j, i)
      /\ \A i, j, k \in failing : Before(i, j) /\ Before(j, k) => Before(i, k)
      /\ \A i, j \in failing : Before(i, j) => count[i] >= count[j]
  <2> HIDE DEF failing, count
  <2> QED
    BY <1>1
<1>4. /\ rank \in Bijection(failing, 1..Cardinality(failing))
      /\ \A i, j \in failing : <<i, j>> \in before => rank[i] < rank[j]
  <2> DEFINE ranks == rank
  <2>1. ranks = [i \in failing |-> 1 + Cardinality(AllBefore(failing, before, i))]
    OBVIOUS
  <2>2. /\ \A i \in failing : <<i, i>> \notin before
        /\ \A i, j \in failing : i # j => <<i, j>> \in before \/ <<j, i>> \in before
        /\ \A i, j, k \in failing :
             <<i, j>> \in before /\ <<j, k>> \in before => <<i, k>> \in before
    <3> HIDE DEF failing, Before, before
    <3> QED
      BY <1>2, <1>3
  <2> HIDE DEF failing, before, ranks
  <2>3. /\ ranks \in Bijection(failing, 1..Cardinality(failing))
        /\ \A i, j \in failing : <<i, j>> \in before => ranks[i] < ranks[j]
    BY <1>1, <2>1, <2>2, RanksAreNumbers
  <2> QED
    BY <2>3 DEF ranks
<1>5. ASSUME NEW i \in failing
      PROVE  rank[i] = Rank(i)
  <2>1. AllBefore(failing, before, i) = {j \in failing : Before(j, i)}
    <3> HIDE DEF failing, Before, before
    <3> QED
      BY <1>2 DEF AllBefore
  <2>2. rank[i] = 1 + Cardinality(AllBefore(failing, before, i))
    OBVIOUS
  <2> HIDE DEF failing, Before, before, rank
  <2> QED
    BY <2>1, <2>2
<1>6. rows = [n \in 1..Cardinality(failing) |-> Row(CHOOSE i \in failing : Rank(i) = n)]
  BY DEF StageRollup, StageCounts
<1> HIDE DEF failing, rows, rank, Rank, Before, before, count
<1>7. /\ rank \in [failing -> 1..Cardinality(failing)]
      /\ \A i, j \in failing : rank[i] = rank[j] => i = j
  BY <1>4 DEF Bijection, Injection, IsInjective
<1>8. ASSUME NEW i \in failing
      PROVE  rows[rank[i]] = Row(i)
  <2>1. (CHOOSE j \in failing : Rank(j) = rank[i]) = i
    BY <1>5, <1>7
  <2>2. rank[i] \in 1..Cardinality(failing)
    BY <1>7
  <2>3. rows[rank[i]] = Row(CHOOSE j \in failing : Rank(j) = rank[i])
    <3> HIDE DEF Row
    <3> QED
      BY <1>6, <2>2
  <2> QED
    BY <2>1, <2>3
<1>9. DOMAIN rows = 1..Cardinality(failing)
  BY <1>6
<1>10. ASSUME NEW i \in failing, NEW j \in failing, rank[i] < rank[j]
       PROVE  count[i] >= count[j]
  <2>1. rank[i] \in Int /\ rank[j] \in Int
    <3>1. Cardinality(failing) \in Nat
      BY <1>1, FS_CardinalityType
    <3> QED
      BY <1>7, <3>1
  <2>2. ~(rank[j] < rank[i]) /\ i # j
    BY <1>10, <2>1
  <2>3. Before(i, j)
    BY <1>2, <1>3, <1>4, <2>2
  <2> QED
    BY <1>3, <2>3
<1>11. \A i \in failing : rows[rank[i]].stage = PipelineStages[i] /\ rows[rank[i]].count = count[i]
  <2> SUFFICES ASSUME NEW i \in failing
               PROVE  rows[rank[i]].stage = PipelineStages[i] /\ rows[rank[i]].count = count[i]
    OBVIOUS
  <2>1. rows[rank[i]] = [stage |-> PipelineStages[i], count |-> count[i]]
    BY <1>8
  <2> QED
    BY <2>1
<1>12. rank \in Bijection(failing, DOMAIN rows)
  BY <1>4, <1>9
<1> QED
  BY <1>10, <1>11, <1>12 DEF count, failing, rows

\* So the roll-up counts every failure once, and those of retrieval as that.
LEMMA RollupOfStages ==
  ASSUME StagesInv
  PROVE  RetrievalIsNeverBlended
<1> DEFINE count == StageCounts(failedRuns)
           stages == DOMAIN PipelineStages
           failing == {i \in stages : count[i] > 0}
           rows == StageRollup(failedRuns)
           missed == {i \in DOMAIN failedRuns : "retrievalRecallFailed" \in failedRuns[i].signals}
           CountOf(stage) == {rows[i].count : i \in {j \in DOMAIN rows : rows[j].stage = stage}}
<1>1. \A i \in stages : count[i] \in Nat
  <2>1. \A stage : StageCount(failedRuns, stage) \in Nat
    <3> SUFFICES ASSUME NEW stage
                 PROVE  StageCount(failedRuns, stage) \in Nat
      OBVIOUS
    <3>1. [signals |-> {}, stage |-> PipelineStages[1]] \in FailedRuns
      BY StagesAre DEF FailedRuns, StageNames
    <3> QED
      BY <3>1, CountOfOneMore DEF StagesInv
  <2> QED
    BY <2>1 DEF StageCounts
<1>2. PICK rank \in Bijection(failing, DOMAIN rows) :
        /\ \A i \in failing : rows[rank[i]].stage = PipelineStages[i] /\ rows[rank[i]].count = count[i]
        /\ \A i, j \in failing : rank[i] < rank[j] => count[i] >= count[j]
  BY <1>1, RollupRanks
<1>3. /\ rank \in [failing -> DOMAIN rows]
      /\ \A n \in DOMAIN rows : \E i \in failing : rank[i] = n
  BY <1>2 DEF Bijection, Injection, Surjection
<1>4. count[1] = Cardinality(missed)
  <2>1. count[1] = StageCount(failedRuns, "retrieval_miss")
    BY StagesAre DEF StageCounts
  <2>2. \A i \in DOMAIN failedRuns : failedRuns[i].signals \in SUBSET SignalNames
    <3>1. failedRuns \in Seq(FailedRuns)
      BY DEF StagesInv
    <3>2. \A i \in DOMAIN failedRuns : failedRuns[i] \in FailedRuns
      BY <3>1, ElementOfSeq, LenProperties
    <3> QED
      BY <3>2 DEF FailedRuns
  <2>3. \A i \in DOMAIN failedRuns : failedRuns[i].stage = "retrieval_miss"
                                       <=> "retrievalRecallFailed" \in failedRuns[i].signals
    BY <2>2, RetrievalOutranks DEF StagesInv
  <2>4. {i \in DOMAIN failedRuns : failedRuns[i].stage = "retrieval_miss"} = missed
    BY <2>3
  <2> HIDE DEF missed, count
  <2> QED
    BY <2>1, <2>4 DEF StageCount
<1>5. CountOf("retrieval_miss") = {Cardinality(missed)} \ {0}
  <2>1. \A i \in failing : PipelineStages[i] = "retrieval_miss" <=> i = 1
    BY StagesAre
  <2>2. \A n \in DOMAIN rows : rows[n].stage = "retrieval_miss" => 1 \in failing /\ n = rank[1]
    <3> HIDE DEF failing, rows
    <3> QED
      BY <1>2, <1>3, <2>1
  <2>3. 1 \in failing <=> count[1] # 0
    BY <1>1, StagesAre
  <2> HIDE DEF failing, rows, missed, count
  <2>4. CASE 1 \in failing
    <3>1. {j \in DOMAIN rows : rows[j].stage = "retrieval_miss"} = {rank[1]}
      BY <1>2, <1>3, <2>1, <2>2, <2>4
    <3>2. CountOf("retrieval_miss") = {rows[rank[1]].count}
      BY <3>1
    <3> QED
      BY <1>2, <1>4, <2>3, <2>4, <3>2
  <2>5. CASE 1 \notin failing
    <3>1. {j \in DOMAIN rows : rows[j].stage = "retrieval_miss"} = {}
      BY <2>2, <2>5
    <3>2. CountOf("retrieval_miss") = {}
      BY <3>1
    <3> QED
      BY <1>4, <2>3, <2>5, <3>2
  <2> QED
    BY <2>4, <2>5
<1>6. ASSUME NEW m \in DOMAIN rows, NEW n \in DOMAIN rows, m < n
      PROVE  rows[m].count >= rows[n].count
  <2> HIDE DEF failing, rows, count
  <2> QED
    BY <1>2, <1>3, <1>6
<1>7. SumFunction([n \in DOMAIN rows |-> rows[n].count]) = Len(failedRuns)
  <2> DEFINE counts == [n \in DOMAIN rows |-> rows[n].count]
  <2>1. SumFunctionOnSet(count, stages) = Len(failedRuns)
    BY DEF StagesInv
  <2>2. SumFunctionOnSet(count, stages) = SumFunctionOnSet(count, failing)
    <3>1. {i \in stages : count[i] # 0} = failing
      BY <1>1
    <3>2. \A i \in stages : count[i] \in Int
      BY <1>1
    <3>3. IsFiniteSet(stages)
      BY StagesAre
    <3> HIDE DEF failing, count, stages
    <3> QED
      BY <3>1, <3>2, <3>3, SumOfNonzero
  <2>3. IsFiniteSet(failing)
    <3>1. failing \in SUBSET stages
      OBVIOUS
    <3> HIDE DEF failing
    <3> QED
      BY <3>1, StagesAre, FS_Subset
  <2>4. \A i \in failing : count[i] \in Int
    BY <1>1
  <2> HIDE DEF failing, count, rows
  <2>5. \A i \in failing : count[i] = counts[rank[i]]
    BY <1>2, <1>3
  <2>6. \A n \in DOMAIN rows : counts[n] \in Int
    BY <1>2, <1>3, <2>4
  <2>7. DOMAIN counts = DOMAIN rows
    OBVIOUS
  <2> HIDE DEF counts
  <2>8. SumFunctionOnSet(count, failing) = SumFunctionOnSet(counts, DOMAIN rows)
    BY <1>2, <2>3, <2>5, <2>6, SumOverBijection
  <2>9. SumFunction(counts) = SumFunctionOnSet(counts, DOMAIN rows)
    BY <2>7 DEF SumFunction
  <2> QED
    BY <2>1, <2>2, <2>8, <2>9 DEF counts
<1> QED
  BY <1>5, <1>6, <1>7 DEF RetrievalIsNeverBlended

\* A failure of a run keeps what its roll-up rests on.
LEMMA StagesStep ==
  ASSUME StagesInv, [StagesNext]_failedRuns
  PROVE  StagesInv'
<1>1. CASE UNCHANGED failedRuns
  BY <1>1 DEF StagesInv
<1>2. CASE RunFailed
  <2>1. PICK signals \in SUBSET SignalNames :
          failedRuns' = Append(failedRuns, [signals |-> signals, stage |-> InferStage(signals)])
    BY <1>2 DEF RunFailed, SignalNames
  <2> DEFINE run == [signals |-> signals, stage |-> InferStage(signals)]
             n == Len(failedRuns)
  <2>2. run \in FailedRuns
    BY RetrievalOutranks DEF FailedRuns
  <2>3. /\ failedRuns \in Seq(FailedRuns) /\ failedRuns' \in Seq(FailedRuns)
        /\ Len(failedRuns') = n + 1 /\ n \in Nat
        /\ failedRuns'[n + 1] = run
        /\ \A i \in 1..n : failedRuns'[i] = failedRuns[i]
    <3> HIDE DEF run
    <3> QED
      BY <2>1, <2>2, AppendProperties, LenProperties DEF StagesInv, run
  <2>4. DOMAIN failedRuns' = 1..(n + 1) /\ DOMAIN failedRuns = 1..n
    BY <2>3, LenProperties
  <2>5. \A i \in DOMAIN failedRuns' : failedRuns'[i].stage = InferStage(failedRuns'[i].signals)
    <3>1. 1..(n + 1) = 1..n \cup {n + 1}
      BY <2>3
    <3> HIDE DEF n
    <3> QED
      BY <2>3, <2>4, <3>1 DEF StagesInv
  <2>6. PICK s \in DOMAIN PipelineStages : PipelineStages[s] = run.stage
    BY <2>2 DEF FailedRuns, StageNames
  <2> DEFINE before == StageCounts(failedRuns)
             after == StageCounts(failedRuns')
  <2>7. \A i \in DOMAIN PipelineStages :
          before[i] \in Int /\ after[i] = IF i = s THEN before[i] + 1 ELSE before[i]
    <3> SUFFICES ASSUME NEW i \in DOMAIN PipelineStages
                 PROVE  before[i] \in Int /\ after[i] = IF i = s THEN before[i] + 1 ELSE before[i]
      OBVIOUS
    <3>1. i = s <=> PipelineStages[i] = run.stage
      BY <2>6, StagesAre
    <3>2. /\ before[i] = StageCount(failedRuns, PipelineStages[i])
          /\ after[i] = StageCount(Append(failedRuns, run), PipelineStages[i])
      BY <2>1 DEF StageCounts
    <3> HIDE DEF run, before, after
    <3> QED
      BY <2>2, <2>3, <3>1, <3>2, CountOfOneMore
  <2>8. SumFunctionOnSet(after, DOMAIN PipelineStages)
          = SumFunctionOnSet(before, DOMAIN PipelineStages) + 1
    <3> HIDE DEF before, after, run
    <3> QED
      BY <2>7, StagesAre, SumOfOneMore
  <2> QED
    BY <2>3, <2>5, <2>8 DEF StagesInv
<1> QED
  BY <1>1, <1>2 DEF StagesNext

\* Retrieval failures are never blended into another stage's count, and every failure
\* is in exactly one row of the scorecard, however many there are.
THEOREM RetrievalIsNeverBlendedHolds == StagesSpec => []RetrievalIsNeverBlended
<1>1. StagesInit => StagesInv
  <2> SUFFICES ASSUME failedRuns = <<>>
               PROVE  StagesInv
    BY DEF StagesInit
  <2> DEFINE count == StageCounts(failedRuns)
  <2>1. \A i \in DOMAIN PipelineStages : count[i] = 0
    <3>1. \A stage : {i \in DOMAIN failedRuns : failedRuns[i].stage = stage} = {}
      OBVIOUS
    <3> QED
      BY <3>1, FS_EmptySet DEF StageCounts, StageCount
  <2>2. SumFunctionOnSet(count, DOMAIN PipelineStages) = 0
    <3>1. {i \in DOMAIN PipelineStages : count[i] # 0} = {}
      BY <2>1
    <3>2. SumFunctionOnSet(count, {}) = 0
      BY SumChooses, FS_EmptySet
    <3> HIDE DEF count
    <3> QED
      BY <2>1, <3>1, <3>2, StagesAre, SumOfNonzero
  <2> QED
    BY <2>2, EmptySeq DEF StagesInv
<1>2. StagesInv /\ [StagesNext]_failedRuns => StagesInv'
  BY StagesStep
<1>3. StagesInv => RetrievalIsNeverBlended
  BY RollupOfStages
<1> QED
  BY <1>1, <1>2, <1>3, PTL DEF StagesSpec
=============================================================================
