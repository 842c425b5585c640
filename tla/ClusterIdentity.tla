--------------------------- MODULE ClusterIdentity ---------------------------
(***************************************************************************)
(* The durable identity of failure clusters.  Every run clusters the       *)
(* failures anew, numbers its clusters in the order they came up and       *)
(* matches them with the clusters of the run before by the cosine of their *)
(* label embeddings; what matches none keeps its own id.                   *)
(*                                                                         *)
(* A cluster is [id, label].  Ids are numbers, compared as the code        *)
(* compares its strings; similarities are hundredths.  What keeps the      *)
(* clusters of a run for the next one is the caller.                       *)
(***************************************************************************)
EXTENDS Naturals, Sequences, Functions

CONSTANTS
  Labels,       \* the label embeddings
  Cosine,       \* their similarity, a function on pairs of labels
  Threshold,    \* T, of matchClusters and of isNewCluster
  MinSize,      \* the members a cluster needs to be worth an alert
  MaxClusters,  \* bound on the clusters of a run
  MaxId         \* bound on the ids given

ASSUME ClusterAssumption ==
  /\ \A x, y \in Labels : Cosine[<<x, y>>] \in 0..100 /\ Cosine[<<x, y>>] = Cosine[<<y, x>>]
  /\ \A x \in Labels : Cosine[<<x, x>>] = 100
  /\ Threshold \in 1..100 /\ MinSize \in Nat /\ MaxClusters \in Nat /\ MaxId \in Nat

VARIABLES
  prior,   \* the clusters of the last run
  nextId,  \* the first id no run has given
  last     \* history: what the last run was given and assigned

clusterVars == <<prior, nextId, last>>

Similar(x, y) == Cosine[<<x, y>>] >= Threshold

\* As if a cluster of the run before could be continued by several.
MatchWithoutClaiming(priors, candidate, claimed) ==
  {p \in priors : /\ Similar(candidate.label, p.label)
                  /\ \A q \in priors :
                       Cosine[<<candidate.label, q.label>>] <= Cosine[<<candidate.label, p.label>>]}

\* As if the similarity had to exceed the threshold.
MatchAboveThreshold(priors, candidate, claimed) ==
  LET free == {p \in priors : p.id \notin claimed} IN
  {p \in free : /\ Cosine[<<candidate.label, p.label>>] > Threshold
                /\ \A q \in free :
                     Cosine[<<candidate.label, q.label>>] <= Cosine[<<candidate.label, p.label>>]}

\* The most similar clusters of the run before, of those not claimed yet.
BestMatches(priors, candidate, claimed) ==
  LET free == {p \in priors : p.id \notin claimed} IN
  {p \in free : /\ Similar(candidate.label, p.label)
                /\ \A q \in free :
                     Cosine[<<candidate.label, q.label>>] <= Cosine[<<candidate.label, p.label>>]}

\* Of equally similar clusters the last in id order is continued.
Assign(priors, candidate, claimed) ==
  LET best == BestMatches(priors, candidate, claimed) IN
  IF best = {}
  THEN [candidate |-> candidate, assignedId |-> candidate.id, carriedOver |-> FALSE]
  ELSE [candidate |-> candidate, carriedOver |-> TRUE,
        assignedId |-> CHOOSE i \in {p.id : p \in best} : \A p \in best : p.id <= i]

\* The ids the candidates before the n-th continue.
ClaimedBefore(assignments, n) ==
  {assignments[i].assignedId : i \in {j \in 1..(n - 1) : assignments[j].carriedOver}}

\* Candidates are taken in the order of their temporary ids.
MatchClusters(priors, candidates) ==
  LET assigned[n \in DOMAIN candidates] ==
        Assign(priors, candidates[n], ClaimedBefore(assigned, n))
  IN assigned

\* As if a label at the threshold were new still.
NewAtThreshold(memberCount, label, priorLabels, afterDeploy) ==
  /\ memberCount >= MinSize /\ afterDeploy
  /\ \A x \in priorLabels : Cosine[<<label, x>>] <= Threshold

IsNewCluster(memberCount, label, priorLabels, afterDeploy) ==
  /\ memberCount >= MinSize /\ afterDeploy
  /\ \A x \in priorLabels : Cosine[<<label, x>>] < Threshold

-----------------------------------------------------------------------------
Candidates(labels, firstId) ==
  [i \in DOMAIN labels |-> [id |-> firstId + i - 1, label |-> labels[i]]]

LabelSeqs == UNION {[1..n -> Labels] : n \in 1..MaxClusters}

ClusterInit == prior = {} /\ nextId = 1 /\ last = [priors |-> {}, assignments |-> <<>>, alerts |-> {}]

\* The failures are clustered into clusters with these labels, each with its number
\* of members and whether its first is after the version shipped.
Run(labels) ==
  LET candidates  == Candidates(labels, nextId)
      assignments == MatchClusters(prior, candidates)
  IN /\ nextId + Len(labels) - 1 <= MaxId
     /\ \E members \in [DOMAIN labels -> {MinSize - 1, MinSize}],
           afterDeploy \in [DOMAIN labels -> BOOLEAN] :
          last' = [priors |-> prior, assignments |-> assignments,
                   alerts |-> {i \in DOMAIN labels :
                                 IsNewCluster(members[i], labels[i], {p.label : p \in prior},
                                              afterDeploy[i])}]
     /\ prior' = {[id |-> assignments[i].assignedId, label |-> labels[i]] : i \in DOMAIN labels}
     /\ nextId' = nextId + Len(labels)

ClusterNext == \E labels \in LabelSeqs : Run(labels)

ClusterSpec == ClusterInit /\ [][ClusterNext]_clusterVars

-----------------------------------------------------------------------------
Continued(label, assignments) ==
  {assignments[i].assignedId :
     i \in {j \in DOMAIN assignments :
              assignments[j].carriedOver /\ assignments[j].candidate.label = label}}

\* A cluster that raises an alert as new continues no series: the two functions
\* that compare it with the run before agree, also at the threshold.
AlertsAreForNewSeries == \A i \in last.alerts : ~last.assignments[i].carriedOver

Unambiguous(labels, priors) ==
  /\ \A i, j \in DOMAIN labels : Similar(labels[i], labels[j]) => i = j
  /\ \A i \in DOMAIN labels, p, q \in priors :
       Similar(labels[i], p.label) /\ Similar(labels[i], q.label) => p = q
  /\ \A i, j \in DOMAIN labels, p \in priors :
       Similar(labels[i], p.label) /\ Similar(labels[j], p.label) => i = j

\* No two clusters of a run have one id, whatever they match; and where no label of a
\* run is similar to two others, of its own or of the run before, every cluster
\* continues its series, in whatever order the clusters are numbered.
SeriesContinue ==
  LET a == last.assignments IN
  /\ IsInjective([i \in DOMAIN a |-> a[i].assignedId])
  /\ Unambiguous([i \in DOMAIN a |-> a[i].candidate.label], last.priors) =>
       \A i \in DOMAIN a, p \in last.priors :
         Similar(a[i].candidate.label, p.label) => a[i].assignedId = p.id

\* "The same fail-set yields the same ids across runs": clusters with the same labels
\* continue the same series however the run numbers them.
SameFailSetSameIds ==
  LET a == last.assignments
      reversed == MatchClusters(last.priors,
                    [i \in DOMAIN a |-> [id |-> a[i].candidate.id,
                                         label |-> a[Len(a) + 1 - i].candidate.label]])
  IN \A i \in DOMAIN a :
       Continued(a[i].candidate.label, a) = Continued(a[i].candidate.label, reversed)
=============================================================================
