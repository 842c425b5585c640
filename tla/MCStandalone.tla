----------------------------- MODULE MCStandalone -----------------------------
(***************************************************************************)
(* The components that keep a state of their own and share none of it, in  *)
(* one instance for TLC: the trust ladder of an agent, the splits of its   *)
(* corpus, the routing of a canary, the identity and the trend of its      *)
(* failure clusters, the coding and the stages of its failures, its mix of *)
(* tool calls, the sampling of its traces and the comparison of two runs.  *)
(* The splits and the routing share the hash unit.                         *)
(*                                                                         *)
(* No step of one reads or writes what another one keeps, so that what the *)
(* variables of one can do in any interleaving they do when it moves       *)
(* alone: a behaviour is one of the component that turn names, and the     *)
(* state spaces add up instead of multiplying.                             *)
(***************************************************************************)
EXTENDS TrustLadder, CorpusSplit, CanaryRouting, ClusterIdentity, ClusterTrend,
        FailureTaxonomy, BehaviorDrift, TraceSampling, Equivalence, TLC

VARIABLE turn  \* the component that moves

Init ==
  /\ turn \in {"ladder", "corpus", "canary", "clusters", "trend", "taxonomy", "stages",
              "behavior", "sampling", "equivalence"}
  /\ LadderInit /\ CorpusInit /\ CanaryInit /\ ClusterInit /\ TrendInit
  /\ TaxonomyInit /\ StagesInit /\ BehaviorInit /\ SamplingInit /\ EquivalenceInit

Next ==
  /\ \/ /\ turn = "ladder" /\ LadderNext
        /\ UNCHANGED <<corpusVars, canaryVars, clusterVars, trendVars, taxonomyVars,
                       failedRuns, behaviorVars, samplingVars, call>>
     \/ /\ turn = "corpus" /\ CorpusNext
        /\ UNCHANGED <<ladderVars, canaryVars, clusterVars, trendVars, taxonomyVars,
                       failedRuns, behaviorVars, samplingVars, call>>
     \/ /\ turn = "canary" /\ CanaryNext
        /\ UNCHANGED <<ladderVars, corpusVars, clusterVars, trendVars, taxonomyVars,
                       failedRuns, behaviorVars, samplingVars, call>>
     \/ /\ turn = "clusters" /\ ClusterNext
        /\ UNCHANGED <<ladderVars, corpusVars, canaryVars, trendVars, taxonomyVars,
                       failedRuns, behaviorVars, samplingVars, call>>
     \/ /\ turn = "trend" /\ TrendNext
        /\ UNCHANGED <<ladderVars, corpusVars, canaryVars, clusterVars, taxonomyVars,
                       failedRuns, behaviorVars, samplingVars, call>>
     \/ /\ turn = "taxonomy" /\ TaxonomyNext
        /\ UNCHANGED <<ladderVars, corpusVars, canaryVars, clusterVars, trendVars,
                       failedRuns, behaviorVars, samplingVars, call>>
     \/ /\ turn = "stages" /\ StagesNext
        /\ UNCHANGED <<ladderVars, corpusVars, canaryVars, clusterVars, trendVars,
                       taxonomyVars, behaviorVars, samplingVars, call>>
     \/ /\ turn = "behavior" /\ BehaviorNext
        /\ UNCHANGED <<ladderVars, corpusVars, canaryVars, clusterVars, trendVars,
                       taxonomyVars, failedRuns, samplingVars, call>>
     \/ /\ turn = "sampling" /\ SamplingNext
        /\ UNCHANGED <<ladderVars, corpusVars, canaryVars, clusterVars, trendVars,
                       taxonomyVars, failedRuns, behaviorVars, call>>
     \/ /\ turn = "equivalence" /\ EquivalenceNext
        /\ UNCHANGED <<ladderVars, corpusVars, canaryVars, clusterVars, trendVars,
                       taxonomyVars, failedRuns, behaviorVars, samplingVars>>
  /\ UNCHANGED turn

Spec ==
  Init /\ [][Next]_<<turn, ladderVars, corpusVars, canaryVars, clusterVars, trendVars,
                     taxonomyVars, failedRuns, behaviorVars, samplingVars, call>>

-----------------------------------------------------------------------------
CONSTANTS search, fetch, r1, r2

\* Cases on the three sides of the split, and traces that go to the canary with the
\* first step of the ramp, with the second, and only at its end.
MCUnit ==
  ("a" :> 5) @@ ("b" :> 25) @@ ("c" :> 30) @@ ("d" :> 60) @@ ("e" :> 90)
    @@ ("t1" :> 3) @@ ("t2" :> 40) @@ ("t3" :> 99)

MCOutcomeOf ==
  ("a" :> "escalated") @@ ("b" :> "success") @@ ("c" :> "fail")
    @@ ("d" :> "success") @@ ("e" :> "escalated")

\* Three directions a rotation apart, the outer two too far apart to match, and one
\* with nothing in common with them.
MCLabels == {"left", "middle", "right", "other"}

MCCosine ==
  [pair \in MCLabels \X MCLabels |->
     CASE pair[1] = pair[2] -> 100
       [] "other" \in {pair[1], pair[2]} -> 0
       [] "middle" \in {pair[1], pair[2]} -> 90
       [] OTHER -> 62]

\* A vocabulary people wrote: one label twice, in two forms.
MCVocabulary ==
  <<[word |-> "timeout", form |-> "cased"], [word |-> "timeout", form |-> "plain"]>>

RunsUpTo(n) == UNION {AgentRuns(m) : m \in 1..n}

\* Every run of up to four operations with itself, every two of up to three.
MCPairs == {<<r, r>> : r \in RunsUpTo(4)} \cup (RunsUpTo(3) \X RunsUpTo(3))

\* A root agent with two sub-agents, a chat and a tool call somewhere below.
TwoSubAgents ==
  {[op |-> <<"invoke_agent", "invoke_agent", "invoke_agent", "chat", "execute_tool">>,
    parent |-> <<0, 1, 1, chat, tool>>] : chat \in 1..3, tool \in 1..3}

MCDelegating == TwoSubAgents \X TwoSubAgents

MCSymmetry == Permutations(Tools) \cup Permutations(Reviewers)
=============================================================================
