------------------------------- MODULE MCGates -------------------------------
(***************************************************************************)
(* What judges and what gates, in one instance for TLC: a judge and its    *)
(* calibration, its gold probes, the cards of the judges of a rubric, the  *)
(* release of agent versions and that of retrieval configurations.         *)
(*                                                                         *)
(* None reads or writes what another one keeps: a behaviour is one of the  *)
(* component that turn names, and the state spaces add up.                 *)
(***************************************************************************)
EXTENDS JudgeLifecycle, GoldProbes, Rebaseline, ReleaseGate, RetrievalEval, TLC

CONSTANTS q1, q2, m1, m2, latest, c1, c2

VARIABLE turn  \* the component that moves

Init ==
  /\ turn \in {"judge", "probes", "rubric", "release", "retrieval"}
  /\ JudgeInit /\ ProbeInit /\ RebaselineInit /\ ReleaseInit /\ RetrievalInit
  /\ turn # "judge" => judge.model = alias
  /\ turn # "probes" => regime[0] = "drifted"

Next ==
  /\ \/ /\ turn = "judge" /\ JudgeNext
        /\ UNCHANGED <<probeVars, rebaselineVars, releaseVars, retrievalVars>>
     \/ /\ turn = "probes" /\ ProbeNext
        /\ UNCHANGED <<judgeVars, rebaselineVars, releaseVars, retrievalVars>>
     \/ /\ turn = "rubric" /\ RebaselineNext
        /\ UNCHANGED <<judgeVars, probeVars, releaseVars, retrievalVars>>
     \/ /\ turn = "release" /\ ReleaseNext
        /\ UNCHANGED <<judgeVars, probeVars, rebaselineVars, retrievalVars>>
     \/ /\ turn = "retrieval" /\ RetrievalNext
        /\ UNCHANGED <<judgeVars, probeVars, rebaselineVars, releaseVars>>
  /\ UNCHANGED turn

Spec ==
  Init /\ [][Next]_<<turn, judgeVars, probeVars, rebaselineVars, releaseVars, retrievalVars>>

\* What a component does not look at is the same for it in whatever order it is named.
MCSymmetry == Permutations(Prompts) \cup Permutations(Snapshots) \cup Permutations(Cases)

-----------------------------------------------------------------------------
\* The judge: a labeled set, and what it may reply.

MCLabels == <<TRUE, FALSE, TRUE, FALSE>>

Verdict(words) == [answered |-> TRUE, words |-> words]

Throws == [answered |-> FALSE, words |-> {}]

MCVerdicts == {Verdict({"pass"}), Verdict({"fail"}), Throws}

MCUnclear == {Verdict({"pass"}), Verdict({"fail"}), Verdict({"fail", "not", "supported"})}

\* The probes: one call that is sampled and one that is not.

MCUnit == ("call1" :> 3) @@ ("call2" :> 40)

-----------------------------------------------------------------------------
\* The release: what the model replies, what people submit.

Reply(parses, text) == [parses |-> parses, fewShot |-> text]

Own(field, text, artifacts) ==
  [patch |-> Patch({[field |-> field, value |-> text]}), minedArtifacts |-> artifacts,
   knownTools |-> TRUE]

WithoutTools(submission) == [submission EXCEPT !.knownTools = FALSE]

Mined(text, trust) == {[text |-> text, trust |-> trust]}

MCReplies == {Reply(FALSE, {}), Reply(TRUE, {}), Reply(TRUE, {"pii"}), Reply(TRUE, {"tool"})}

MCSubmitted ==
  {Own("system_prompt", {}, Mined({}, "trusted")),
   Own("system_prompt", {"directive"}, {}),
   WithoutTools(Own("few_shot", {"tool"}, {})),
   Own("few_shot", {}, Mined({}, "anonymous")),
   Own("tools", {}, {}),
   [Own("few_shot", {}, {}) EXCEPT !.patch.toolsBefore = <<"t">>, !.patch.toolsAfter = <<"u">>]}

\* What is not passed along is not screened.
MCOmitted == {WithoutTools(Own("few_shot", {"tool"}, {})), Own("few_shot", {"pii"}, {})}

MCCleanReply == {Reply(TRUE, {})}

MCSuites == {<<TRUE>>, <<TRUE, FALSE>>, <<>>}
MCPassing == {<<TRUE>>}

-----------------------------------------------------------------------------
\* The retrieval: a case with graded memories and one with a single relevant memory;
\* the index answers in any order, or one memory twice.

MCMemories == {"x", "y", "z"}

MCGrade ==
  ("graded" :> [m \in MCMemories |-> CASE m = "x" -> 2 [] m = "y" -> 1 [] m = "z" -> 0])
    @@ ("single" :> [m \in MCMemories |-> IF m = "z" THEN 1 ELSE 0])

MCRankings ==
  {r \in [1..3 -> MCMemories] : IsInjective(r)} \cup {<<"z", "z">>, <<"x", "y", "x">>}
=============================================================================
