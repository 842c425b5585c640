----------------------------- MODULE PatchScreen -----------------------------
(***************************************************************************)
(* The screens an auto-patch passes before it reaches the eval gate: the   *)
(* autonomy boundary on its operations and the content screen on the mined *)
(* artifacts it was made from.                                             *)
(*                                                                         *)
(* A text is the set of the markers the code's patterns find in it: a      *)
(* "directive" (FORBIDDEN_PATTERNS), a "tool" name, an "injection", "pii"  *)
(* or an "instruction" (INSTRUCTION_MARKERS).                              *)
(***************************************************************************)
EXTENDS Naturals, Sequences, SequencesExt

Markers == {"directive", "tool", "injection", "pii", "instruction"}

AllowedPatchFields == {"system_prompt", "context_strategy", "few_shot"}

\* As if the content guard stopped at the prompt's own fields.
CheckFieldsOnly(patch, knownTools) ==
  \A op \in patch.ops : op.field \in AllowedPatchFields

\* A patch is [ops, toolsBefore, toolsAfter]; the lists of tools are optional,
\* <<>> when absent and <<bag of tools>> when given.
CheckAutonomy(patch, knownTools) ==
  /\ \A op \in patch.ops :
       /\ op.field \in AllowedPatchFields
       /\ op.value \cap {"directive", "injection"} = {}
       /\ knownTools => "tool" \notin op.value
  /\ patch.toolsBefore # <<>> /\ patch.toolsAfter # <<>>
       => patch.toolsBefore = patch.toolsAfter

Quarantined(artifact) == artifact.trust # "trusted"

ScreenMinedArtifact(artifact) ==
  /\ artifact.text \cap {"injection", "pii", "instruction"} = {}
  /\ ~Quarantined(artifact)

Patch(ops) == [ops |-> ops, toolsBefore |-> <<>>, toolsAfter |-> <<>>]

\* The candidate a model's reply becomes: a few-shot patch and the artifact it
\* was mined from, or an inert patch when the reply cannot be parsed.
ProposePatch(reply) ==
  IF ~reply.parses
  THEN [patch |-> Patch({}), minedArtifacts |-> {}]
  ELSE [patch |-> Patch({[field |-> "few_shot", value |-> reply.fewShot]}),
        minedArtifacts |-> {[text |-> reply.fewShot, trust |-> "trusted"]}]

\* The stage that rejects a reply, or "accepted".
ProposeAndScreen(reply, knownTools) ==
  LET proposal == ProposePatch(reply) IN
  IF ~CheckAutonomy(proposal.patch, knownTools) THEN "autonomy"
  ELSE IF \E a \in proposal.minedArtifacts : ~ScreenMinedArtifact(a) THEN "content-safety"
  ELSE "accepted"
=============================================================================
