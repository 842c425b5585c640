---------------------------- MODULE CanaryRouting ----------------------------
(***************************************************************************)
(* A canary rollout: the share of traffic on the canary goes up, traces    *)
(* are routed by their hash and may be resumed or retried later, their     *)
(* outcomes are counted per arm, and the A/B rule promotes or rolls back.  *)
(*                                                                         *)
(* The arm of a trace, the counts and the rule are the code's; the ramp is *)
(* the product's.                                                          *)
(***************************************************************************)
EXTENDS HashUnit

CONSTANTS
  Traces,
  Ratios,      \* the shares the ramp goes through, in percent
  MinSample,
  Margin,      \* in percent
  MaxOutcomes  \* bound on the outcomes counted per arm

ASSUME RoutingAssumption ==
  /\ Traces \subseteq DOMAIN Unit /\ Ratios \subseteq 0..100
  /\ MinSample \in Nat \ {0} /\ Margin \in Nat /\ MaxOutcomes \in Nat

VARIABLES
  ratio,    \* the share of traffic on the canary
  arm,      \* arm[t]: where t was last routed, "none" before it arrives
  tally,    \* tally[a]: the outcomes of arm a: how many and how many passed
  verdict   \* what the rule said of the rollout: "promote", "rollback" or "inconclusive"

canaryVars == <<ratio, arm, tally, verdict>>

Arms == {"canary", "prod"}

\* As if the comparison were the other way round.
AssignArmInverted(t, canaryRatio) ==
  CASE canaryRatio <= 0 -> "prod"
    [] canaryRatio >= 100 -> "canary"
    [] OTHER -> IF Below(t, canaryRatio) THEN "prod" ELSE "canary"

AssignArm(t, canaryRatio) ==
  CASE canaryRatio <= 0 -> "prod"
    [] canaryRatio >= 100 -> "canary"
    [] OTHER -> IF Below(t, canaryRatio) THEN "canary" ELSE "prod"

\* The pass rates of a and b in percent of a.n * b.n: no arm here is empty.
Lead(a, b) == 100 * (a.passes * b.n - b.passes * a.n)

\* As if a lead of exactly the margin were one.
AbDecisionAtMargin(canary, prod) ==
  CASE canary.n < MinSample \/ prod.n < MinSample -> "inconclusive"
    [] canary.n >= MinSample /\ prod.n >= MinSample ->
         IF Lead(prod, canary) > Margin * canary.n * prod.n THEN "rollback"
         ELSE IF Lead(canary, prod) >= Margin * canary.n * prod.n THEN "promote"
         ELSE "inconclusive"

\* As if the canary alone needed a sample.
AbDecisionOneSample(canary, prod) ==
  IF canary.n < MinSample THEN "inconclusive"
  ELSE IF Lead(prod, canary) > Margin * canary.n * prod.n THEN "rollback"
  ELSE IF Lead(canary, prod) > Margin * canary.n * prod.n THEN "promote"
  ELSE "inconclusive"

AbDecision(canary, prod) ==
  IF canary.n < MinSample \/ prod.n < MinSample THEN "inconclusive"
  ELSE IF Lead(prod, canary) > Margin * canary.n * prod.n THEN "rollback"
  ELSE IF Lead(canary, prod) > Margin * canary.n * prod.n THEN "promote"
  ELSE "inconclusive"

-----------------------------------------------------------------------------
CanaryInit ==
  /\ ratio = 0
  /\ arm = [t \in Traces |-> "none"]
  /\ tally = [a \in Arms |-> [n |-> 0, passes |-> 0]]
  /\ verdict = "inconclusive"

RampUp ==
  /\ verdict = "inconclusive"
  /\ \E r \in Ratios : r > ratio /\ ratio' = r
  /\ UNCHANGED <<arm, tally, verdict>>

\* A trace arrives, or one that was here is resumed or retried.
Route(t) ==
  /\ arm' = [arm EXCEPT ![t] = AssignArm(t, ratio)]
  /\ UNCHANGED <<ratio, tally, verdict>>

Outcome(t) ==
  /\ arm[t] # "none" /\ tally[arm[t]].n < MaxOutcomes /\ verdict = "inconclusive"
  /\ \E pass \in {0, 1} :
       tally' = [tally EXCEPT ![arm[t]] = [n |-> @.n + 1, passes |-> @.passes + pass]]
  /\ UNCHANGED <<ratio, arm, verdict>>

\* The canary is promoted, or taken out of traffic.
DecideRollout ==
  /\ verdict = "inconclusive"
  /\ AbDecision(tally["canary"], tally["prod"]) # "inconclusive"
  /\ verdict' = AbDecision(tally["canary"], tally["prod"])
  /\ ratio' = IF verdict' = "rollback" THEN 0 ELSE 100
  /\ UNCHANGED <<arm, tally>>

CanaryNext == RampUp \/ DecideRollout \/ \E t \in Traces : Route(t) \/ Outcome(t)

CanarySpec == CanaryInit /\ [][CanaryNext]_canaryVars

-----------------------------------------------------------------------------
\* A trace that was on the canary stays there, resumed or retried, as the ramp goes
\* up, until the canary is rolled back.
CanaryTracesStay ==
  [][\A t \in Traces : arm[t] = "canary" /\ arm'[t] = "prod" => verdict = "rollback"]_canaryVars

\* The rule favours no arm: exchanging the arms turns a promotion into a rollback.
RuleIsSymmetric ==
  \A canary, prod \in {tally["canary"], tally["prod"]} :
    AbDecision(canary, prod) = "promote" <=> AbDecision(prod, canary) = "rollback"

\* A canary that is ahead in every outcome counted is never rolled back, nor one
\* decided on before both arms were sampled.
DecidedOnEvidence ==
  verdict # "inconclusive" =>
    /\ tally["canary"].n >= MinSample /\ tally["prod"].n >= MinSample
    /\ verdict = "promote" <=> Lead(tally["canary"], tally["prod"]) > 0
=============================================================================
