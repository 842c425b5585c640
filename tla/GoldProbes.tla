----------------------------- MODULE GoldProbes -----------------------------
(***************************************************************************)
(* The drift of a judge as its gold probes see it.  The judge drifts and   *)
(* recovers; some of its calls, by the hash of their id, are probes with a *)
(* known answer; the alert is evaluated on the window before any moment,   *)
(* also one that is over (a replay).                                       *)
(*                                                                         *)
(* Sampling, window and alert are the code's; asking the judge and keeping *)
(* the outcomes is the orchestrator's part.                                *)
(***************************************************************************)
EXTENDS HashUnit, Sequences, FiniteSets

CONSTANTS
  Calls,         \* the ids of judge calls
  ProbeRatio,    \* in percent, clamped by the code
  WindowSize,
  MinN,          \* below as many probes the alert is suppressed
  Baseline,      \* the judge's accuracy, in percent
  Drop,          \* how far below it is a drift, in percent
  MaxProbeClock, \* bound on the clock
  MaxProbes      \* bound on the outcomes kept

ASSUME ProbesAssumption ==
  /\ Calls \subseteq DOMAIN Unit /\ ProbeRatio \in Int /\ MinN \in Nat \ {0}
  /\ WindowSize \in Nat \ {0} /\ Baseline \in 0..100 /\ Drop \in 0..100
  /\ MaxProbeClock \in Nat /\ MaxProbes \in Nat

VARIABLES
  clock,
  regime,   \* regime[t]: how the judge judges at t
  outcomes  \* the n-th outcome: [correct, at]

probeVars == <<clock, regime, outcomes>>

ShouldBeProbe(call) ==
  Below(call, IF ProbeRatio < 0 THEN 0 ELSE IF ProbeRatio > 100 THEN 100 ELSE ProbeRatio)

\* The moments of the window that ends at t.
Before(t) == {u \in 0..clock : t - WindowSize < u /\ u <= t}

\* As if the window were closed at both ends.
ClosedWindow(t) ==
  {n \in DOMAIN outcomes : t - WindowSize <= outcomes[n].at /\ outcomes[n].at <= t}

\* The outcomes of the window that ends at t.
InWindow(t) ==
  {n \in DOMAIN outcomes : t - WindowSize < outcomes[n].at /\ outcomes[n].at <= t}

\* The accuracy is below baseline - drop, on at least MinN probes.
ProbeDriftAlert(t) ==
  LET n == Cardinality(InWindow(t))
      correct == Cardinality({i \in InWindow(t) : outcomes[i].correct})
  IN n >= MinN /\ 100 * correct < (Baseline - Drop) * n

-----------------------------------------------------------------------------
ProbeInit ==
  /\ clock = 0 /\ outcomes = <<>>
  /\ \E now \in {"as calibrated", "drifted"} : regime = [t \in {0} |-> now]

\* A judge as calibrated answers its probes right, one that drifted answers anything.
\* A call made again, on a retry, is a probe again.
JudgeAnswers(call) ==
  /\ Len(outcomes) < MaxProbes /\ ShouldBeProbe(call)
  /\ \E correct \in (IF regime[clock] = "drifted" THEN BOOLEAN ELSE {TRUE}) :
       outcomes' = Append(outcomes, [correct |-> correct, at |-> clock])
  /\ UNCHANGED <<clock, regime>>

ProbeTick ==
  /\ clock < MaxProbeClock /\ clock' = clock + 1
  /\ \E next \in {"as calibrated", "drifted"} :
       regime' = [t \in 0..clock' |-> IF t = clock' THEN next ELSE regime[t]]
  /\ UNCHANGED outcomes

ProbeNext == (\E call \in Calls : JudgeAnswers(call)) \/ ProbeTick

ProbeSpec == ProbeInit /\ [][ProbeNext]_probeVars

-----------------------------------------------------------------------------
\* The alert follows the judge at every moment, past ones included: it is silent on a
\* judge that was as calibrated for the whole window, however it judged before or
\* after, and it is raised on one that got nothing right on enough probes in it.
AlertFollowsTheJudge ==
  \A t \in 0..clock :
    LET probes == {n \in DOMAIN outcomes : outcomes[n].at \in Before(t)} IN
    /\ ProbeDriftAlert(t) => \E u \in Before(t) : regime[u] = "drifted"
    /\ Cardinality(probes) >= MinN /\ (\A n \in probes : ~outcomes[n].correct)
         => ProbeDriftAlert(t)
=============================================================================
