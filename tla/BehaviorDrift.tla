---------------------------- MODULE BehaviorDrift ----------------------------
(***************************************************************************)
(* The mix of an agent's tool calls against its stored baseline.  Mix,     *)
(* distance and alert are the code's; recording the baseline is the        *)
(* orchestrator's part.  Shares are compared after multiplying with the    *)
(* totals of both mixes.                                                   *)
(***************************************************************************)
EXTENDS Integers, FiniteSets, Functions

CONSTANTS
  CallTools,      \* the tools of the agent
  MinCalls,       \* below as many calls an alert is suppressed
  TvdThreshold,   \* in percent
  MaxCalls        \* bound on the calls between two recordings

ASSUME BehaviorAssumption ==
  /\ IsFiniteSet(CallTools) /\ MinCalls \in Nat \ {0}
  /\ TvdThreshold \in 0..100 /\ MaxCalls \in Nat

VARIABLES
  recent,      \* recent[t]: the recent calls of tool t
  baselineMix  \* baselineMix[t]: those the baseline was recorded from

behaviorVars == <<recent, baselineMix>>

Total(calls) == SumFunctionOnSet(calls, CallTools)

\* The total of a mix as a denominator: the mix of no calls has no shares.
Whole(calls) == IF Total(calls) = 0 THEN 1 ELSE Total(calls)

\* How much larger the share of each tool is now than before, times both totals.
Shift(now, before) ==
  [t \in CallTools |-> now[t] * Whole(before) - before[t] * Whole(now)]

Distances(shift) == [t \in CallTools |-> IF shift[t] < 0 THEN -shift[t] ELSE shift[t]]

\* As if a tool that is no longer called were not compared.
ShiftOfCalledTools(now, before) ==
  SumFunctionOnSet(Distances(Shift(now, before)), {t \in CallTools : now[t] > 0})

\* Twice the total variation distance, times both totals.
MixShift(now, before) == SumFunctionOnSet(Distances(Shift(now, before)), CallTools)

BehaviorDriftAlert(now, before) ==
  /\ Total(now) >= MinCalls
  /\ 100 * MixShift(now, before) > 2 * TvdThreshold * Whole(before) * Whole(now)

-----------------------------------------------------------------------------
NoCalls == [t \in CallTools |-> 0]

BehaviorInit == recent = NoCalls /\ baselineMix = NoCalls

ToolCalled ==
  /\ Total(recent) < MaxCalls
  /\ \E t \in CallTools : recent' = [recent EXCEPT ![t] = @ + 1]
  /\ UNCHANGED baselineMix

\* What the agent did since the last recording is its new baseline.
BaselineRecorded ==
  /\ Total(recent) > 0
  /\ baselineMix' = recent /\ recent' = NoCalls

BehaviorNext == ToolCalled \/ BaselineRecorded

BehaviorSpec == BehaviorInit /\ [][BehaviorNext]_behaviorVars

-----------------------------------------------------------------------------
\* The distance of two mixes is the largest shift of any set of tools: there is an
\* alert if and only if some set of tools has gained or lost more than the threshold,
\* tools that are new or no longer called included.
AlertIsSomeToolsShift ==
  Total(recent) >= MinCalls /\ Total(baselineMix) > 0 =>
    (BehaviorDriftAlert(recent, baselineMix) <=>
       \E ts \in SUBSET CallTools :
         100 * SumFunctionOnSet(Shift(recent, baselineMix), ts)
           > TvdThreshold * Total(baselineMix) * Total(recent))
=============================================================================
