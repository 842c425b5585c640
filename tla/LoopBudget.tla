----------------------------- MODULE LoopBudget -----------------------------
(***************************************************************************)
(* The stop contract of a budget-consuming loop: the tracker's counters    *)
(* and the fail-closed check a loop makes before it goes on.  Pure: the    *)
(* clock and the kill switch are arguments.                                *)
(***************************************************************************)
EXTENDS Integers

BudgetType ==
  [maxIterations : Nat, tokenBudget : Nat, costCapUsd : Nat,
   timeoutMs : Nat, escalateAfterVerifyFails : Nat]

TrackerType ==
  [iterations : Nat, tokens : Nat, costUsd : Nat,
   consecutiveVerifyFails : Nat, startedMs : Nat]

NewTracker(startedMs) ==
  [iterations |-> 0, tokens |-> 0, costUsd |-> 0,
   consecutiveVerifyFails |-> 0, startedMs |-> startedMs]

RecordIteration(tracker) == [tracker EXCEPT !.iterations = @ + 1]

RecordVerifyFail(tracker) == [tracker EXCEPT !.consecutiveVerifyFails = @ + 1]

RecordVerifyPass(tracker) == [tracker EXCEPT !.consecutiveVerifyFails = 0]

\* Two bugs a maintainer could introduce: a check that forgets the kill switch
\* and one that tests its counters with > where the code has >=.
StopIgnoringKill(budget, tracker, nowMs, kill) ==
  \/ tracker.iterations >= budget.maxIterations
  \/ tracker.consecutiveVerifyFails >= budget.escalateAfterVerifyFails

StopOneLate(budget, tracker, nowMs, kill) ==
  \/ kill
  \/ tracker.iterations > budget.maxIterations
  \/ tracker.consecutiveVerifyFails > budget.escalateAfterVerifyFails

\* The code returns the first breached limit as the reason to log; a loop only
\* asks whether there is one.
ShouldStop(budget, tracker, nowMs, kill) ==
  \/ kill
  \/ tracker.iterations >= budget.maxIterations
  \/ tracker.tokens > budget.tokenBudget
  \/ tracker.costUsd > budget.costCapUsd
  \/ nowMs - tracker.startedMs > budget.timeoutMs
  \/ tracker.consecutiveVerifyFails >= budget.escalateAfterVerifyFails
=============================================================================
