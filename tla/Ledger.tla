------------------------------- MODULE Ledger -------------------------------
(***************************************************************************)
(* The improvement ledger's lifecycle: the statuses a row of               *)
(* apl_improvement may have, the transitions the ledger allows, and the    *)
(* pure step function `advance` through which every actor moves a row.     *)
(***************************************************************************)

Statuses == {"proposed", "approved", "rejected",
             "canary", "deployed", "rolled_back"}

AllowedTransitions ==
  [proposed    |-> {"approved", "rejected"},
   approved    |-> {"canary", "deployed", "rejected"},
   canary      |-> {"deployed", "rolled_back"},
   deployed    |-> {"rolled_back"},
   rejected    |-> {},
   rolled_back |-> {}]

\* A bug a maintainer could introduce: the comparison the wrong way round, so that
\* no row in flight finds a way out.
NoWayOut(from, to) == from \in AllowedTransitions[to]

CanTransition(from, to) == to \in AllowedTransitions[from]

Events == {"approve", "reject", "start_canary", "ab_promote", "ab_rollback"}

EventTarget ==
  [approve      |-> "approved",
   reject       |-> "rejected",
   start_canary |-> "canary",
   ab_promote   |-> "deployed",
   ab_rollback  |-> "rolled_back"]

\* Bugs a maintainer could introduce: a step that answers with the event instead
\* of its target, and one that forgets the transition guard.
EventAsStatus(current, event) == [status |-> event, changed |-> TRUE]

UnguardedAdvance(current, event) ==
  [status |-> EventTarget[event], changed |-> current # EventTarget[event]]

\* The guarded, idempotent step: no change at the target, none on an illegal
\* transition, and the target otherwise.
Advance(current, event) ==
  LET target == EventTarget[event]
      moves  == current # target /\ CanTransition(current, target)
  IN  [status |-> IF moves THEN target ELSE current, changed |-> moves]

\* The events after which the sweep records a verify failure.
VerifyFailEvents == {"reject", "ab_rollback"}

=============================================================================
