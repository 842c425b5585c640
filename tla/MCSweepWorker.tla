---------------------------- MODULE MCSweepWorker ----------------------------
(***************************************************************************)
(* Instances of SweepWorker for TLC.                                       *)
(***************************************************************************)
EXTENDS SweepWorker, TLC

CONSTANTS p1, p2, r1, r2, s1, s2, s3, i1, i2, i3

\* Two replicas with one run each.
MCProcOf == (r1 :> p1) @@ (r2 :> p2)

\* One replica, one run.
MCAlone == (r1 :> p1)

\* One replica whose timer fires again before its first run is over.
MCOverlap == (r1 :> p1) @@ (r2 :> p1)

MCAnyVerdict    == [i \in Ids |-> {"start_canary", "ab_promote", "ab_rollback", "reject", None}]
MCPromote       == [i \in Ids |-> {"ab_promote"}]
MCOnlySecond    == (i1 :> {None}) @@ (i2 :> {"ab_promote"})

MCFromProposed == {"proposed"}
MCFromReview   == {"proposed", "approved"}
MCNobody       == {}

MCBudget(iterations, timeout, fails) ==
  [maxIterations |-> iterations, tokenBudget |-> 1, costCapUsd |-> 1,
   timeoutMs |-> timeout, escalateAfterVerifyFails |-> fails]

MCAmple  == MCBudget(5, 10, 5)
MCTight  == MCBudget(2, 10, 1)
MCSingle == MCBudget(1, 10, 5)
MCShort  == MCBudget(5, 1, 5)

MCSymmetry == Permutations(Sessions)
=============================================================================
