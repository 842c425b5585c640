--------------------------- MODULE LedgerLifecycle ---------------------------
(***************************************************************************)
(* What the improvement ledger promises its readers: whoever writes it,    *)
(* and however its writers interleave, fail or restart, a row only ever    *)
(* moves along the lifecycle graph, one allowed transition at a time.      *)
(***************************************************************************)
EXTENDS Ledger

CONSTANT Ids

VARIABLE rows

Init == rows \in [Ids -> Statuses]

Move(id, to) ==
  /\ CanTransition(rows[id], to)
  /\ rows' = [rows EXCEPT ![id] = to]

Next == \E id \in Ids, to \in Statuses : Move(id, to)

Spec == Init /\ [][Next]_rows
=============================================================================
