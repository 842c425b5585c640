---------------------------- MODULE IngestPromise ----------------------------
(***************************************************************************)
(* What the ingest endpoint promises the exporter of a batch: the groups   *)
(* of the batch are kept whole and in order, and a batch is acknowledged   *)
(* only when all of it is kept.  A batch that is dropped may be kept in    *)
(* part, and may still be kept afterwards.                                 *)
(***************************************************************************)
EXTENDS Naturals

CONSTANTS Batches, Groups  \* Groups[b]: how many groups batch b has

VARIABLES kept,    \* kept[b]: the groups of b that are stored
          outcome  \* outcome[b]: what the exporter made of b

vars == <<kept, outcome>>

Init ==
  /\ kept = [b \in Batches |-> {}]
  /\ outcome = [b \in Batches |-> "open"]

KeepGroup(b) ==
  /\ \E k \in 1..Groups[b] :
       /\ kept[b] = 1..(k - 1)
       /\ kept' = [kept EXCEPT ![b] = 1..k]
  /\ UNCHANGED outcome

Resolve(b, result) ==
  /\ outcome[b] = "open"
  /\ result = "acked" => kept[b] = 1..Groups[b]
  /\ outcome' = [outcome EXCEPT ![b] = result]
  /\ UNCHANGED kept

Next == \E b \in Batches :
  KeepGroup(b) \/ \E result \in {"acked", "dropped"} : Resolve(b, result)

Spec == Init /\ [][Next]_vars
=============================================================================
