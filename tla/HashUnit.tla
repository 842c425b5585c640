------------------------------ MODULE HashUnit ------------------------------
(***************************************************************************)
(* The deterministic number of [0, 1) the code derives from an id, in      *)
(* percent.  Every sampling decision of the system uses the same one: the  *)
(* splits of the corpus, the canary's arms, the probes and the review      *)
(* sample.                                                                 *)
(***************************************************************************)
EXTENDS Integers

CONSTANT Unit  \* Unit[id]: the hash of the id

ASSUME UnitAssumption == \A id \in DOMAIN Unit : Unit[id] \in 0..99

Below(id, cut) == Unit[id] < cut
=============================================================================
