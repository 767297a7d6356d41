--------------------------- MODULE MCMediaRequests ---------------------------
(* Requests of every kind in a process with GCS alone, with both and with B2.  *)
EXTENDS MediaRequests, TLC

CONSTANTS r1, r2, r3, nobody

ASlots == [p \in Pools |-> IF p = "mirror" THEN 1 ELSE 2]
GcsAlone == [mode |-> "gcs", outbox |-> FALSE, database |-> FALSE]
TheDeployments ==
    {GcsAlone, [mode |-> "dual", outbox |-> TRUE, database |-> TRUE],
     [mode |-> "b2", outbox |-> TRUE, database |-> TRUE]}
RequestSymmetry == Permutations(Requests)
=============================================================================
