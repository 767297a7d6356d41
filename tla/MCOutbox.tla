------------------------------ MODULE MCOutbox ------------------------------
(* Instances of Outbox for TLC. *)
EXTENDS Outbox, TLC

CONSTANTS h1, h2, o1, g, b, s1, s2, a1, a2, r1, r2

Both == [mode |-> "dual", gcs |-> g, b2 |-> b]
GcsFirst == [mode |-> "gcs", gcs |-> g, b2 |-> b]

\* A small hash and a large one.
SizeOf == [h \in Hashes |-> IF h = h1 THEN 1 ELSE 3]

\* Dual writes, rolled back to GCS and forth again.
Rollback == {Both, GcsFirst}
OnlyBoth == {Both}
AllSame == [s \in Sessions |-> <<h1, o1>>]
RunBoth == [r \in Recoverers |-> Both]
RequestSymmetry == Permutations(Requests)
=============================================================================
