-------------------------- MODULE MCProducerJournal --------------------------
(* Instances of ProducerJournal for TLC. *)
EXTENDS ProducerJournal, TLC

CONSTANTS p1, p2, j1, r1, m1, o1, video, n1, n2, n3, f1, f2, s1, s2

Event(R) == [job |-> j1, replicas |-> R, owner |-> o1, size |-> 1, mime |-> video]

\* A job that gets a second destination, and with it a second revision.
RevisedEvents == {Event({}), Event({r1})}

Part(f, s) == [file |-> f, sum |-> s]

\* Two families, the first one in both orders, and a list that is no family.
SomeSubmissions ==
    {<<Part(f1, s1), Part(f2, s1)>>, <<Part(f2, s1), Part(f1, s1)>>,
     <<Part(f1, s2), Part(f2, s1)>>, <<Part(f1, s1), Part(f1, s2)>>}

IdentitySymmetry == Permutations(Procs) \cup Permutations(Nonces)
=============================================================================
