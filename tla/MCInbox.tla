------------------------------ MODULE MCInbox ------------------------------
(* Instances of Inbox for TLC: the events and the symmetries. *)
EXTENDS Inbox, TLC

CONSTANTS p1, p2, j1, j2, r1, r2, m1, m2, o1, o2, video, image

Event(j, R, o, s, t) == [job |-> j, replicas |-> R, owner |-> o, size |-> s, mime |-> t]

\* One job: two owners, a replica each way, a second MIME hint, another size.
OneJobEvents ==
    {Event(j1, {}, o1, 1, video),
     Event(j1, {}, o1, 1, image),
     Event(j1, {r1}, o1, 1, video),
     Event(j1, {r2}, o2, 1, image),
     Event(j1, {}, o2, 2, video)}

\* One job that gets a second destination.
RevisedEvents ==
    {Event(j1, {}, o1, 1, video),
     Event(j1, {r1}, o1, 1, video)}

\* Two jobs that compete for claims.
TwoJobEvents ==
    {Event(j1, {r1}, o1, 1, video),
     Event(j2, {}, o1, 1, video)}

\* Two jobs that compete for claims, one of which gets a second destination.
TwoJobRevised == TwoJobEvents \cup {Event(j1, {}, o1, 1, video)}

MarkerSymmetry == Permutations(Manifests)
=============================================================================
