------------------------- MODULE MCCanonicalStorage -------------------------
\* Instances of CanonicalStorage: two dual writers and one process that writes
\* to GCS only, without a database.
EXTENDS CanonicalStorage, TLC

CONSTANTS w1, w2, w3, thumbnail, t1, t2, o1, o2

MixedModes == w1 :> "dual" @@ w2 :> "dual" @@ w3 :> "gcs"

\* Two runs of the thumbnailer may disagree; the owner's name stands for the
\* metadata that travels with it.
Upload(bytes, owner) == [key |-> thumbnail, bytes |-> bytes, owner |-> owner]
ThreeUploads == w1 :> Upload(t1, o1) @@ w2 :> Upload(t1, o2) @@ w3 :> Upload(t2, o2)
=============================================================================
