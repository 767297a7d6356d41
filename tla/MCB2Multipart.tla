--------------------------- MODULE MCB2Multipart ---------------------------
\* Instances of B2Multipart.
EXTENDS B2Multipart

CONSTANTS u1, u2, s1, s2
=============================================================================
