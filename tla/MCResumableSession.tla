------------------------- MODULE MCResumableSession -------------------------
\* Instances of ResumableSession.
EXTENDS ResumableSession, TLC

CONSTANTS s1, s2, r1, r2

Chunk(start, end, right) == [start |-> start, end |-> end, right |-> right]

\* Two chunks, and other bytes for the first of them.
TwoChunks == {Chunk(0, 0, TRUE), Chunk(1, 1, TRUE), Chunk(0, 0, FALSE)}

RequestSymmetry == Permutations(Requests)

OneChunk == {Chunk(0, 0, TRUE)}
=============================================================================
