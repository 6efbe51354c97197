--------------------------- MODULE MCPipeIterator ---------------------------
(* Instances of PipeIterator for TLC.                                        *)
EXTENDS PipeIterator

CONSTANTS s1, s2, s3    \* streams

MCSafetyRequests == {<<>>, <<s1, s2, s3>>}

(* A first run over a source that holds a full and a short chunk of s1, a    *)
(* short chunk of s2 and a full chunk of s3; s2 and s3 may still grow.       *)
MCInit ==
    /\ ExtractInit
    /\ store = Zero
    /\ ~full
    /\ source[s1] = MaxRows
    /\ source[s2] = 1
    /\ source[s3] >= ChunkSize

MCSpec == MCInit /\ [][ExtractNext]_extractVars
=============================================================================
