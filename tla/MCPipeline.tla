----------------------------- MODULE MCPipeline -----------------------------
(* Instances of Pipeline for TLC.                                            *)
EXTENDS Pipeline

CONSTANTS s1, s2, s3    \* streams

MCBoth == {<<s1, s2>>}
MCAny == {<<>>, <<s1>>, <<s1, s2>>}
MCMixed == [s \in Streams |-> IF s = s1 THEN "append" ELSE "merge"]
MCAppendReplace == [s \in Streams |-> IF s = s1 THEN "append" ELSE "replace"]
=============================================================================
