---------------------------- MODULE MCTaskGroup ----------------------------
(* Instances of TaskGroup for TLC.                                           *)
EXTENDS TaskGroup

\* The streams "a_b" and "a.b", and one that the source no longer lists.
CONSTANTS a_b, adotb, gone

MCLists == {<<a_b, adotb>>, <<a_b>>, <<adotb>>, <<gone>>, <<>>}
MCSanitized == [s \in Streams |-> IF s = adotb THEN a_b ELSE s]
MCDisposition == [s \in Streams |-> IF s = adotb THEN "append" ELSE "merge"]
=============================================================================
