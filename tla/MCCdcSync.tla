----------------------------- MODULE MCCdcSync -----------------------------
(* Instances of CdcSync for TLC.                                             *)
EXTENDS CdcSync

CONSTANTS k1, k2    \* primary keys

MCMaxCid == [m \in Modes |-> IF m = "log" THEN 4 ELSE 2]
=============================================================================
