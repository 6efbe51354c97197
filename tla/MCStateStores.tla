-------------------------- MODULE MCStateStores --------------------------
(* Instances of StateStores for TLC.                                      *)
EXTENDS StateStores, FiniteSets, TLC

CONSTANTS
    t1, t2, t3,             \* threads
    q1, q2,                 \* processes
    sA, sB,                 \* streams
    pA, pB,                 \* paths
    i1, i2, i3, i4, i5      \* inodes

MCOwnPaths == sA :> pA @@ sB :> pB

\* Two threads of one process work on one stream, a task on the other, and in
\* the database on both.
MCProcOf == t1 :> q1 @@ t2 :> q1 @@ t3 :> q2
MCServes == [file |-> t1 :> {sA} @@ t2 :> {sA} @@ t3 :> {sB},
             sql  |-> t1 :> {sA} @@ t2 :> {sA} @@ t3 :> {sA, sB}]

MCSymmetry == Permutations({i1, i2, i3, i4, i5}) \union Permutations({t1, t2})
=============================================================================
