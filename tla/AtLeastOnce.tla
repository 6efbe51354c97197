----------------------------- MODULE AtLeastOnce -----------------------------
(* What an incremental pipeline promises about one source, one destination   *)
(* and one state store, with no word about threads, queues, buffers, faults  *)
(* or crashes: batches land whole, each one starting at the stored watermark *)
(* (or at the beginning, for a full refresh), and the watermark follows rows *)
(* that have landed.                                                         *)
EXTENDS Naturals

CONSTANTS
    Streams,      \* names of the streams
    Appends,      \* the streams whose rows are appended; the others merge
    MaxRows       \* bound: rows of a stream

VARIABLES
    source,       \* source[s]: rows 1..source[s] exist
    target,       \* target[s][r]: copies of row r in the table of s
    store         \* store[s]: the watermark

vars == <<source, target, store>>

Init ==
    /\ source \in [Streams -> 0..MaxRows]
    /\ target = [s \in Streams |-> [r \in 1..MaxRows |-> 0]]
    /\ store = [s \in Streams |-> 0]

Grow(s) ==
    /\ source[s] < MaxRows
    /\ source' = [source EXCEPT ![s] = @ + 1]
    /\ UNCHANGED <<target, store>>

(* The rows of s above a, up to b, land together.                            *)
Land(s, a, b) ==
    /\ a \in {0, store[s]} /\ b \in a..source[s]
    /\ target' = [target EXCEPT ![s] = [r \in 1..MaxRows |->
           IF a < r /\ r <= b THEN (IF s \in Appends THEN @[r] + 1 ELSE 1) ELSE @[r]]]
    /\ UNCHANGED <<source, store>>

(* The watermark moves up over rows that have landed.                        *)
Advance(s, b) ==
    /\ b \in store[s]..source[s]
    /\ \A r \in 1..b : target[s][r] > 0
    /\ store' = [store EXCEPT ![s] = b]
    /\ UNCHANGED <<source, target>>

Next ==
    \E s \in Streams :
        \/ Grow(s)
        \/ \E a \in 0..MaxRows, b \in 0..MaxRows : Land(s, a, b)
        \/ \E b \in 0..MaxRows : Advance(s, b)

Spec == Init /\ [][Next]_vars
=============================================================================
