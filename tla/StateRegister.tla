---------------------------- MODULE StateRegister ----------------------------
(* What common/protocols.py asks of a StateStore: one atomic register per    *)
(* stream.  set takes effect at one instant, or never if it raises or its    *)
(* process dies; only a doubtful store may have taken it and raise all the   *)
(* same.  get returns the state of its own stream at one instant.            *)
CONSTANTS
    Threads,      \* the callers
    Streams,      \* (pipeline, stream) pairs
    Calls,        \* the calls: records with an op, "get" or "set", and a stream
    NoState,      \* {}: no state exists yet
    Stored,       \* how a set ends that returns
    NotStored     \* how a set ends that raises

VARIABLES
    value,        \* value[s]: the state of s
    call,         \* call[t]: the call t has under way
    got,          \* got[t]: how the last call of t ended
    doubtful      \* the store may lose the answer to a set

vars == <<value, call, got, doubtful>>

Init ==
    /\ value = [s \in Streams |-> NoState]
    /\ call = [t \in Threads |-> [op |-> "none"]]
    /\ got = [t \in Threads |-> NoState]
    /\ doubtful \in BOOLEAN

Return(t) == call' = [call EXCEPT ![t] = [op |-> "none"]]

Begin(t) ==
    /\ call[t].op = "none"
    /\ \E c \in Calls : call' = [call EXCEPT ![t] = c]
    /\ UNCHANGED <<value, got>>

Written(t) == value' = [value EXCEPT ![call[t].stream] = call[t].arg]

Set(t) ==
    /\ call[t].op = "set"
    /\ Written(t)
    /\ got' = [got EXCEPT ![t] = Stored]
    /\ Return(t)

SetRaises(t) ==
    /\ call[t].op = "set"
    /\ \/ UNCHANGED value
       \/ doubtful /\ Written(t)
    /\ got' = [got EXCEPT ![t] = NotStored]
    /\ Return(t)

Get(t) ==
    /\ call[t].op = "get"
    /\ got' = [got EXCEPT ![t] = value[call[t].stream]]
    /\ Return(t)
    /\ UNCHANGED value

(* The process of some threads dies.                                         *)
Die ==
    /\ \E dead \in SUBSET Threads :
          call' = [t \in Threads |-> IF t \in dead THEN [op |-> "none"] ELSE call[t]]
    /\ UNCHANGED <<value, got>>

Next ==
    /\ \/ \E t \in Threads : Begin(t) \/ Set(t) \/ SetRaises(t) \/ Get(t)
       \/ Die
    /\ UNCHANGED doubtful

Spec == Init /\ [][Next]_vars
=============================================================================
