-------------------------- MODULE StateStoresProofs --------------------------
(* Proofs about the state stores: each one is an atomic register per stream. *)
(* A FileStateStore is so if every file is the state of one stream and the   *)
(* threads that run the stream are of one process, and so share its lock;    *)
(* this is asked of the constants where it is needed, by the name OneOwner.  *)
EXTENDS StateStores, TLAPS

USE StoresAssumption

Inside == {"open", "dump", "rename", "update", "insert", "commit"}

-----------------------------------------------------------------------------
(* Calls and types.                                                          *)

(* Every step but a stutter is one of a thread or of a process.              *)
LEMMA StepCases ==
    ASSUME [Next]_vars, NEW P,
           UNCHANGED vars => P,
           \A t \in Threads : \A s \in Serves[store][t] : CallGet(t, s) => P,
           \A t \in Threads : \A s \in Serves[store][t] : CallSet(t, s) => P,
           \A t \in Threads : Exists(t) => P,
           \A t \in Threads : Load(t) => P,
           \A t \in Threads : DumpsFails(t) => P,
           \A t \in Threads : Lock(t) => P,
           \A t \in Threads : Open(t) => P,
           \A t \in Threads : Dump(t) => P,
           \A t \in Threads : DumpFails(t) => P,
           \A t \in Threads : Rename(t) => P,
           \A t \in Threads : Select(t) => P,
           \A t \in Threads : UpdateRow(t) => P,
           \A t \in Threads : InsertRow(t) => P,
           \A t \in Threads : InsertFails(t) => P,
           \A t \in Threads : CommitRow(t) => P,
           \A t \in Threads : CommitAckLost(t) => P,
           \A t \in Threads : StatementFails(t) => P,
           \A q \in Procs : LookUpTable(q) => P,
           \A q \in Procs : CreateStateTable(q) => P,
           \A q \in Procs : Crash(q) => P
    PROVE  P
BY DEF Next

(* A set that raises inside the lock, and one that raises before it.         *)
Raises(t) == InsertFails(t) \/ StatementFails(t) \/ DumpFails(t)

(* What a call is.                                                           *)
LEMMA CallsAre ==
    /\ \A c \in Calls \union {NoCall} : c.op \in {"none", "get", "set"}
    /\ \A c \in Calls : c # NoCall /\ c.op # "none" /\ c.stream \in Streams
    /\ \A c \in Calls \union {NoCall} : c.op = "set" => c.arg \in States
    /\ NoCall.op = "none"
    /\ \A s \in Streams : /\ [op |-> "get", stream |-> s] \in Calls
                          /\ [op |-> "get", stream |-> s].op = "get"
                          /\ [op |-> "get", stream |-> s].stream = s
    /\ \A s \in Streams, a \in States :
          /\ [op |-> "set", stream |-> s, arg |-> a] \in Calls
          /\ [op |-> "set", stream |-> s, arg |-> a].op = "set"
          /\ [op |-> "set", stream |-> s, arg |-> a].stream = s
BY DEF Calls, NoCall

(* A thread in a call.                                                       *)
LEMMA InCall ==
    ASSUME StoresTypeOK, CallInv, NEW t \in Threads, pc[t] # "idle"
    PROVE  /\ call[t] \in Calls /\ call[t].stream \in Streams /\ call[t].op \in {"get", "set"}
           /\ store \in Stores /\ call[t].stream \in Serves[store][t]
           /\ setup[ProcOf[t]] = "ready" /\ Path(t) \in Paths /\ ProcOf[t] \in Procs
           /\ call[t].op = "set" => call[t].arg \in States
<1>1. call[t] # NoCall /\ call[t] \in Calls \union {NoCall} /\ store \in Stores
  BY DEF StoresTypeOK, CallInv
<1>2. call[t] \in Calls /\ call[t].stream \in Streams
  BY <1>1, CallsAre
<1>3. call[t].op \in {"get", "set"} /\ (call[t].op = "set" => call[t].arg \in States)
  BY <1>1, <1>2, CallsAre
<1> QED  BY <1>1, <1>2, <1>3 DEF CallInv, Path

(* A call begins.                                                            *)
LEMMA CallStep ==
    ASSUME StoresTypeOK, CallInv, [Next]_vars
    PROVE  CallInv'
<1> USE DEF database, disk
<1>t. /\ call \in [Threads -> Calls \union {NoCall}] /\ store \in Stores
      /\ pc \in [Threads -> {"idle", "exists", "load", "lock", "open", "dump", "rename",
                             "select", "update", "insert", "commit"}]
      /\ setup \in [Procs -> {"new", "create", "ready"}]
      /\ sets \in 0..MaxSets /\ MaxSets \in Nat
  BY DEF StoresTypeOK, CallInv
<1> DEFINE Good(t) ==
      pc[t] # "idle" =>
          /\ call[t].stream \in Serves[store][t]
          /\ setup[ProcOf[t]] = "ready"
          /\ pc[t] \in {"exists", "load", "select"} => call[t].op = "get"
          /\ pc[t] \notin {"exists", "load", "select"} => call[t].op = "set"
          /\ store = "file" => pc[t] \notin {"select", "update", "insert", "commit"}
          /\ store = "sql" => pc[t] \notin {"exists", "load", "open", "dump", "rename"}
<1>g. \A t \in Threads : Good(t)
  BY DEF CallInv
<1>a. ASSUME NEW t \in Threads,
             NEW label \in {"idle", "exists", "load", "lock", "open", "dump", "rename",
                            "select", "update", "insert", "commit"},
             Goto(t, label)
      PROVE  pc'[t] = label /\ \A u \in Threads \ {t} : pc'[u] = pc[u]
  BY <1>t, <1>a DEF Goto
<1>0. ASSUME UNCHANGED vars  PROVE CallInv'
  BY <1>t, <1>g, <1>0 DEF vars, CallInv
<1>1. ASSUME NEW t \in Threads, NEW c \in Calls,
             c.stream \in Serves[store][t], setup[ProcOf[t]] = "ready",
             call' = [call EXCEPT ![t] = c], store' = store, setup' = setup,
             NEW label \in {"exists", "select", "lock"}, Goto(t, label),
             label = "lock" => c.op = "set", label # "lock" => c.op = "get",
             label = "exists" => store # "sql", label = "select" => store = "sql"
      PROVE  CallInv'
  <2>1. call' \in [Threads -> Calls \union {NoCall}] /\ call'[t] = c
        /\ \A u \in Threads \ {t} : call'[u] = call[u]
    BY <1>t, <1>1
  <2>2. pc'[t] = label /\ \A u \in Threads \ {t} : pc'[u] = pc[u]
    BY <1>a, <1>1
  <2>3. \A u \in Threads \ {t} : Good(u)'
    BY <1>g, <1>1, <2>1, <2>2
  <2>4. Good(t)'
    BY <1>1, <2>1, <2>2
  <2> QED  BY <2>1, <2>3, <2>4 DEF CallInv
<1>2. ASSUME NEW t \in Threads, NEW s \in Serves[store][t], CallGet(t, s)  PROVE CallInv'
  <2> DEFINE c == [op |-> "get", stream |-> s]
             label == IF store = "sql" THEN "select" ELSE "exists"
  <2>1. s \in Streams
    BY <1>t
  <2>2. c \in Calls /\ c.op = "get" /\ c.stream = s
    BY <2>1, CallsAre
  <2>3. setup[ProcOf[t]] = "ready" /\ call' = [call EXCEPT ![t] = c] /\ store' = store /\ setup' = setup
        /\ Goto(t, label)
    BY <1>2 DEF CallGet
  <2>4. label \in {"exists", "select", "lock"} /\ label # "lock"
        /\ (label = "exists" => store # "sql") /\ (label = "select" => store = "sql")
    OBVIOUS
  <2> HIDE DEF c, label
  <2> QED  BY <1>1, <2>2, <2>3, <2>4
<1>3. ASSUME NEW t \in Threads, NEW s \in Serves[store][t], CallSet(t, s)  PROVE CallInv'
  <2> DEFINE c == [op |-> "set", stream |-> s, arg |-> State(s, sets + 1)]
  <2>1. s \in Streams /\ State(s, sets + 1) \in States
    BY <1>t, <1>3 DEF CallSet, State, States
  <2>2. c \in Calls /\ c.op = "set" /\ c.stream = s
    BY <2>1, CallsAre
  <2>3. setup[ProcOf[t]] = "ready" /\ call' = [call EXCEPT ![t] = c] /\ store' = store /\ setup' = setup
        /\ Goto(t, "lock")
    BY <1>3 DEF CallSet
  <2> HIDE DEF c
  <2> QED  BY <1>1, <2>2, <2>3
(* A thread goes on inside its call, or leaves it.                           *)
<1>4. ASSUME NEW t \in Threads, pc[t] # "idle", call' = call, store' = store, setup' = setup,
             NEW label \in {"load", "open", "dump", "rename", "update", "insert", "commit"},
             Goto(t, label),
             label = "load" <=> pc[t] = "exists",
             pc[t] \notin {"load", "select"},
             label \in {"open", "dump", "rename", "load"} => store # "sql",
             label \in {"update", "insert", "commit"} => store # "file"
      PROVE  CallInv'
  <2>1. pc'[t] = label /\ \A u \in Threads \ {t} : pc'[u] = pc[u]
    BY <1>a, <1>4
  <2>2. \A u \in Threads \ {t} : Good(u)'
    BY <1>g, <1>4, <2>1
  <2>3. Good(t)'
    BY <1>g, <1>4, <2>1
  <2> QED  BY <1>t, <1>4, <2>2, <2>3 DEF CallInv
<1>5. ASSUME NEW t \in Threads, Leave(t), store' = store, setup' = setup  PROVE CallInv'
  <2>1. pc'[t] = "idle" /\ \A u \in Threads \ {t} : pc'[u] = pc[u]
    BY <1>a, <1>5 DEF Leave
  <2>2. call' \in [Threads -> Calls \union {NoCall}]
        /\ \A u \in Threads \ {t} : call'[u] = call[u]
    BY <1>t, <1>5 DEF Leave
  <2>3. \A u \in Threads \ {t} : Good(u)'
    BY <1>g, <1>5, <2>1, <2>2
  <2>4. Good(t)'
    BY <2>1
  <2> QED  BY <2>2, <2>3, <2>4 DEF CallInv
<1>6. ASSUME NEW t \in Threads, Exists(t)  PROVE CallInv'
  <2>1. CASE file[Path(t)] = None
    BY <1>5, <1>6, <2>1 DEF Exists
  <2>2. CASE file[Path(t)] # None
    BY <1>4, <1>6, <1>g, <2>2 DEF Exists
  <2> QED  BY <2>1, <2>2
<1>7. ASSUME NEW t \in Threads, Load(t) \/ Select(t) \/ DumpsFails(t)  PROVE CallInv'
  BY <1>5, <1>7 DEF Load, Select, DumpsFails
<1>8. ASSUME NEW t \in Threads, Lock(t)  PROVE CallInv'
  <2>1. CASE store = "sql"
    BY <1>4, <1>8, <2>1 DEF Lock
  <2>2. CASE store # "sql"
    BY <1>4, <1>8, <2>2 DEF Lock
  <2> QED  BY <2>1, <2>2
<1>9. ASSUME NEW t \in Threads, Open(t)  PROVE CallInv'
  BY <1>4, <1>9, <1>g DEF Open
<1>10. ASSUME NEW t \in Threads, Dump(t)  PROVE CallInv'
  BY <1>4, <1>10, <1>g DEF Dump
<1>11. ASSUME NEW t \in Threads, Rename(t) \/ Raises(t) \/ CommitRow(t) \/ CommitAckLost(t)
       PROVE  CallInv'
  BY <1>5, <1>11 DEF Rename, Raises, InsertFails, StatementFails, DumpFails, CommitRow,
     CommitAckLost, Ends
<1>12. ASSUME NEW t \in Threads, UpdateRow(t)  PROVE CallInv'
  <2>1. store # "file" /\ pc[t] = "update"
    BY <1>12, <1>g DEF UpdateRow
  <2>2. CASE RowHit(t)
    BY <1>4, <1>12, <2>1, <2>2 DEF UpdateRow
  <2>3. CASE ~RowHit(t)
    BY <1>4, <1>12, <2>1, <2>3 DEF UpdateRow
  <2> QED  BY <2>2, <2>3
<1>13. ASSUME NEW t \in Threads, InsertRow(t)  PROVE CallInv'
  BY <1>4, <1>13, <1>g DEF InsertRow
<1>14. ASSUME NEW q \in Procs, setup[q] # "ready", NEW x, setup' = [setup EXCEPT ![q] = x],
              UNCHANGED <<store, pc, call>>
       PROVE  CallInv'
  <2>1. \A p \in Procs : setup[p] = "ready" => setup'[p] = "ready"
    BY <1>t, <1>14
  <2> QED  BY <1>t, <1>g, <1>14, <2>1 DEF CallInv
<1>15. ASSUME NEW q \in Procs, LookUpTable(q) \/ CreateStateTable(q)  PROVE CallInv'
  BY <1>14, <1>15 DEF LookUpTable, CreateStateTable
<1>16. ASSUME NEW q \in Procs, Crash(q)  PROVE CallInv'
  <2>1. /\ \A t \in Threads : ProcOf[t] = q => pc'[t] = "idle" /\ call'[t] = NoCall
        /\ \A t \in Threads : ProcOf[t] # q => pc'[t] = pc[t] /\ call'[t] = call[t]
        /\ \A p \in Procs \ {q} : setup'[p] = setup[p]
        /\ store' = store /\ call' \in [Threads -> Calls \union {NoCall}]
    BY <1>t, <1>16 DEF Crash
  <2>2. \A t \in Threads : Good(t)'
    BY <1>g, <2>1
  <2> QED  BY <2>1, <2>2 DEF CallInv
<1> QED
  BY <1>0, <1>2, <1>3, <1>6, <1>7, <1>8, <1>9, <1>10, <1>11, <1>12, <1>13, <1>15, <1>16,
     StepCases DEF Raises

(* The types; a thread inside set holds the lock of its process.             *)
LEMMA TypeStep ==
    ASSUME StoresInv, [Next]_vars
    PROVE  StoresTypeOK'
<1> USE DEF database, disk
<1>0. StoresTypeOK /\ CallInv /\ FoundInv
  BY DEF StoresInv
<1> DEFINE Labels == {"idle", "exists", "load", "lock", "open", "dump", "rename",
                      "select", "update", "insert", "commit"}
           Ended == States \union {NoState, Raised, Stored, NotStored}
           Plain == /\ store \in Stores
                    /\ table \in BOOLEAN
                    /\ setup \in [Procs -> {"new", "create", "ready"}]
                    /\ rows \in [Streams -> States \union {NoState}]
                    /\ file \in [Paths -> Inodes \union {None}]
                    /\ tmp \in [Paths -> Inodes \union {None}]
                    /\ content \in [Inodes -> States \union {Empty, Torn}]
                    /\ fd \in [Threads -> Inodes \union {None}]
                    /\ got \in [Threads -> Ended]
                    /\ sets \in 0..MaxSets
           Held == /\ lock \in [Procs -> Threads \union {None}]
                   /\ pc \in [Threads -> Labels]
                   /\ \A t \in Threads : pc[t] = "idle" <=> call[t] = NoCall
                   /\ \A t \in Threads : pc[t] \in Inside => lock[ProcOf[t]] = t
<1>t. Plain /\ Held /\ call \in [Threads -> Calls \union {NoCall}]
  BY <1>0 DEF StoresTypeOK, Inside, CallInv
<1>q. Plain' /\ Held' => StoresTypeOK'
  BY DEF StoresTypeOK, Inside
<1>a. \A t \in Threads, label \in Labels : Goto(t, label) =>
          pc' \in [Threads -> Labels] /\ pc'[t] = label /\ \A u \in Threads \ {t} : pc'[u] = pc[u]
  BY <1>t DEF Goto
(* Where a thread is, and who holds the locks.                               *)
<1>h. Held'
  <2>0. ASSUME UNCHANGED <<lock, pc, call>>  PROVE Held'
    BY <1>t, <2>0
  <2>1. ASSUME NEW t \in Threads, NEW c \in Calls, pc[t] = "idle",
               call' = [call EXCEPT ![t] = c], lock' = lock,
               NEW label \in {"exists", "select", "lock"}, Goto(t, label)
        PROVE  Held'
    <3>1. call'[t] = c /\ c # NoCall /\ \A u \in Threads \ {t} : call'[u] = call[u]
      BY <1>t, <2>1, CallsAre
    <3>2. pc' \in [Threads -> Labels] /\ pc'[t] = label /\ \A u \in Threads \ {t} : pc'[u] = pc[u]
      BY <1>a, <2>1
    <3>3. \A u \in Threads : pc'[u] = "idle" <=> call'[u] = NoCall
      BY <1>t, <2>1, <3>1, <3>2
    <3>4. \A u \in Threads : pc'[u] \in Inside => lock'[ProcOf[u]] = u
      BY <1>t, <2>1, <3>2 DEF Inside
    <3>5. lock' \in [Procs -> Threads \union {None}]
      BY <1>t, <2>1
    <3> QED  BY <3>2, <3>3, <3>4, <3>5
  <2>2. ASSUME NEW t \in Threads, pc[t] # "idle", call' = call, lock' = lock,
               NEW label \in {"load", "dump", "rename", "insert", "commit"}, Goto(t, label),
               pc[t] \in Inside \/ label = "load"
        PROVE  Held'
    <3>1. pc' \in [Threads -> Labels] /\ pc'[t] = label /\ \A u \in Threads \ {t} : pc'[u] = pc[u]
      BY <1>a, <2>2
    <3> QED  BY <1>t, <2>2, <3>1 DEF Inside
  <2>3. ASSUME NEW t \in Threads, Leave(t), lock' = lock  PROVE Held'
    <3>1. call'[t] = NoCall /\ \A u \in Threads \ {t} : call'[u] = call[u]
      BY <1>t, <2>3 DEF Leave
    <3>2. pc' \in [Threads -> Labels] /\ pc'[t] = "idle" /\ \A u \in Threads \ {t} : pc'[u] = pc[u]
      BY <1>a, <2>3 DEF Leave
    <3> QED  BY <1>t, <2>3, <3>1, <3>2 DEF Inside
  <2>4. ASSUME NEW t \in Threads, pc[t] \in Inside, NEW how, Ends(t, how)  PROVE Held'
    <3>1. /\ call'[t] = NoCall /\ \A u \in Threads \ {t} : call'[u] = call[u]
          /\ lock' = [lock EXCEPT ![ProcOf[t]] = None]
      BY <1>t, <2>4 DEF Leave, Ends
    <3>2. pc' \in [Threads -> Labels] /\ pc'[t] = "idle" /\ \A u \in Threads \ {t} : pc'[u] = pc[u]
      BY <1>a, <2>4 DEF Leave, Ends
    <3>3. ASSUME NEW u \in Threads \ {t}, pc[u] \in Inside  PROVE lock'[ProcOf[u]] = u
      <4>1. lock[ProcOf[u]] = u /\ lock[ProcOf[t]] = t
        BY <1>t, <2>4, <3>3
      <4>2. ProcOf[u] # ProcOf[t] /\ ProcOf[u] \in Procs
        BY <3>3, <4>1
      <4> QED  BY <1>t, <3>1, <4>1, <4>2
    <3>4. lock' \in [Procs -> Threads \union {None}]
      BY <1>t, <3>1
    <3>5. \A u \in Threads : pc'[u] \in Inside => lock'[ProcOf[u]] = u
      BY <3>2, <3>3 DEF Inside
    <3>6. \A u \in Threads : pc'[u] = "idle" <=> call'[u] = NoCall
      BY <1>t, <3>1, <3>2
    <3> QED  BY <3>2, <3>4, <3>5, <3>6
  <2>5. ASSUME NEW t \in Threads, NEW s \in Serves[store][t], CallGet(t, s)  PROVE Held'
    <3> DEFINE c == [op |-> "get", stream |-> s]
               label == IF store = "sql" THEN "select" ELSE "exists"
    <3>1. c \in Calls
      BY <1>t, CallsAre
    <3>2. /\ pc[t] = "idle" /\ call' = [call EXCEPT ![t] = c] /\ lock' = lock
          /\ Goto(t, label) /\ label \in {"exists", "select", "lock"}
      BY <2>5 DEF CallGet
    <3> HIDE DEF c, label
    <3> QED  BY <2>1, <3>1, <3>2
  <2>6. ASSUME NEW t \in Threads, NEW s \in Serves[store][t], CallSet(t, s)  PROVE Held'
    <3> DEFINE c == [op |-> "set", stream |-> s, arg |-> State(s, sets + 1)]
    <3>1. s \in Streams /\ State(s, sets + 1) \in States
      BY <1>t, <2>6 DEF CallSet, State, States
    <3>2. c \in Calls
      BY <3>1, CallsAre
    <3>3. /\ pc[t] = "idle" /\ call' = [call EXCEPT ![t] = c] /\ lock' = lock
          /\ Goto(t, "lock")
      BY <2>6 DEF CallSet
    <3> HIDE DEF c
    <3> QED  BY <2>1, <3>2, <3>3
  <2>7. ASSUME NEW t \in Threads, Lock(t)  PROVE Held'
    <3> DEFINE label == IF store = "sql" THEN "update" ELSE "open"
    <3>1. /\ pc[t] = "lock" /\ lock[ProcOf[t]] = None /\ call' = call
          /\ lock' = [lock EXCEPT ![ProcOf[t]] = t] /\ Goto(t, label)
          /\ label \in {"update", "open"}
      BY <2>7 DEF Lock, MayEnter
    <3> HIDE DEF label
    <3>2. pc' \in [Threads -> Labels] /\ pc'[t] = label /\ \A u \in Threads \ {t} : pc'[u] = pc[u]
      BY <1>a, <3>1
    <3>3. lock' \in [Procs -> Threads \union {None}] /\ lock'[ProcOf[t]] = t
      BY <1>t, <3>1
    <3>4. ASSUME NEW u \in Threads \ {t}, pc[u] \in Inside  PROVE lock'[ProcOf[u]] = u
      <4>1. lock[ProcOf[u]] = u /\ ProcOf[u] # ProcOf[t]
        BY <1>t, <3>1, <3>4
      <4> QED  BY <1>t, <3>1, <4>1
    <3>5. \A u \in Threads : pc'[u] \in Inside => lock'[ProcOf[u]] = u
      BY <3>2, <3>3, <3>4
    <3>6. \A u \in Threads : pc'[u] = "idle" <=> call'[u] = NoCall
      BY <1>t, <3>1, <3>2
    <3> QED  BY <3>2, <3>3, <3>5, <3>6
  <2>8. ASSUME NEW t \in Threads, Exists(t)  PROVE Held'
    <3>1. CASE file[Path(t)] = None
      BY <2>3, <2>8, <3>1 DEF Exists
    <3>2. CASE file[Path(t)] # None
      BY <2>2, <2>8, <3>2 DEF Exists
    <3> QED  BY <3>1, <3>2
  <2>9. ASSUME NEW t \in Threads, Load(t) \/ Select(t) \/ DumpsFails(t)  PROVE Held'
    BY <2>3, <2>9 DEF Load, Select, DumpsFails
  <2>10. ASSUME NEW t \in Threads, Open(t) \/ Dump(t) \/ InsertRow(t)  PROVE Held'
    BY <2>2, <2>10 DEF Open, Dump, InsertRow, Inside
  <2>11. ASSUME NEW t \in Threads, UpdateRow(t)  PROVE Held'
    <3>1. CASE RowHit(t)
      BY <2>2, <2>11, <3>1 DEF UpdateRow, Inside
    <3>2. CASE ~RowHit(t)
      BY <2>2, <2>11, <3>2 DEF UpdateRow, Inside
    <3> QED  BY <3>1, <3>2
  <2>12. ASSUME NEW t \in Threads, Rename(t) \/ Raises(t) \/ CommitRow(t) \/ CommitAckLost(t)
         PROVE  Held'
    <3>1. pc[t] \in Inside
      BY <2>12 DEF Rename, Raises, InsertFails, StatementFails, DumpFails, CommitRow,
         CommitAckLost, Inside
    <3>2. Ends(t, Stored) \/ Ends(t, NotStored)
      BY <2>12 DEF Rename, Raises, InsertFails, StatementFails, DumpFails, CommitRow,
         CommitAckLost
    <3> QED  BY <2>4, <3>1, <3>2
  <2>13. ASSUME NEW q \in Procs, LookUpTable(q) \/ CreateStateTable(q)  PROVE Held'
    BY <2>0, <2>13 DEF LookUpTable, CreateStateTable
  <2>14. ASSUME NEW q \in Procs, Crash(q)  PROVE Held'
    <3>1. /\ \A t \in Threads : ProcOf[t] = q => pc'[t] = "idle" /\ call'[t] = NoCall
          /\ \A t \in Threads : ProcOf[t] # q => pc'[t] = pc[t] /\ call'[t] = call[t]
          /\ lock' = [lock EXCEPT ![q] = None] /\ pc' \in [Threads -> Labels]
      BY <1>t, <2>14 DEF Crash
    <3>2. lock' \in [Procs -> Threads \union {None}] /\ \A p \in Procs \ {q} : lock'[p] = lock[p]
      BY <1>t, <3>1
    <3>3. \A u \in Threads : pc'[u] \in Inside => lock'[ProcOf[u]] = u
      BY <1>t, <3>1, <3>2 DEF Inside
    <3>4. \A u \in Threads : pc'[u] = "idle" <=> call'[u] = NoCall
      BY <1>t, <3>1
    <3> QED  BY <3>1, <3>2, <3>3, <3>4
  <2>15. ASSUME UNCHANGED vars  PROVE Held'
    BY <2>0, <2>15 DEF vars
  <2> HIDE DEF Held
  <2> QED
    BY <2>5, <2>6, <2>7, <2>8, <2>9, <2>10, <2>11, <2>12, <2>13, <2>14, <2>15, StepCases
       DEF Raises
<1> HIDE DEF Held
(* Everything else.                                                          *)
<1>p. Plain'
  <2>0. ASSUME NEW t \in Threads, NEW how \in Ended, got' = [got EXCEPT ![t] = how]
        PROVE  got' \in [Threads -> Ended]
    BY <1>t, <2>0
  <2>1. ASSUME UNCHANGED vars  PROVE Plain'
    BY <1>t, <2>1 DEF vars
  <2>2. ASSUME NEW t \in Threads, NEW s \in Serves[store][t], CallGet(t, s)  PROVE Plain'
    BY <1>t, <2>2 DEF CallGet
  <2>3. ASSUME NEW t \in Threads, NEW s \in Serves[store][t], CallSet(t, s)  PROVE Plain'
    BY <1>t, <2>3 DEF CallSet
  <2>4. ASSUME NEW t \in Threads, Lock(t) \/ UpdateRow(t) \/ InsertRow(t)  PROVE Plain'
    BY <1>t, <2>4 DEF Lock, UpdateRow, InsertRow
  <2>5. ASSUME NEW t \in Threads, Exists(t)  PROVE Plain'
    <3>1. got' \in [Threads -> Ended]
      BY <1>t, <2>0, <2>5 DEF Exists
    <3> HIDE DEF Ended
    <3> QED  BY <1>t, <2>5, <3>1 DEF Exists
  <2>6. ASSUME NEW t \in Threads, Load(t)  PROVE Plain'
    <3>1. file[Path(t)] # None /\ Path(t) \in Paths
      BY <1>0, <2>6, InCall DEF Load, FoundInv
    <3>2. content[file[Path(t)]] \in States \union {Empty, Torn}
      BY <1>t, <3>1
    <3>3. Loaded(file[Path(t)]) \in Ended
      BY <3>2 DEF Loaded
    <3>4. got' \in [Threads -> Ended]
      BY <2>0, <2>6, <3>3 DEF Load
    <3> HIDE DEF Ended
    <3> QED  BY <1>t, <2>6, <3>4 DEF Load
  <2>7. ASSUME NEW t \in Threads, Select(t)  PROVE Plain'
    <3>1. call[t].stream \in Streams
      BY <1>0, <2>7, InCall DEF Select
    <3>2. (IF table THEN rows[call[t].stream] ELSE Raised) \in Ended
      BY <1>t, <3>1
    <3>3. got' \in [Threads -> Ended]
      BY <2>0, <2>7, <3>2 DEF Select
    <3> HIDE DEF Ended
    <3> QED  BY <1>t, <2>7, <3>3 DEF Select
  <2>8. ASSUME NEW t \in Threads, Open(t)  PROVE Plain'
    <3>1. Path(t) \in Paths
      BY <1>0, <2>8, InCall DEF Open
    <3>2. Opens(Path(t)) \subseteq Inodes
      BY <1>t, <3>1 DEF Opens, Free
    <3>3. PICK i \in Inodes : /\ content' = [content EXCEPT ![i] = Empty]
                             /\ tmp' = [tmp EXCEPT ![Path(t)] = i]
                             /\ fd' = [fd EXCEPT ![t] = i]
      BY <2>8, <3>2 DEF Open
    <3>4. /\ content' \in [Inodes -> States \union {Empty, Torn}]
          /\ tmp' \in [Paths -> Inodes \union {None}] /\ fd' \in [Threads -> Inodes \union {None}]
      BY <1>t, <3>1, <3>3
    <3> QED  BY <1>t, <2>8, <3>4 DEF Open
  <2>9. ASSUME NEW t \in Threads, Dump(t)  PROVE Plain'
    <3>1. call[t].arg \in States
      BY <1>0, <2>9, InCall DEF Dump, CallInv
    <3>2. content' \in [Inodes -> States \union {Empty, Torn}]
      BY <1>t, <2>9, <3>1 DEF Dump
    <3>3. fd' \in [Threads -> Inodes \union {None}]
      BY <1>t, <2>9 DEF Dump
    <3> QED  BY <1>t, <2>9, <3>2, <3>3 DEF Dump
  <2>10. ASSUME NEW t \in Threads, Rename(t)  PROVE Plain'
    <3>1. Path(t) \in Paths
      BY <1>0, <2>10, InCall DEF Rename
    <3>2. got' \in [Threads -> Ended]
      BY <2>0, <2>10 DEF Rename, Ends
    <3>3. /\ file' \in [Paths -> Inodes \union {None}]
          /\ tmp' \in [Paths -> Inodes \union {None}]
      BY <1>t, <2>10, <3>1 DEF Rename
    <3> HIDE DEF Ended
    <3> QED  BY <1>t, <2>10, <3>2, <3>3 DEF Rename, Ends
  <2>11. ASSUME NEW t \in Threads, Raises(t)  PROVE Plain'
    <3>1. got' \in [Threads -> Ended]
      BY <2>0, <2>11 DEF Raises, InsertFails, StatementFails, DumpFails, Ends
    <3>2. content' \in [Inodes -> States \union {Empty, Torn}]
      BY <1>t, <2>11 DEF Raises, InsertFails, StatementFails, DumpFails
    <3>3. fd' \in [Threads -> Inodes \union {None}]
      BY <1>t, <2>11 DEF Raises, InsertFails, StatementFails, DumpFails
    <3> HIDE DEF Ended
    <3> QED
      BY <1>t, <2>11, <3>1, <3>2, <3>3 DEF Raises, InsertFails, StatementFails, DumpFails, Ends
  <2>12. ASSUME NEW t \in Threads, CommitRow(t) \/ CommitAckLost(t)  PROVE Plain'
    <3>1. call[t].arg \in States
      BY <1>0, <2>12, InCall DEF CommitRow, CommitAckLost, CallInv
    <3>2. rows' \in [Streams -> States \union {NoState}]
      BY <1>t, <2>12, <3>1 DEF CommitRow, CommitAckLost
    <3>3. got' \in [Threads -> Ended]
      BY <2>0, <2>12 DEF CommitRow, CommitAckLost, Ends
    <3> HIDE DEF Ended
    <3> QED  BY <1>t, <2>12, <3>2, <3>3 DEF CommitRow, CommitAckLost, Ends
  <2>13. ASSUME NEW q \in Procs, LookUpTable(q)  PROVE Plain'
    BY <1>t, <2>13 DEF LookUpTable
  <2>14. ASSUME NEW q \in Procs, CreateStateTable(q)  PROVE Plain'
    BY <1>t, <2>14 DEF CreateStateTable
  <2>16. ASSUME NEW t \in Threads, DumpsFails(t)  PROVE Plain'
    <3>1. got' \in [Threads -> Ended]
      BY <2>0, <2>16 DEF DumpsFails
    <3> HIDE DEF Ended
    <3> QED  BY <1>t, <2>16, <3>1 DEF DumpsFails
  <2>15. ASSUME NEW q \in Procs, Crash(q)  PROVE Plain'
    BY <1>t, <2>15 DEF Crash, NewProcess
  <2> HIDE DEF Plain
  <2> QED
    BY <2>1, <2>2, <2>3, <2>4, <2>5, <2>6, <2>7, <2>8, <2>9, <2>10, <2>11, <2>12, <2>13,
       <2>14, <2>15, <2>16, StepCases DEF Raises
<1> QED  BY <1>h, <1>p, <1>q

(* The table and the files that were found stay.                             *)
LEMMA FoundStep ==
    ASSUME StoresInv, [Next]_vars
    PROVE  TableInv' /\ FoundInv'
<1> USE DEF database, disk
<1>0. StoresTypeOK /\ CallInv /\ FoundInv /\ TableInv
  BY DEF StoresInv
<1>t. /\ setup \in [Procs -> {"new", "create", "ready"}] /\ table \in BOOLEAN
      /\ file \in [Paths -> Inodes \union {None}]
      /\ pc \in [Threads -> {"idle", "exists", "load", "lock", "open", "dump", "rename",
                             "select", "update", "insert", "commit"}]
      /\ call \in [Threads -> Calls \union {NoCall}]
  BY <1>0 DEF StoresTypeOK, CallInv
<1>1. TableInv'
  <2>1. store' = store /\ (table => table')
    BY <1>t DEF Next, vars, CallGet, CallSet, Exists, Load, DumpsFails, Lock, Open, Dump,
       DumpFails, Rename, Select, UpdateRow, InsertRow, InsertFails, CommitRow, CommitAckLost,
       StatementFails, LookUpTable, CreateStateTable, Crash, Ends
  <2>2. CASE setup' = setup
    BY <1>0, <2>1, <2>2 DEF TableInv
  <2>3. CASE \E q \in Procs : LookUpTable(q)
    BY <1>0, <1>t, <2>1, <2>3 DEF LookUpTable, TableInv
  <2>4. CASE \E q \in Procs : CreateStateTable(q)
    BY <2>4 DEF CreateStateTable, TableInv
  <2>5. CASE \E q \in Procs : Crash(q)
    BY <1>0, <1>t, <2>1, <2>5 DEF Crash, NewProcess, TableInv
  <2>6. (\A q \in Procs : ~LookUpTable(q) /\ ~CreateStateTable(q) /\ ~Crash(q)) => setup' = setup
    BY DEF Next, vars, CallGet, CallSet, Exists, Load, DumpsFails, Lock, Open, Dump, DumpFails,
       Rename, Select, UpdateRow, InsertRow, InsertFails, CommitRow, CommitAckLost,
       StatementFails, Ends
  <2> QED  BY <2>2, <2>3, <2>4, <2>5, <2>6
<1>2. FoundInv'
  <2>1. ASSUME NEW p \in Paths, file[p] # None  PROVE file'[p] # None
    <3>1. CASE file' = file
      BY <2>1, <3>1
    <3>2. CASE \E t \in Threads : Rename(t)
      BY <1>t, <2>1, <3>2 DEF Rename
    <3>3. (\A t \in Threads : ~Rename(t)) => file' = file
      BY DEF Next, vars, CallGet, CallSet, Exists, Load, DumpsFails, Lock, Open, Dump,
         DumpFails, Select, UpdateRow, InsertRow, InsertFails, CommitRow, CommitAckLost,
         StatementFails, LookUpTable, CreateStateTable, Crash, Ends
    <3> QED  BY <3>1, <3>2, <3>3
  <2>2. SUFFICES ASSUME NEW t \in Threads, pc'[t] = "load"  PROVE file'[Path(t)'] # None
    BY DEF FoundInv
  <2>3. CASE pc[t] = "load" /\ call'[t] = call[t]
    <3>1. Path(t)' = Path(t) /\ Path(t) \in Paths /\ file[Path(t)] # None
      BY <1>0, <2>3, InCall DEF Path, FoundInv
    <3> QED  BY <2>1, <3>1
  <2>4. CASE Exists(t) /\ file[Path(t)] # None
    <3>1. Path(t)' = Path(t) /\ Path(t) \in Paths
      BY <1>0, <2>4, InCall DEF Path, Exists
    <3> QED  BY <2>1, <2>4, <3>1
  <2>5. (pc[t] = "load" /\ call'[t] = call[t]) \/ (Exists(t) /\ file[Path(t)] # None)
    <3> DEFINE Goal == (pc[t] = "load" /\ call'[t] = call[t]) \/ (Exists(t) /\ file[Path(t)] # None)
    <3>a. ASSUME NEW u \in Threads, NEW label, label # "load", Goto(u, label)
          PROVE  u # t /\ pc[t] = "load"
      BY <1>t, <2>2, <3>a DEF Goto
    <3>1. ASSUME UNCHANGED vars  PROVE Goal
      BY <2>2, <3>1 DEF vars
    <3>2. ASSUME NEW u \in Threads, NEW s, CallGet(u, s) \/ CallSet(u, s)
          PROVE  Goal
      <4>1. u # t /\ pc[t] = "load"
        BY <3>a, <3>2 DEF CallGet, CallSet
      <4> QED  BY <1>t, <3>2, <4>1 DEF CallGet, CallSet
    <3>3. ASSUME NEW u \in Threads, Exists(u)  PROVE Goal
      <4>1. CASE u = t /\ file[Path(t)] # None
        BY <3>3, <4>1
      <4>2. CASE file[Path(u)] = None
        <5>1. u # t /\ pc[t] = "load"
          BY <3>a, <3>3, <4>2 DEF Exists, Leave
        <5> QED  BY <1>t, <3>3, <4>2, <5>1 DEF Exists, Leave
      <4>3. CASE u # t /\ file[Path(u)] # None
        BY <1>t, <2>2, <3>3, <4>3 DEF Exists, Goto
      <4> QED  BY <4>1, <4>2, <4>3
    <3>4. ASSUME NEW u \in Threads,
                 \/ Load(u) \/ Select(u) \/ DumpsFails(u) \/ Rename(u)
                 \/ Raises(u) \/ CommitRow(u) \/ CommitAckLost(u)
          PROVE  Goal
      <4>1. Leave(u)
        BY <3>4 DEF Load, Select, DumpsFails, Rename, Raises, InsertFails, StatementFails,
           DumpFails, CommitRow, CommitAckLost, Ends
      <4>2. u # t /\ pc[t] = "load"
        BY <3>a, <4>1 DEF Leave
      <4> QED  BY <1>t, <4>1, <4>2 DEF Leave
    <3>5. ASSUME NEW u \in Threads, Lock(u) \/ Open(u) \/ Dump(u) \/ UpdateRow(u) \/ InsertRow(u)
          PROVE  Goal
      <4>1. u # t /\ pc[t] = "load"
        BY <3>a, <3>5 DEF Lock, Open, Dump, UpdateRow, InsertRow
      <4> QED  BY <3>5, <4>1 DEF Lock, Open, Dump, UpdateRow, InsertRow
    <3>6. ASSUME NEW q \in Procs, LookUpTable(q) \/ CreateStateTable(q)  PROVE Goal
      BY <2>2, <3>6 DEF LookUpTable, CreateStateTable
    <3>7. ASSUME NEW q \in Procs, Crash(q)  PROVE Goal
      BY <2>2, <3>7 DEF Crash
    <3> HIDE DEF Goal
    <3>8. Goal
      BY <3>1, <3>2, <3>3, <3>4, <3>5, <3>6, <3>7, StepCases DEF Raises
    <3> QED  BY <3>8 DEF Goal
  <2> QED  BY <2>3, <2>4, <2>5
<1> QED  BY <1>1, <1>2

-----------------------------------------------------------------------------
(* The files.                                                                *)

(* Two threads inside set do not write the same file.                        *)
LEMMA Alone ==
    ASSUME OneOwner, StoresTypeOK, CallInv, store = "file",
           NEW t \in Threads, NEW u \in Threads, t # u, pc[t] \in Inside, pc[u] \in Inside
    PROVE  Path(t) # Path(u)
<1>1. /\ call[t].stream \in Serves["file"][t] /\ call[u].stream \in Serves["file"][u]
      /\ store \in Stores
  BY InCall DEF Inside
<1>2. lock[ProcOf[t]] = t /\ lock[ProcOf[u]] = u
  BY DEF StoresTypeOK, Inside
<1> QED  BY <1>1, <1>2 DEF OneOwner, Path

(* The file at p.json is whole, and a .tmp file is of the one that writes it.*)
LEMMA DiskStep ==
    ASSUME OneOwner, StoresInv, DiskInv, [Next]_vars
    PROVE  DiskInv'
<1> USE DEF database, disk
<1>0. StoresTypeOK /\ CallInv
  BY DEF StoresInv
<1>t. /\ file \in [Paths -> Inodes \union {None}] /\ tmp \in [Paths -> Inodes \union {None}]
      /\ content \in [Inodes -> States \union {Empty, Torn}]
      /\ fd \in [Threads -> Inodes \union {None}] /\ None \notin Inodes
      /\ call \in [Threads -> Calls \union {NoCall}]
      /\ pc \in [Threads -> {"idle", "exists", "load", "lock", "open", "dump", "rename",
                             "select", "update", "insert", "commit"}]
  BY <1>0 DEF StoresTypeOK, CallInv
<1>d. /\ \A p, q \in Paths : tmp[p] # None => tmp[p] # file[q] /\ (tmp[p] = tmp[q] => p = q)
      /\ \A p \in Paths : file[p] # None => content[file[p]] \in States
      /\ \A t \in Threads : pc[t] = "dump" =>
            fd[t] # None /\ fd[t] = tmp[Path(t)] /\ content[fd[t]] = Empty
      /\ \A t \in Threads : pc[t] = "rename" =>
            tmp[Path(t)] # None /\ content[tmp[Path(t)]] = call[t].arg
  BY DEF DiskInv
<1>k. ASSUME UNCHANGED disk,
             \A u \in Threads : pc'[u] \in {"dump", "rename"} =>
                 pc'[u] = pc[u] /\ call'[u] = call[u] /\ fd'[u] = fd[u]
      PROVE  DiskInv'
  BY <1>d, <1>k DEF DiskInv, Path
<1>g. ASSUME NEW t \in Threads, NEW label, label \notin {"dump", "rename"}, Goto(t, label),
             UNCHANGED disk, UNCHANGED fd,
             \A u \in Threads \ {t} : call'[u] = call[u]
      PROVE  DiskInv'
  <2>1. \A u \in Threads : pc'[u] \in {"dump", "rename"} => u # t /\ pc'[u] = pc[u]
    BY <1>t, <1>g DEF Goto
  <2> QED  BY <1>g, <1>k, <2>1
<1>1. ASSUME UNCHANGED vars  PROVE DiskInv'
  BY <1>k, <1>1 DEF vars
<1>2. ASSUME NEW t \in Threads, NEW s, CallGet(t, s) \/ CallSet(t, s)  PROVE DiskInv'
  <2>1. \A u \in Threads \ {t} : call'[u] = call[u]
    BY <1>t, <1>2 DEF CallGet, CallSet
  <2>2. CASE CallGet(t, s)
    BY <1>g, <2>1, <2>2 DEF CallGet
  <2>3. CASE CallSet(t, s)
    BY <1>g, <2>1, <2>3 DEF CallSet
  <2> QED  BY <1>2, <2>2, <2>3
<1>3. ASSUME NEW t \in Threads, Leave(t), UNCHANGED disk, UNCHANGED fd  PROVE DiskInv'
  <2>1. \A u \in Threads \ {t} : call'[u] = call[u]
    BY <1>t, <1>3 DEF Leave
  <2> QED  BY <1>g, <1>3, <2>1 DEF Leave
<1>4. ASSUME NEW t \in Threads,
             \/ Load(t) \/ Select(t) \/ DumpsFails(t) \/ InsertFails(t) \/ StatementFails(t)
             \/ CommitRow(t) \/ CommitAckLost(t)
      PROVE  DiskInv'
  BY <1>3, <1>4 DEF Load, Select, DumpsFails, InsertFails, StatementFails, CommitRow,
     CommitAckLost, Ends
<1>5. ASSUME NEW t \in Threads, Exists(t)  PROVE DiskInv'
  <2>1. CASE file[Path(t)] = None
    BY <1>3, <1>5, <2>1 DEF Exists
  <2>2. CASE file[Path(t)] # None
    BY <1>g, <1>5, <2>2 DEF Exists
  <2> QED  BY <2>1, <2>2
<1>6. ASSUME NEW t \in Threads, Lock(t) \/ UpdateRow(t) \/ InsertRow(t)  PROVE DiskInv'
  <2>1. CASE Lock(t)
    BY <1>g, <2>1 DEF Lock
  <2>2. CASE UpdateRow(t)
    BY <1>g, <2>2 DEF UpdateRow
  <2>3. CASE InsertRow(t)
    BY <1>g, <2>3 DEF InsertRow
  <2> QED  BY <1>6, <2>1, <2>2, <2>3
<1>7. ASSUME NEW q \in Procs, LookUpTable(q) \/ CreateStateTable(q)  PROVE DiskInv'
  BY <1>k, <1>7 DEF LookUpTable, CreateStateTable
<1>8. ASSUME NEW q \in Procs, Crash(q)  PROVE DiskInv'
  <2>1. \A u \in Threads : pc'[u] \in {"dump", "rename"} =>
                 pc'[u] = pc[u] /\ call'[u] = call[u] /\ fd'[u] = fd[u]
    BY <1>8 DEF Crash
  <2> QED  BY <1>8, <1>k, <2>1 DEF Crash
<1>9. ASSUME NEW t \in Threads, Open(t)  PROVE DiskInv'
  <2> DEFINE p == Path(t)
  <2>1. /\ pc[t] = "open" /\ p \in Paths /\ store = "file" /\ pc[t] \in Inside
        /\ UNCHANGED <<file, call>>
    BY <1>0, <1>9, InCall DEF Open, Inside, CallInv
  <2>2. PICK i \in Opens(p) : /\ content' = [content EXCEPT ![i] = Empty]
                              /\ tmp' = [tmp EXCEPT ![p] = i]
                              /\ fd' = [fd EXCEPT ![t] = i]
    BY <1>9 DEF Open
  <2>3. i \in Inodes /\ i # None /\ (\A q \in Paths : file[q] # i)
        /\ (\A q \in Paths \ {p} : tmp[q] # i)
    BY <1>t, <1>d, <2>1, <2>2 DEF Opens, Free
  <2>4. /\ tmp'[p] = i /\ \A q \in Paths \ {p} : tmp'[q] = tmp[q]
        /\ content'[i] = Empty /\ \A j \in Inodes \ {i} : content'[j] = content[j]
        /\ fd'[t] = i /\ \A u \in Threads \ {t} : fd'[u] = fd[u]
    BY <1>t, <2>1, <2>2, <2>3
  <2>5. pc'[t] = "dump" /\ \A u \in Threads \ {t} : pc'[u] = pc[u]
    BY <1>t, <1>9 DEF Open, Goto
  <2>6. \A u \in Threads : Path(u)' = Path(u)
    BY <2>1 DEF Path
  <2>7. \A u \in Threads \ {t} : pc[u] \in {"dump", "rename"} => Path(u) \in Paths \ {p}
    BY <1>0, <2>1, Alone, InCall DEF Inside
  <2> HIDE DEF p
  <2>8. \A a, b \in Paths : tmp'[a] # None => tmp'[a] # file'[b] /\ (tmp'[a] = tmp'[b] => a = b)
    BY <1>d, <2>1, <2>3, <2>4
  <2>9. \A a \in Paths : file'[a] # None => content'[file'[a]] \in States
    BY <1>t, <1>d, <2>1, <2>3, <2>4
  <2>10. ASSUME NEW u \in Threads \ {t}, pc[u] = "dump"
         PROVE  fd'[u] # None /\ fd'[u] = tmp'[Path(u)] /\ content'[fd'[u]] = Empty
    BY <1>t, <1>d, <2>3, <2>4, <2>7, <2>10
  <2>11. ASSUME NEW u \in Threads \ {t}, pc[u] = "rename"
         PROVE  tmp'[Path(u)] # None /\ content'[tmp'[Path(u)]] = call'[u].arg
    BY <1>t, <1>d, <2>1, <2>3, <2>4, <2>7, <2>11
  <2>12. fd'[t] # None /\ fd'[t] = tmp'[Path(t)] /\ content'[fd'[t]] = Empty
    BY <2>3, <2>4 DEF p
  <2> QED  BY <2>5, <2>6, <2>8, <2>9, <2>10, <2>11, <2>12 DEF DiskInv
<1>10. ASSUME NEW t \in Threads, Dump(t)  PROVE DiskInv'
  <2> DEFINE p == Path(t)
  <2>1. /\ pc[t] = "dump" /\ p \in Paths /\ store = "file" /\ pc[t] \in Inside
        /\ UNCHANGED <<file, tmp, call>> /\ call[t].arg \in States
    BY <1>0, <1>10, InCall DEF Dump, Inside, CallInv
  <2>2. fd[t] # None /\ fd[t] = tmp[p] /\ content[fd[t]] = Empty /\ fd[t] \in Inodes
    BY <1>t, <1>d, <2>1
  <2>3. /\ content'[tmp[p]] = call[t].arg /\ \A j \in Inodes \ {tmp[p]} : content'[j] = content[j]
        /\ \A u \in Threads \ {t} : fd'[u] = fd[u]
    BY <1>t, <1>10, <2>2 DEF Dump
  <2>5. pc'[t] = "rename" /\ \A u \in Threads \ {t} : pc'[u] = pc[u]
    BY <1>t, <1>10 DEF Dump, Goto
  <2>6. \A u \in Threads : Path(u)' = Path(u)
    BY <2>1 DEF Path
  <2>7. \A u \in Threads \ {t} : pc[u] \in {"dump", "rename"} => Path(u) \in Paths \ {p}
    BY <1>0, <2>1, Alone, InCall DEF Inside
  <2> HIDE DEF p
  <2>9. \A a \in Paths : file'[a] # None => content'[file'[a]] \in States
    BY <1>t, <1>d, <2>1, <2>2, <2>3
  <2>10. ASSUME NEW u \in Threads \ {t}, pc[u] = "dump"
         PROVE  fd'[u] # None /\ fd'[u] = tmp'[Path(u)] /\ content'[fd'[u]] = Empty
    BY <1>t, <1>d, <2>1, <2>2, <2>3, <2>7, <2>10
  <2>11. ASSUME NEW u \in Threads \ {t}, pc[u] = "rename"
         PROVE  tmp'[Path(u)] # None /\ content'[tmp'[Path(u)]] = call'[u].arg
    BY <1>t, <1>d, <2>1, <2>2, <2>3, <2>7, <2>11
  <2>12. tmp'[Path(t)] # None /\ content'[tmp'[Path(t)]] = call'[t].arg
    BY <2>1, <2>2, <2>3 DEF p
  <2> QED  BY <1>d, <2>1, <2>5, <2>6, <2>9, <2>10, <2>11, <2>12 DEF DiskInv
<1>12. ASSUME NEW t \in Threads, DumpFails(t)  PROVE DiskInv'
  <2> DEFINE p == Path(t)
  <2>1. /\ pc[t] = "dump" /\ p \in Paths /\ store = "file" /\ pc[t] \in Inside
        /\ UNCHANGED <<file, tmp>>
    BY <1>0, <1>12, InCall DEF DumpFails, Inside, CallInv
  <2>2. fd[t] # None /\ fd[t] = tmp[p] /\ fd[t] \in Inodes
    BY <1>t, <1>d, <2>1
  <2>3. /\ \A j \in Inodes \ {tmp[p]} : content'[j] = content[j]
        /\ \A u \in Threads \ {t} : fd'[u] = fd[u]
    BY <1>t, <1>12, <2>2 DEF DumpFails
  <2>4. /\ pc'[t] = "idle"
        /\ \A u \in Threads \ {t} : pc'[u] = pc[u] /\ call'[u] = call[u] /\ Path(u)' = Path(u)
    BY <1>t, <1>12 DEF DumpFails, Ends, Leave, Goto, Path
  <2>5. \A u \in Threads \ {t} : pc[u] \in {"dump", "rename"} => Path(u) \in Paths \ {p}
    BY <1>0, <2>1, Alone, InCall DEF Inside
  <2> HIDE DEF p
  <2>6. \A a, b \in Paths : tmp'[a] # None => tmp'[a] # file'[b] /\ (tmp'[a] = tmp'[b] => a = b)
    BY <1>d, <2>1
  <2>7. \A a \in Paths : file'[a] # None => content'[file'[a]] \in States
    BY <1>t, <1>d, <2>1, <2>2, <2>3
  <2>8. ASSUME NEW u \in Threads \ {t}, pc[u] = "dump"
        PROVE  fd'[u] # None /\ fd'[u] = tmp'[Path(u)] /\ content'[fd'[u]] = Empty
    BY <1>t, <1>d, <2>1, <2>2, <2>3, <2>5, <2>8
  <2>9. ASSUME NEW u \in Threads \ {t}, pc[u] = "rename"
        PROVE  tmp'[Path(u)] # None /\ content'[tmp'[Path(u)]] = call'[u].arg
    BY <1>t, <1>d, <2>1, <2>2, <2>3, <2>4, <2>5, <2>9
  <2> QED  BY <2>4, <2>6, <2>7, <2>8, <2>9 DEF DiskInv
<1>11. ASSUME NEW t \in Threads, Rename(t)  PROVE DiskInv'
  <2> DEFINE p == Path(t)
  <2>1. /\ pc[t] = "rename" /\ p \in Paths /\ store = "file" /\ pc[t] \in Inside
        /\ call[t].arg \in States
    BY <1>0, <1>11, InCall DEF Rename, Inside, CallInv
  <2>2. tmp[p] # None /\ content[tmp[p]] = call[t].arg
    BY <1>d, <2>1
  <2>3. /\ file' = [file EXCEPT ![p] = tmp[p]] /\ tmp' = [tmp EXCEPT ![p] = None]
        /\ Leave(t) /\ UNCHANGED <<content, fd>>
    BY <1>11, <2>2 DEF Rename, Ends
  <2>4. /\ file'[p] = tmp[p] /\ \A q \in Paths \ {p} : file'[q] = file[q]
        /\ tmp'[p] = None /\ \A q \in Paths \ {p} : tmp'[q] = tmp[q]
    BY <1>t, <2>1, <2>3
  <2>5. /\ pc'[t] = "idle"
        /\ \A u \in Threads \ {t} : pc'[u] = pc[u] /\ call'[u] = call[u] /\ Path(u)' = Path(u)
    BY <1>t, <2>3 DEF Leave, Goto, Path
  <2>7. \A u \in Threads \ {t} : pc[u] \in {"dump", "rename"} => Path(u) \in Paths \ {p}
    BY <1>0, <2>1, Alone, InCall DEF Inside
  <2> HIDE DEF p
  <2>8. \A a, b \in Paths : tmp'[a] # None => tmp'[a] # file'[b] /\ (tmp'[a] = tmp'[b] => a = b)
    BY <1>d, <2>1, <2>2, <2>4
  <2>9. \A a \in Paths : file'[a] # None => content'[file'[a]] \in States
    BY <1>d, <2>1, <2>2, <2>3, <2>4
  <2>10. ASSUME NEW u \in Threads \ {t}, pc[u] = "dump"
         PROVE  fd'[u] # None /\ fd'[u] = tmp'[Path(u)] /\ content'[fd'[u]] = Empty
    BY <1>d, <2>3, <2>4, <2>7, <2>10
  <2>11. ASSUME NEW u \in Threads \ {t}, pc[u] = "rename"
         PROVE  tmp'[Path(u)] # None /\ content'[tmp'[Path(u)]] = call'[u].arg
    BY <1>d, <2>3, <2>4, <2>5, <2>7, <2>11
  <2> QED  BY <2>5, <2>8, <2>9, <2>10, <2>11 DEF DiskInv
<1> QED
  BY <1>1, <1>2, <1>4, <1>5, <1>6, <1>7, <1>8, <1>9, <1>10, <1>11, <1>12, StepCases

-----------------------------------------------------------------------------
(* The theorems.                                                             *)

(* The invariant of the calls and the types, whoever runs which stream.      *)
THEOREM StoresInvariant == Spec => []StoresInv
<1>1. Init => StoresInv
  <2> SUFFICES ASSUME Init  PROVE StoresInv
    OBVIOUS
  <2>1. StoresTypeOK
    <3>1. /\ store \in Stores /\ table \in BOOLEAN
          /\ setup \in [Procs -> {"new", "create", "ready"}]
          /\ rows \in [Streams -> States \union {NoState}]
      BY DEF Init, NewProcess
    <3>2. /\ file \in [Paths -> Inodes \union {None}] /\ tmp \in [Paths -> Inodes \union {None}]
          /\ content \in [Inodes -> States \union {Empty, Torn}]
          /\ lock \in [Procs -> Threads \union {None}]
      BY DEF Init
    <3>3. /\ pc \in [Threads -> {"idle", "exists", "load", "lock", "open", "dump", "rename",
                                 "select", "update", "insert", "commit"}]
          /\ \A t \in Threads : pc[t] = "idle" /\ call[t] = NoCall
          /\ fd \in [Threads -> Inodes \union {None}]
      BY DEF Init
    <3>4. got \in [Threads -> States \union {NoState, Raised, Stored, NotStored}]
      BY DEF Init
    <3>5. sets \in 0..MaxSets
      BY DEF Init
    <3> QED  BY <3>1, <3>2, <3>3, <3>4, <3>5 DEF StoresTypeOK
  <2>2. CallInv
    BY DEF Init, CallInv
  <2>3. TableInv
    BY DEF Init, NewProcess, TableInv
  <2>4. FoundInv
    BY DEF Init, FoundInv
  <2> QED  BY <2>1, <2>2, <2>3, <2>4 DEF StoresInv
<1>2. StoresInv /\ [Next]_vars => StoresInv'
  BY TypeStep, CallStep, FoundStep DEF StoresInv
<1> QED  BY <1>1, <1>2, PTL DEF Spec

(* Every variable has its type, and a thread inside set holds the lock of    *)
(* its process.                                                              *)
THEOREM StoresTypeCorrect == Spec => []StoresTypeOK
<1>1. StoresInv => StoresTypeOK
  BY DEF StoresInv
<1> QED  BY <1>1, StoresInvariant, PTL

(* The state files are whole at every instant, and so after any crash.       *)
THEOREM FilesWhole ==
    ASSUME OneOwner
    PROVE  Spec => []DiskInv
<1>1. Init => DiskInv
  BY DEF Init, DiskInv
<1>2. StoresInv /\ DiskInv /\ [Next]_vars => DiskInv'
  BY DiskStep
<1> QED  BY <1>1, <1>2, StoresInvariant, PTL DEF Spec

(* What a reader finds does not change while neither the row nor the file    *)
(* does.                                                                     *)
LEMMA ValueStays ==
    ASSUME store' = store, store = "sql" => rows' = rows,
           store = "file" => /\ file' = file
                             /\ \A p \in Paths : file[p] # None => content'[file[p]] = content[file[p]]
    PROVE  \A s \in Streams : store \in Stores => Value(s)' = Value(s)
BY DEF Value, Loaded

(* Each step of a store is a step of the registers or leaves them alone.     *)
LEMMA RegisterStep ==
    ASSUME OneOwner, StoresInv, DiskInv, [Next]_vars
    PROVE  [Register!Next]_(Register!vars)
<1> USE DEF database, disk
<1>0. StoresTypeOK /\ CallInv /\ TableInv /\ FoundInv /\ store \in Stores
  BY DEF StoresInv, StoresTypeOK
<1>t. /\ file \in [Paths -> Inodes \union {None}] /\ tmp \in [Paths -> Inodes \union {None}]
      /\ content \in [Inodes -> States \union {Empty, Torn}]
      /\ rows \in [Streams -> States \union {NoState}]
      /\ None \notin Inodes /\ call \in [Threads -> Calls \union {NoCall}]
  BY <1>0 DEF StoresTypeOK, CallInv
<1>d. /\ \A p, q \in Paths : tmp[p] # None => tmp[p] # file[q] /\ (tmp[p] = tmp[q] => p = q)
      /\ \A p \in Paths : file[p] # None => content[file[p]] \in States
      /\ \A t \in Threads : pc[t] = "dump" =>
            fd[t] # None /\ fd[t] = tmp[Path(t)] /\ content[fd[t]] = Empty
      /\ \A t \in Threads : pc[t] = "rename" =>
            tmp[Path(t)] # None /\ content[tmp[Path(t)]] = call[t].arg
  BY DEF DiskInv
<1> DEFINE V == [s \in Streams |-> Value(s)]
           Goal == Register!Next \/ UNCHANGED <<V, call, got, store = "sql">>
<1>v. /\ \A s \in Streams : V[s] = Value(s)
      /\ (\A s \in Streams : Value(s)' = Value(s)) => V' = V
  OBVIOUS
<1>c. UNCHANGED (store = "sql")
  BY DEF Next, vars, CallGet, CallSet, Exists, Load, DumpsFails, Lock, Open, Dump, DumpFails,
     Rename, Select, UpdateRow, InsertRow, InsertFails, CommitRow, CommitAckLost, StatementFails,
     LookUpTable, CreateStateTable, Crash, Ends
<1>q. /\ Goal => [Register!Next]_(Register!vars)
  BY DEF Register!vars
<1>s. ASSUME UNCHANGED <<store, rows, file, content>>  PROVE V' = V
  <2>1. \A s \in Streams : Value(s)' = Value(s)
    BY <1>0, <1>s, ValueStays
  <2> QED  BY <1>v, <2>1
<1>b. ASSUME NEW t \in Threads, call[t].op = "none", NEW c \in Calls,
             call' = [call EXCEPT ![t] = c], V' = V, got' = got
      PROVE  Goal
  BY <1>b, <1>c DEF Register!Next, Register!Begin
<1>e. ASSUME NEW t \in Threads, call[t].op = "get", Leave(t), V' = V,
             got' = [got EXCEPT ![t] = V[call[t].stream]]
      PROVE  Goal
  BY <1>c, <1>e DEF Register!Next, Register!Get, Register!Return, Leave, NoCall
<1>w. ASSUME NEW t \in Threads, call[t].op = "set", Leave(t),
             V' = [V EXCEPT ![call[t].stream] = call[t].arg],
             got' = [got EXCEPT ![t] = Stored]
      PROVE  Goal
  BY <1>c, <1>w DEF Register!Next, Register!Set, Register!Written, Register!Return, Leave, NoCall
<1>r. ASSUME NEW t \in Threads, call[t].op = "set", Leave(t),
             \/ V' = V
             \/ store = "sql" /\ V' = [V EXCEPT ![call[t].stream] = call[t].arg],
             got' = [got EXCEPT ![t] = NotStored]
      PROVE  Goal
  BY <1>c, <1>r DEF Register!Next, Register!SetRaises, Register!Written, Register!Return, Leave,
     NoCall
<1>m. ASSUME NEW dead, dead \subseteq Threads, V' = V, got' = got,
             call' = [t \in Threads |-> IF t \in dead THEN NoCall ELSE call[t]]
      PROVE  Goal
  BY <1>c, <1>m DEF Register!Next, Register!Die, NoCall
<1> HIDE DEF V, Goal
<1>u. ASSUME V' = V, call' = call, got' = got  PROVE Goal
  BY <1>c, <1>u DEF Goal
<1>1. ASSUME UNCHANGED vars  PROVE Goal
  BY <1>s, <1>u, <1>1 DEF vars
<1>2. ASSUME NEW t \in Threads, NEW s \in Serves[store][t], CallGet(t, s)  PROVE Goal
  <2> DEFINE c == [op |-> "get", stream |-> s]
  <2>1. c \in Calls
    BY <1>0, CallsAre
  <2>2. call[t].op = "none"
    BY <1>0, <1>2, CallsAre DEF CallGet, StoresTypeOK
  <2>3. call' = [call EXCEPT ![t] = c] /\ got' = got /\ V' = V
    BY <1>2, <1>s DEF CallGet
  <2> HIDE DEF c
  <2> QED  BY <1>b, <2>1, <2>2, <2>3
<1>3. ASSUME NEW t \in Threads, NEW s \in Serves[store][t], CallSet(t, s)  PROVE Goal
  <2> DEFINE c == [op |-> "set", stream |-> s, arg |-> State(s, sets + 1)]
  <2>1. s \in Streams /\ State(s, sets + 1) \in States
    BY <1>0, <1>3 DEF CallSet, State, States, StoresTypeOK
  <2>2. c \in Calls
    BY <2>1, CallsAre
  <2>3. call[t].op = "none"
    BY <1>0, <1>3, CallsAre DEF CallSet, StoresTypeOK
  <2>4. call' = [call EXCEPT ![t] = c] /\ got' = got /\ V' = V
    BY <1>3, <1>s DEF CallSet
  <2> HIDE DEF c
  <2> QED  BY <1>b, <2>2, <2>3, <2>4
<1>4. ASSUME NEW t \in Threads, Exists(t)  PROVE Goal
  <2>1. /\ pc[t] = "exists" /\ call[t].op = "get" /\ store = "file" /\ call[t].stream \in Streams
        /\ V' = V
    BY <1>0, <1>4, <1>s, InCall DEF Exists, CallInv
  <2>2. CASE file[Path(t)] = None
    <3>1. V[call[t].stream] = NoState
      BY <1>v, <2>1, <2>2 DEF Value, Path
    <3> QED  BY <1>4, <1>e, <2>1, <2>2, <3>1 DEF Exists
  <2>3. CASE file[Path(t)] # None
    BY <1>4, <1>u, <2>1, <2>3 DEF Exists
  <2> QED  BY <2>2, <2>3
<1>5. ASSUME NEW t \in Threads, Load(t)  PROVE Goal
  <2>1. /\ pc[t] = "load" /\ call[t].op = "get" /\ store = "file" /\ call[t].stream \in Streams
        /\ V' = V /\ file[Path(t)] # None
    BY <1>0, <1>5, <1>s, InCall DEF Load, CallInv, FoundInv
  <2>2. V[call[t].stream] = Loaded(file[Path(t)])
    BY <1>v, <2>1 DEF Value, Path
  <2> QED  BY <1>5, <1>e, <2>1, <2>2 DEF Load
<1>6. ASSUME NEW t \in Threads, Lock(t) \/ UpdateRow(t) \/ InsertRow(t)  PROVE Goal
  BY <1>6, <1>s, <1>u DEF Lock, UpdateRow, InsertRow
<1>7. ASSUME NEW t \in Threads, Open(t)  PROVE Goal
  <2>1. Path(t) \in Paths
    BY <1>0, <1>7, InCall DEF Open
  <2>2. PICK i \in Opens(Path(t)) : content' = [content EXCEPT ![i] = Empty]
    BY <1>7 DEF Open
  <2>3. i \in Inodes /\ \A q \in Paths : file[q] # i
    BY <1>t, <1>d, <2>1, <2>2 DEF Opens, Free
  <2>4. \A q \in Paths : file[q] # None => content'[file[q]] = content[file[q]]
    BY <1>t, <2>2, <2>3
  <2>5. UNCHANGED <<store, rows, file, call, got>>
    BY <1>7 DEF Open
  <2>6. V' = V
    BY <1>0, <1>v, <2>4, <2>5, ValueStays
  <2> QED  BY <1>u, <2>5, <2>6
<1>8. ASSUME NEW t \in Threads, Dump(t)  PROVE Goal
  <2>1. Path(t) \in Paths /\ fd[t] = tmp[Path(t)] /\ fd[t] # None
    BY <1>0, <1>d, <1>8, InCall DEF Dump
  <2>2. PICK c : content' = [content EXCEPT ![fd[t]] = c]
    BY <1>8 DEF Dump
  <2>3. fd[t] \in Inodes /\ \A q \in Paths : file[q] # fd[t]
    BY <1>t, <1>d, <2>1
  <2>4. \A q \in Paths : file[q] # None => content'[file[q]] = content[file[q]]
    BY <1>t, <2>2, <2>3
  <2>5. UNCHANGED <<store, rows, file, call, got>>
    BY <1>8 DEF Dump
  <2>6. V' = V
    BY <1>0, <1>v, <2>4, <2>5, ValueStays
  <2> QED  BY <1>u, <2>5, <2>6
<1>9. ASSUME NEW t \in Threads, Rename(t)  PROVE Goal
  <2> DEFINE p == Path(t)
  <2>1. /\ pc[t] = "rename" /\ p \in Paths /\ store = "file" /\ call[t].op = "set"
        /\ call[t].arg \in States /\ call[t].stream \in Streams
    BY <1>0, <1>9, InCall DEF Rename, CallInv
  <2>2. tmp[p] # None /\ content[tmp[p]] = call[t].arg
    BY <1>d, <2>1
  <2>3. /\ file' = [file EXCEPT ![p] = tmp[p]] /\ Leave(t)
        /\ UNCHANGED <<content, store>> /\ got' = [got EXCEPT ![t] = Stored]
    BY <1>9, <2>2 DEF Rename, Ends
  <2>4. file'[p] = tmp[p] /\ \A q \in Paths \ {p} : file'[q] = file[q]
    BY <1>t, <2>1, <2>3
  <2>5. \A s \in Streams : PathOf[s] = p <=> s = call[t].stream
    BY <1>0, <2>1 DEF Path, OneOwner
  <2> HIDE DEF p
  <2>6. ASSUME NEW s \in Streams
        PROVE  Value(s)' = IF s = call[t].stream THEN call[t].arg ELSE Value(s)
    <3>1. CASE s = call[t].stream
      <4>1. PathOf[s] = p
        BY <2>5, <3>1
      <4>2. store' = "file" /\ file'[PathOf[s]] = tmp[p] /\ content'[tmp[p]] = call[t].arg
        BY <2>1, <2>2, <2>3, <2>4, <4>1
      <4>3. Value(s)' = call[t].arg
        BY <2>1, <2>2, <4>2 DEF Value, Loaded
      <4> QED  BY <3>1, <4>3
    <3>2. CASE s # call[t].stream
      <4>1. PathOf[s] # p /\ PathOf[s] \in Paths
        BY <2>5, <3>2
      <4>2. store' = "file" /\ file'[PathOf[s]] = file[PathOf[s]] /\ content' = content
        BY <2>1, <2>3, <2>4, <4>1
      <4>3. Value(s)' = Value(s)
        BY <2>1, <4>2 DEF Value, Loaded
      <4> QED  BY <3>2, <4>3
    <3> QED  BY <3>1, <3>2
  <2>7. V' = [V EXCEPT ![call[t].stream] = call[t].arg]
    BY <2>6 DEF V
  <2> QED  BY <1>w, <2>1, <2>3, <2>7
<1>10. ASSUME NEW t \in Threads, Select(t)  PROVE Goal
  <2>1. /\ pc[t] = "select" /\ call[t].op = "get" /\ store = "sql" /\ call[t].stream \in Streams
        /\ V' = V /\ table
    BY <1>0, <1>10, <1>s, InCall DEF Select, CallInv, TableInv
  <2>2. V[call[t].stream] = rows[call[t].stream]
    BY <1>v, <2>1 DEF Value
  <2> QED  BY <1>10, <1>e, <2>1, <2>2 DEF Select
<1>11. ASSUME NEW t \in Threads, InsertFails(t) \/ StatementFails(t) \/ DumpsFails(t)
       PROVE  Goal
  <2>1. call[t].op = "set"
    BY <1>0, <1>11 DEF InsertFails, StatementFails, DumpsFails, CallInv
  <2>2. Leave(t) /\ got' = [got EXCEPT ![t] = NotStored] /\ V' = V
    BY <1>11, <1>s DEF InsertFails, StatementFails, DumpsFails, Ends
  <2> QED  BY <1>r, <2>1, <2>2
<1>16. ASSUME NEW t \in Threads, DumpFails(t)  PROVE Goal
  <2>1. Path(t) \in Paths /\ fd[t] = tmp[Path(t)] /\ fd[t] # None /\ call[t].op = "set"
    BY <1>0, <1>d, <1>16, InCall DEF DumpFails, CallInv
  <2>2. PICK c : content' = [content EXCEPT ![fd[t]] = c]
    BY <1>16 DEF DumpFails
  <2>3. fd[t] \in Inodes /\ \A q \in Paths : file[q] # fd[t]
    BY <1>t, <1>d, <2>1
  <2>4. \A q \in Paths : file[q] # None => content'[file[q]] = content[file[q]]
    BY <1>t, <2>2, <2>3
  <2>5. UNCHANGED <<store, rows, file>> /\ Leave(t) /\ got' = [got EXCEPT ![t] = NotStored]
    BY <1>16 DEF DumpFails, Ends
  <2>6. V' = V
    BY <1>0, <1>v, <2>4, <2>5, ValueStays
  <2> QED  BY <1>r, <2>1, <2>5, <2>6
<1>12. ASSUME NEW t \in Threads, CommitRow(t) \/ CommitAckLost(t)  PROVE Goal
  <2>1. call[t].op = "set" /\ store = "sql" /\ call[t].stream \in Streams
    BY <1>0, <1>12, InCall DEF CommitRow, CommitAckLost, CallInv
  <2>2. /\ Leave(t) /\ store' = store
        /\ got' = [got EXCEPT ![t] = Stored] \/ got' = [got EXCEPT ![t] = NotStored]
        /\ rows' = [rows EXCEPT ![call[t].stream] = call[t].arg]
    BY <1>12 DEF CommitRow, CommitAckLost, Ends
  <2>3. ASSUME NEW s \in Streams
        PROVE  Value(s)' = IF s = call[t].stream THEN call[t].arg ELSE Value(s)
    BY <1>t, <2>1, <2>2 DEF Value
  <2>4. V' = [V EXCEPT ![call[t].stream] = call[t].arg]
    BY <2>3 DEF V
  <2> QED  BY <1>r, <1>w, <2>1, <2>2, <2>4
<1>13. ASSUME NEW q \in Procs, LookUpTable(q) \/ CreateStateTable(q)  PROVE Goal
  BY <1>13, <1>s, <1>u DEF LookUpTable, CreateStateTable
<1>14. ASSUME NEW q \in Procs, Crash(q)  PROVE Goal
  <2> DEFINE dead == {t \in Threads : ProcOf[t] = q}
  <2>1. /\ call' = [t \in Threads |-> IF t \in dead THEN NoCall ELSE call[t]]
        /\ got' = got /\ V' = V /\ dead \subseteq Threads
    BY <1>14, <1>s DEF Crash
  <2> HIDE DEF dead
  <2> QED  BY <1>m, <2>1
<1>15. Goal
  BY <1>1, <1>2, <1>3, <1>4, <1>5, <1>6, <1>7, <1>8, <1>9, <1>10, <1>11, <1>12, <1>13, <1>14,
     <1>16, StepCases
<1> QED  BY <1>15, <1>q

(* FileStateStore and SqlStateStore are an atomic register per stream, under *)
(* every interleaving of threads, processes and crashes.                     *)
THEOREM StoresAreRegisters ==
    ASSUME OneOwner
    PROVE  Spec => ImplementsRegister
<1>1. Init => Register!Init
  <2> SUFFICES ASSUME Init  PROVE Register!Init
    OBVIOUS
  <2>1. \A s \in Streams : Value(s) = NoState
    BY DEF Init, Value
  <2> QED  BY <2>1 DEF Init, Register!Init, NoCall
<1>2. StoresInv /\ DiskInv /\ [Next]_vars => [Register!Next]_(Register!vars)
  BY RegisterStep
<1> QED  BY <1>1, <1>2, StoresInvariant, FilesWhole, PTL DEF Spec, ImplementsRegister, Register!Spec
=============================================================================
