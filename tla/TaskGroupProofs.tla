-------------------------- MODULE TaskGroupProofs --------------------------
(* Proofs about the tasks of a pipeline.                                     *)
EXTENDS TaskGroup, TLAPS

USE TaskAssumption

-----------------------------------------------------------------------------
(* Steps by who takes them.                                                  *)

(* Every step but a stutter is one of the constructor, of Airflow, of the    *)
(* source, or of a process.                                                  *)
LEMMA StepCases ==
    ASSUME [Next]_vars, NEW P,
           UNCHANGED vars => P,
           AddTask => P, RaiseCollision => P, Built => P,
           \A s \in Streams : Schedule(s) => P,
           \A s \in Streams : Heartbeat(s) => P,
           \A s \in Streams, k \in Keys : Change(s, k) => P,
           \A s \in Streams, p \in Procs : Execute(s, p) => P,
           \A p \in Procs : Read(p) => P,
           \A p \in Procs : NothingToDo(p) => P,
           \A p \in Procs : Commit(p) => P,
           \A p \in Procs : SetState(p) => P,
           \A p \in Procs : RunFails(p) => P,
           \A p \in Procs : AckLost(p) => P,
           \A p \in Procs : SetFails(p) => P,
           \A p \in Procs : Exit(p) => P,
           \A p \in Procs : Crash(p) => P
    PROVE  P
BY DEF Next, Construct, Run, NoTasks

(* How one entry of a function changes.                                      *)
LEMMA OneEntry ==
    ASSUME NEW D, NEW R, NEW f \in [D -> R], NEW d \in D, NEW r \in R
    PROVE  /\ [f EXCEPT ![d] = r] \in [D -> R]
           /\ [f EXCEPT ![d] = r][d] = r
           /\ \A e \in D : e # d => [f EXCEPT ![d] = r][e] = f[e]
OBVIOUS

(* Where the counts and the watermarks begin.                                *)
LEMMA Zeros ==
    0 \in 0..MaxChanges /\ 0 \in 0..TaskTries /\ 0 \in 0..PolicyAttempts
OBVIOUS

-----------------------------------------------------------------------------
(* Types.                                                                    *)

(* The changes of a batch have been seen by the attempt.                     *)
LEMMA BatchSeen ==
    ASSUME NEW p
    PROVE  Batch(p) \subseteq 1..mark[p]
BY DEF Batch, Newest

(* What a process may land is a set of changes of its stream.                *)
LEMMA LandedType ==
    ASSUME TaskTypeOK, NEW p \in Procs, stream[p] \in Streams
    PROVE  Landed(p) \subseteq 1..MaxChanges
<1>1. mark[p] \in 0..MaxChanges /\ target[stream[p]] \subseteq 1..MaxChanges
  BY DEF TaskTypeOK
<1>2. Batch(p) \subseteq 1..MaxChanges
  BY <1>1, BatchSeen
<1> QED  BY <1>1, <1>2 DEF Landed

(* Every step keeps the types.                                               *)
LEMMA TypeStep ==
    ASSUME TaskTypeOK, FilesInv, AirflowInv, ProcessInv, [Next]_vars
    PROVE  TaskTypeOK'
<1> USE DEF TaskTypeOK
<1>1. CASE UNCHANGED vars
  BY <1>1 DEF vars, construction, airflow, process, data
<1>2. CASE AddTask
  <2>1. Head(todo) \in Streams /\ Tail(todo) \in Seq(Streams)
    BY <1>2 DEF AddTask
  <2> QED  BY <1>2, <2>1 DEF AddTask, airflow, process, data
<1>3. CASE RaiseCollision
  BY <1>3 DEF RaiseCollision, airflow, process, data
<1>4. CASE Built
  BY <1>4 DEF Built, airflow, process, data
<1>5. ASSUME NEW s \in Streams, Schedule(s)  PROVE  TaskTypeOK'
  <2>1. Len(log[s]) \in 0..MaxChanges
    BY DEF FilesInv
  <2> QED  BY <1>5, <2>1 DEF Schedule, construction, process, data
<1>6. ASSUME NEW s \in Streams, RetryOrFail(s)
      PROVE  task' \in [Streams -> {"none", "queued", "running", "success", "failed"}]
             /\ tries' \in [Streams -> 0..TaskTries]
             /\ owner' \in [Streams -> SUBSET Procs]
  <2>1. owner' \in [Streams -> SUBSET Procs]
    BY <1>6 DEF RetryOrFail
  <2>2. tries' \in [Streams -> 0..TaskTries]
    BY <1>6, Zeros, OneEntry DEF RetryOrFail
  <2>3. task' \in [Streams -> {"none", "queued", "running", "success", "failed"}]
    BY <1>6 DEF RetryOrFail
  <2> QED  BY <2>1, <2>2, <2>3
<1>7. ASSUME NEW s \in Streams, Heartbeat(s)  PROVE  TaskTypeOK'
  BY <1>6, <1>7 DEF Heartbeat, construction, process, data
<1>8. ASSUME NEW s \in Streams, NEW k \in Keys, Change(s, k)  PROVE  TaskTypeOK'
  <2>1. Append(log[s], k) \in Seq(Keys)
    OBVIOUS
  <2>2. log' \in [Streams -> Seq(Keys)]
    BY <1>8, <2>1 DEF Change
  <2> QED  BY <1>8, <2>2 DEF Change, construction, process, airflow
<1>9. ASSUME NEW s \in Streams, NEW p \in Procs, Execute(s, p)  PROVE  TaskTypeOK'
  <2>1. tries[s] + 1 \in 0..TaskTries
    BY <1>9 DEF Execute, AirflowInv
  <2>2. tries' \in [Streams -> 0..TaskTries]
    BY <1>9, <2>1 DEF Execute
  <2>3. /\ task' \in [Streams -> {"none", "queued", "running", "success", "failed"}]
        /\ owner' \in [Streams -> SUBSET Procs]
        /\ overlap' \subseteq Streams
    BY <1>9 DEF Execute
  <2>4. /\ pc' \in [Procs -> {"free", "attempt", "loaded", "landed", "returned", "raised"}]
        /\ stream' \in [Procs -> Streams \union {NoStream}]
        /\ attempt' \in [Procs -> 0..PolicyAttempts]
    BY <1>9 DEF Execute
  <2> QED  BY <1>9, <2>2, <2>3, <2>4 DEF Execute, construction, data
<1>10. ASSUME NEW p \in Procs, Ended(p)
       PROVE  /\ pc' \in [Procs -> {"free", "attempt", "loaded", "landed", "returned", "raised"}]
              /\ stream' \in [Procs -> Streams \union {NoStream}]
              /\ attempt' \in [Procs -> 0..PolicyAttempts]
              /\ base' \in [Procs -> 0..MaxChanges] /\ mark' \in [Procs -> 0..MaxChanges]
  BY <1>10 DEF Ended
<1>11. ASSUME NEW p \in Procs, pc[p] # "free"
       PROVE  stream[p] \in tasks /\ stream[p] \in Streams
  BY <1>11 DEF ProcessInv
<1>12. ASSUME NEW p \in Procs, Exit(p)  PROVE  TaskTypeOK'
  <2>1. stream[p] \in Streams
    BY <1>11, <1>12 DEF Exit
  <2>2. /\ task' \in [Streams -> {"none", "queued", "running", "success", "failed"}]
        /\ tries' \in [Streams -> 0..TaskTries]
        /\ owner' \in [Streams -> SUBSET Procs]
    <3>1. CASE owner[stream[p]] # {p}
      BY <1>12, <3>1 DEF Exit
    <3>2. CASE owner[stream[p]] = {p} /\ pc[p] = "raised"
      BY <1>6, <1>12, <2>1, <3>2 DEF Exit
    <3>3. CASE owner[stream[p]] = {p} /\ pc[p] # "raised"
      <4>1. /\ task' = [task EXCEPT ![stream[p]] = "success"]
            /\ owner' = [owner EXCEPT ![stream[p]] = {}]
            /\ tries' = [tries EXCEPT ![stream[p]] = 0]
        BY <1>12, <3>3 DEF Exit
      <4>2. tries' \in [Streams -> 0..TaskTries]
        BY <2>1, <4>1, Zeros, OneEntry
      <4> QED  BY <4>1, <4>2
    <3> QED  BY <3>1, <3>2, <3>3
  <2> QED  BY <1>10, <1>12, <2>2 DEF Exit, construction, data
<1>13. ASSUME NEW p \in Procs, Crash(p)  PROVE  TaskTypeOK'
  BY <1>10, <1>13 DEF Crash, construction, airflow, data
<1>14. ASSUME NEW p \in Procs, Read(p)  PROVE  TaskTypeOK'
  <2>1. stream[p] \in Streams /\ attempt[p] < PolicyAttempts
    BY <1>11, <1>14 DEF Read, ProcessInv
  <2>2. Tried(attempt[p]) \in 0..PolicyAttempts
    BY <2>1 DEF Tried
  <2>3. StartsAt(stream[p]) \in 0..MaxChanges /\ Len(log[stream[p]]) \in 0..MaxChanges
    BY <2>1 DEF StartsAt, Stored, FilesInv
  <2>4. attempt' \in [Procs -> 0..PolicyAttempts]
    BY <1>14, <2>2 DEF Read
  <2>5. base' \in [Procs -> 0..MaxChanges] /\ mark' \in [Procs -> 0..MaxChanges]
    BY <1>14, <2>3 DEF Read
  <2> QED  BY <1>14, <2>4, <2>5 DEF Read, construction, airflow, data
<1>15. ASSUME NEW p \in Procs, NothingToDo(p)  PROVE  TaskTypeOK'
  BY <1>15 DEF NothingToDo, construction, airflow, data
<1>16. ASSUME NEW p \in Procs, pc[p] = "loaded"
       PROVE  [target EXCEPT ![stream[p]] = Landed(p)] \in [Streams -> SUBSET (1..MaxChanges)]
  <2>1. stream[p] \in Streams
    BY <1>11, <1>16
  <2>2. Landed(p) \in SUBSET (1..MaxChanges)
    BY <2>1, LandedType
  <2> QED  BY <2>1, <2>2
<1>17. ASSUME NEW p \in Procs, Commit(p)  PROVE  TaskTypeOK'
  <2>1. base' \in [Procs -> 0..MaxChanges]
    BY <1>17, Zeros, OneEntry DEF Commit
  <2>2. pc' \in [Procs -> {"free", "attempt", "loaded", "landed", "returned", "raised"}]
    BY <1>17 DEF Commit
  <2> QED  BY <1>16, <1>17, <2>1, <2>2 DEF Commit, construction, airflow
<1>18. ASSUME NEW p \in Procs, SetState(p)  PROVE  TaskTypeOK'
  <2>1. mark' \in [Procs -> 0..MaxChanges]
    BY <1>18, Zeros, OneEntry DEF SetState
  <2>2. pc' \in [Procs -> {"free", "attempt", "loaded", "landed", "returned", "raised"}]
    BY <1>18 DEF SetState
  <2>3. store' \in [Streams -> 0..MaxChanges]
    BY <1>11, <1>18, OneEntry DEF SetState
  <2> QED  BY <1>18, <2>1, <2>2, <2>3 DEF SetState, construction, airflow
<1>19. ASSUME NEW p \in Procs, Again(p), target' \in [Streams -> SUBSET (1..MaxChanges)]
       PROVE  TaskTypeOK'
  BY <1>19, SMTT(20) DEF Again, Outcome, construction, airflow
<1>20. ASSUME NEW p \in Procs, RunFails(p)  PROVE  TaskTypeOK'
  BY <1>19, <1>20 DEF RunFails
<1>21. ASSUME NEW p \in Procs, AckLost(p)  PROVE  TaskTypeOK'
  BY <1>16, <1>19, <1>21 DEF AckLost
<1>22. ASSUME NEW p \in Procs, SetFails(p)  PROVE  TaskTypeOK'
  BY <1>19, <1>22 DEF SetFails
<1> HIDE DEF TaskTypeOK
<1> QED
  BY <1>1, <1>2, <1>3, <1>4, <1>5, <1>7, <1>8, <1>9, <1>12, <1>13, <1>14, <1>15,
     <1>17, <1>18, <1>20, <1>21, <1>22, StepCases

-----------------------------------------------------------------------------
(* Files, Airflow's records, processes.                                      *)

(* A process that is not free runs a task of the group.                      *)
LEMMA Busy ==
    ASSUME TaskTypeOK, ProcessInv, NEW p \in Procs, pc[p] # "free"
    PROVE  stream[p] \in tasks /\ stream[p] \in Streams /\ stream[p] # NoStream
BY DEF TaskTypeOK, ProcessInv

(* Only a task of the group has processes.                                   *)
LEMMA LiveTasks ==
    ASSUME TaskTypeOK, ProcessInv, NEW s \in Streams \ tasks
    PROVE  Live(s) = {}
<1>1. ASSUME NEW p \in Live(s)  PROVE  FALSE
  <2>1. p \in Procs /\ stream[p] = s /\ s # NoStream
    BY <1>1 DEF Live
  <2> QED  BY <2>1 DEF ProcessInv
<1> QED  BY <1>1

(* No two streams of a group get to write one file.                          *)
LEMMA FilesStep ==
    ASSUME TaskTypeOK, FilesInv, ProcessInv, [Next]_vars
    PROVE  FilesInv'
<1>1. CASE UNCHANGED vars
  BY <1>1 DEF vars, construction, airflow, process, data, FilesInv, Stored
<1>2. CASE AddTask
  <2> DEFINE s == Head(todo)
  <2>1. s \in Streams /\ \A t \in tasks : Sanitized[t] # Sanitized[s]
    BY <1>2 DEF AddTask, Collides, TaskTypeOK
  <2>2. tasks' = tasks \union {s} /\ UNCHANGED <<task, due, log, store>>
    BY <1>2 DEF AddTask, airflow, data
  <2>3. Stored(s) = 0
    BY <2>1 DEF FilesInv, Stored
  <2>4. Len(log[s]) \in Nat
    BY <2>1 DEF TaskTypeOK
  <2> HIDE DEF s
  <2> QED  BY <2>1, <2>2, <2>3, <2>4 DEF FilesInv, Stored
<1>3. CASE RaiseCollision
  BY <1>3 DEF RaiseCollision, airflow, process, data, FilesInv, Stored
<1>4. CASE Built
  BY <1>4 DEF Built, airflow, process, data, FilesInv, Stored
<1>5. ASSUME NEW s \in Streams, Schedule(s)  PROVE  FilesInv'
  BY <1>5 DEF Schedule, construction, process, data, FilesInv, Stored, TaskTypeOK
<1>6. ASSUME NEW s \in tasks, UNCHANGED <<tasks, log, store, due>>,
             \A t \in Streams \ {s} : task'[t] = task[t]
      PROVE  FilesInv'
  BY <1>6 DEF FilesInv, Stored
<1>7. ASSUME NEW s \in Streams, Heartbeat(s)  PROVE  FilesInv'
  <2>1. s \in tasks
    BY <1>7 DEF Heartbeat, FilesInv
  <2>2. \A t \in Streams \ {s} : task'[t] = task[t]
    BY <1>7 DEF Heartbeat, RetryOrFail, TaskTypeOK
  <2> QED  BY <1>6, <1>7, <2>1, <2>2 DEF Heartbeat, construction, data
<1>8. ASSUME NEW s \in Streams, NEW k \in Keys, Change(s, k)  PROVE  FilesInv'
  <2>1. s \in tasks /\ UNCHANGED <<tasks, task, due, store>>
    BY <1>8 DEF Change, construction, airflow
  <2>2. Len(log[s]) \in Nat /\ Len(log[s]) < MaxChanges /\ Len(log'[s]) = Len(log[s]) + 1
    BY <1>8 DEF Change, TaskTypeOK
  <2>3. \A t \in Streams \ {s} : log'[t] = log[t]
    BY <1>8 DEF Change, TaskTypeOK
  <2>4. \A t \in Streams : Stored(t)' = Stored(t) /\ Stored(t) \in Nat /\ due[t] \in Nat
    BY <2>1 DEF Stored, TaskTypeOK
  <2>5. \A t \in Streams \ tasks : log'[t] = <<>> /\ task'[t] = "none"
    BY <2>1, <2>3 DEF FilesInv
  <2>6. \A t \in Streams : Len(log[t]) \in Nat
    BY DEF TaskTypeOK
  <2>7. \A t \in tasks : Stored(t)' <= Len(log'[t])
    <3>1. \A t \in tasks : t \in Streams /\ Stored(t) <= Len(log[t])
      BY DEF FilesInv, TaskTypeOK
    <3> QED  BY <2>2, <2>3, <2>4, <2>6, <3>1
  <2>8. \A t \in Streams : due'[t] <= Len(log'[t]) /\ Len(log'[t]) <= MaxChanges
    <3>1. \A t \in Streams : due[t] <= Len(log[t]) /\ Len(log[t]) <= MaxChanges
      BY DEF FilesInv
    <3> QED  BY SMTT(20), <2>1, <2>2, <2>3, <2>4, <2>6, <3>1
  <2> QED  BY <2>1, <2>5, <2>7, <2>8 DEF FilesInv
<1>9. ASSUME NEW s \in Streams, NEW p \in Procs, Execute(s, p)  PROVE  FilesInv'
  <2>1. s \in tasks
    BY <1>9 DEF Execute, FilesInv
  <2>2. \A t \in Streams \ {s} : task'[t] = task[t]
    BY <1>9 DEF Execute, TaskTypeOK
  <2> QED  BY <1>6, <1>9, <2>1, <2>2 DEF Execute, construction, data
<1>10. ASSUME NEW p \in Procs, Exit(p)  PROVE  FilesInv'
  <2>1. stream[p] \in tasks
    BY <1>10, Busy DEF Exit
  <2>2. \A t \in Streams \ {stream[p]} : task'[t] = task[t]
    BY <1>10, SMTT(20) DEF Exit, RetryOrFail, TaskTypeOK
  <2> QED  BY <1>6, <1>10, <2>1, <2>2 DEF Exit, construction, data
<1>11. ASSUME UNCHANGED <<tasks, task, log, store, due>>  PROVE  FilesInv'
  BY <1>11 DEF FilesInv, Stored
<1>12. ASSUME NEW p \in Procs, Crash(p)  PROVE  FilesInv'
  BY <1>11, <1>12 DEF Crash, construction, airflow, data
<1>13. ASSUME NEW p \in Procs, Read(p)  PROVE  FilesInv'
  BY <1>11, <1>13 DEF Read, construction, airflow, data
<1>14. ASSUME NEW p \in Procs, NothingToDo(p)  PROVE  FilesInv'
  BY <1>11, <1>14 DEF NothingToDo, construction, airflow, data
<1>15. ASSUME NEW p \in Procs, Commit(p)  PROVE  FilesInv'
  BY <1>11, <1>15 DEF Commit, construction, airflow
<1>16. ASSUME NEW p \in Procs, SetState(p)  PROVE  FilesInv'
  <2> DEFINE s == stream[p]
  <2>1. s \in tasks /\ s \in Streams
    BY <1>16, Busy DEF SetState
  <2>2. store' = [store EXCEPT ![Sanitized[s]] = mark[p]] /\ UNCHANGED <<tasks, task, log, due>>
    BY <1>16 DEF SetState, construction, airflow
  <2>3. mark[p] <= Len(log[s])
    BY <1>16 DEF SetState, ProcessInv
  <2>4. \A t \in tasks : Stored(t)' = IF t = s THEN mark[p] ELSE Stored(t)
    BY <2>1, <2>2 DEF Stored, FilesInv, TaskTypeOK
  <2>5. \A f \in Streams : store'[f] # 0 => \E t \in tasks : Sanitized[t] = f
    BY <2>1, <2>2, SMTT(20) DEF FilesInv, TaskTypeOK
  <2> HIDE DEF s
  <2> QED  BY <2>2, <2>3, <2>4, <2>5 DEF FilesInv
<1>17. ASSUME NEW p \in Procs, RunFails(p)  PROVE  FilesInv'
  BY <1>11, <1>17 DEF RunFails, Again, construction, airflow
<1>18. ASSUME NEW p \in Procs, AckLost(p)  PROVE  FilesInv'
  BY <1>11, <1>18 DEF AckLost, Again, construction, airflow
<1>19. ASSUME NEW p \in Procs, SetFails(p)  PROVE  FilesInv'
  BY <1>11, <1>19 DEF SetFails, Again, construction, airflow
<1> QED
  BY <1>1, <1>2, <1>3, <1>4, <1>5, <1>7, <1>8, <1>9, <1>10, <1>12, <1>13, <1>14,
     <1>15, <1>16, <1>17, <1>18, <1>19, StepCases

(* Airflow gives up a task before it runs out of tries.                      *)
LEMMA AirflowStep ==
    ASSUME TaskTypeOK, AirflowInv, ProcessInv, [Next]_vars
    PROVE  AirflowInv'
<1> USE DEF AirflowInv
<1>1. ASSUME UNCHANGED <<task, tries, owner>>  PROVE  AirflowInv'
  BY <1>1
<1>2. ASSUME NEW s \in Streams, Schedule(s)  PROVE  AirflowInv'
  <2>1. /\ UNCHANGED <<tries, owner>>
        /\ \A t \in Streams : task'[t] = IF t = s THEN "queued" ELSE task[t]
        /\ task[s] \in {"none", "success", "failed"}
    BY <1>2 DEF Schedule, TaskTypeOK
  <2> QED  BY <2>1
<1>3. ASSUME NEW s \in Streams, NEW p \in Procs, Execute(s, p)  PROVE  AirflowInv'
  <2>1. /\ \A t \in Streams : task'[t] = IF t = s THEN "running" ELSE task[t]
        /\ \A t \in Streams : t # s => tries'[t] = tries[t]
        /\ \A t \in Streams : t # s => owner'[t] = owner[t]
    BY <1>3 DEF Execute, TaskTypeOK
  <2> QED  BY <2>1
<1>4. ASSUME NEW s \in Streams, RetryOrFail(s)  PROVE  AirflowInv'
  <2>1. \A t \in Streams : t # s => task'[t] = task[t] /\ tries'[t] = tries[t] /\ owner'[t] = owner[t]
    BY <1>4 DEF RetryOrFail, TaskTypeOK
  <2>2. owner'[s] = {}
    BY <1>4 DEF RetryOrFail, TaskTypeOK
  <2>3. \/ task'[s] = "queued" /\ tries'[s] = tries[s] /\ tries[s] < TaskTries
        \/ task'[s] = "failed" /\ tries'[s] = 0
    BY <1>4 DEF RetryOrFail, TaskTypeOK
  <2> QED  BY <2>1, <2>2, <2>3
<1>5. ASSUME NEW s \in Streams, Heartbeat(s)  PROVE  AirflowInv'
  BY <1>4, <1>5 DEF Heartbeat
<1>6. ASSUME NEW p \in Procs, Exit(p)  PROVE  AirflowInv'
  <2> DEFINE s == stream[p]
  <2>1. s \in Streams
    BY <1>6, Busy DEF Exit
  <2>2. CASE owner[s] # {p}
    BY <1>1, <1>6, <2>2 DEF Exit
  <2>3. CASE owner[s] = {p} /\ pc[p] = "raised"
    BY <1>4, <1>6, <2>1, <2>3 DEF Exit
  <2>4. CASE owner[s] = {p} /\ pc[p] # "raised"
    <3>1. /\ task' = [task EXCEPT ![s] = "success"]
          /\ owner' = [owner EXCEPT ![s] = {}]
          /\ tries' = [tries EXCEPT ![s] = 0]
      BY <1>6, <2>4 DEF Exit
    <3> HIDE DEF s
    <3>2. \A t \in Streams : t # s => task'[t] = task[t] /\ tries'[t] = tries[t] /\ owner'[t] = owner[t]
      BY <2>1, <3>1 DEF TaskTypeOK
    <3>3. task'[s] = "success" /\ tries'[s] = 0 /\ owner'[s] = {}
      BY <2>1, <3>1 DEF TaskTypeOK
    <3> QED  BY <3>2, <3>3
  <2> QED  BY <2>2, <2>3, <2>4
<1> HIDE DEF AirflowInv
<1> QED
  BY <1>1, <1>2, <1>3, <1>5, <1>6, StepCases
     DEF vars, AddTask, RaiseCollision, Built, Change, Crash, Read, NothingToDo, Commit,
         SetState, RunFails, AckLost, SetFails, Again, airflow

(* What happens to a process is what its own step does to it.                *)
LEMMA ProcessStep ==
    ASSUME TaskTypeOK, FilesInv, ProcessInv, [Next]_vars
    PROVE  ProcessInv'
<1> USE DEF ProcessInv
<1>1. ASSUME UNCHANGED <<pc, stream, attempt, base, mark, log>>, tasks \subseteq tasks'
      PROVE  ProcessInv'
  BY <1>1
<1>2. CASE AddTask
  BY <1>1, <1>2 DEF AddTask, process, data
<1>3. ASSUME NEW s \in Streams, NEW k \in Keys, Change(s, k)  PROVE  ProcessInv'
  <2>1. UNCHANGED <<pc, stream, attempt, base, mark, tasks>>
    BY <1>3 DEF Change, construction, process
  <2>2. \A t \in Streams : Len(log[t]) \in Nat /\ Len(log'[t]) \in Nat /\ Len(log[t]) <= Len(log'[t])
    <3>1. \A t \in Streams : log[t] \in Seq(Keys)
      BY DEF TaskTypeOK
    <3>2. \A t \in Streams : log'[t] = IF t = s THEN Append(log[s], k) ELSE log[t]
      BY <1>3 DEF Change, TaskTypeOK
    <3>3. Len(log[s]) \in Nat /\ Len(Append(log[s], k)) = Len(log[s]) + 1
      BY <3>1
    <3>4. ASSUME NEW t \in Streams
          PROVE  Len(log[t]) \in Nat /\ Len(log'[t]) \in Nat /\ Len(log[t]) <= Len(log'[t])
      <4>1. CASE t = s
        <5>1. log'[t] = Append(log[s], k)
          BY <3>2, <4>1
        <5>2. Len(log'[t]) = Len(log[t]) + 1 /\ Len(log[t]) \in Nat
          BY <3>3, <4>1, <5>1
        <5> QED  BY <5>2
      <4>2. CASE t # s
        BY <3>1, <3>2, <4>2
      <4> QED  BY <4>1, <4>2
    <3> QED  BY <3>4
  <2>3. \A p \in Procs : mark[p] \in Nat /\ (pc[p] # "free" => stream[p] \in Streams)
    BY Busy DEF TaskTypeOK
  <2> QED  BY <2>1, <2>2, <2>3
<1>4. ASSUME NEW p \in Procs, UNCHANGED <<tasks, log>>,
             \A q \in Procs \ {p} : /\ pc'[q] = pc[q] /\ stream'[q] = stream[q]
                                    /\ attempt'[q] = attempt[q] /\ mark'[q] = mark[q]
                                    /\ base'[q] = base[q],
             pc'[p] = "free" <=> stream'[p] = NoStream,
             pc'[p] # "free" => stream'[p] \in tasks,
             pc'[p] = "attempt" => attempt'[p] < PolicyAttempts,
             pc'[p] \in {"loaded", "landed"} => mark'[p] <= Len(log[stream'[p]]),
             pc'[p] = "loaded" => base'[p] <= mark'[p]
      PROVE  ProcessInv'
  BY <1>4
<1>5. ASSUME NEW s \in Streams, NEW p \in Procs, Execute(s, p)  PROVE  ProcessInv'
  <2>1. s \in tasks
    BY <1>5 DEF Execute, FilesInv
  <2>2. pc'[p] = "attempt" /\ stream'[p] = s /\ attempt'[p] = 0
    BY <1>5 DEF Execute, TaskTypeOK
  <2>3. \A q \in Procs \ {p} : /\ pc'[q] = pc[q] /\ stream'[q] = stream[q]
                               /\ attempt'[q] = attempt[q] /\ mark'[q] = mark[q]
                               /\ base'[q] = base[q]
    BY <1>5 DEF Execute, TaskTypeOK
  <2> QED  BY <1>4, <1>5, <2>1, <2>2, <2>3 DEF Execute, construction, data
<1>6. ASSUME NEW p \in Procs, Ended(p), UNCHANGED <<tasks, log>>  PROVE  ProcessInv'
  <2>1. pc'[p] = "free" /\ stream'[p] = NoStream
    BY <1>6 DEF Ended, TaskTypeOK
  <2>2. \A q \in Procs \ {p} : /\ pc'[q] = pc[q] /\ stream'[q] = stream[q]
                               /\ attempt'[q] = attempt[q] /\ mark'[q] = mark[q]
                               /\ base'[q] = base[q]
    BY <1>6 DEF Ended, TaskTypeOK
  <2> QED  BY <1>4, <1>6, <2>1, <2>2
<1>7. ASSUME NEW p \in Procs, Exit(p)  PROVE  ProcessInv'
  BY <1>6, <1>7 DEF Exit, construction, data
<1>8. ASSUME NEW p \in Procs, Crash(p)  PROVE  ProcessInv'
  BY <1>6, <1>8 DEF Crash, construction, data
<1>9. ASSUME NEW p \in Procs, Read(p)  PROVE  ProcessInv'
  <2>1. stream[p] \in tasks /\ stream[p] \in Streams /\ stream[p] # NoStream
    BY <1>9, Busy DEF Read
  <2>2. pc'[p] = "loaded" /\ stream'[p] = stream[p] /\ mark'[p] = Len(log[stream[p]])
    BY <1>9 DEF Read, TaskTypeOK
  <2>3. \A q \in Procs \ {p} : /\ pc'[q] = pc[q] /\ stream'[q] = stream[q]
                               /\ attempt'[q] = attempt[q] /\ mark'[q] = mark[q]
                               /\ base'[q] = base[q]
    BY <1>9 DEF Read, TaskTypeOK
  <2>4. Len(log[stream[p]]) \in Nat
    BY <2>1 DEF TaskTypeOK
  <2>5. base'[p] <= mark'[p]
    <3>1. StartsAt(stream[p]) <= Len(log[stream[p]])
      BY <2>1, <2>4 DEF StartsAt, FilesInv
    <3> QED  BY <1>9, <2>2, <3>1 DEF Read, TaskTypeOK
  <2> QED  BY <1>4, <1>9, <2>1, <2>2, <2>3, <2>4, <2>5 DEF Read, construction, data
<1>10. ASSUME NEW p \in Procs, NothingToDo(p)  PROVE  ProcessInv'
  <2>1. stream[p] \in tasks /\ stream[p] # NoStream
    BY <1>10, Busy DEF NothingToDo
  <2>2. pc'[p] = "returned" /\ \A q \in Procs \ {p} : pc'[q] = pc[q]
    BY <1>10 DEF NothingToDo, TaskTypeOK
  <2> QED  BY <1>4, <1>10, <2>1, <2>2 DEF NothingToDo, construction, data
<1>11. ASSUME NEW p \in Procs, Commit(p)  PROVE  ProcessInv'
  <2>1. stream[p] \in tasks /\ stream[p] # NoStream
    BY <1>11, Busy DEF Commit
  <2>2. pc'[p] = "landed" /\ \A q \in Procs \ {p} : pc'[q] = pc[q] /\ base'[q] = base[q]
    BY <1>11 DEF Commit, TaskTypeOK
  <2> QED  BY <1>4, <1>11, <2>1, <2>2 DEF Commit, construction
<1>12. ASSUME NEW p \in Procs, SetState(p)  PROVE  ProcessInv'
  <2>1. stream[p] \in tasks /\ stream[p] # NoStream
    BY <1>12, Busy DEF SetState
  <2>2. pc'[p] = "returned" /\ \A q \in Procs \ {p} : pc'[q] = pc[q] /\ mark'[q] = mark[q]
    BY <1>12 DEF SetState, TaskTypeOK
  <2> QED  BY <1>4, <1>12, <2>1, <2>2 DEF SetState, construction
<1>13. ASSUME NEW p \in Procs, Again(p), pc[p] # "free"  PROVE  ProcessInv'
  <2>1. stream[p] \in tasks /\ stream[p] # NoStream
    BY <1>13, Busy
  <2>2. \A q \in Procs \ {p} : pc'[q] = pc[q] /\ mark'[q] = mark[q] /\ base'[q] = base[q]
    BY <1>13 DEF Again, TaskTypeOK
  <2>3. \/ pc'[p] = "raised"
        \/ pc'[p] = "attempt" /\ attempt[p] < PolicyAttempts
    BY <1>13 DEF Again, TaskTypeOK, Stops, Outcome
  <2> QED  BY <1>4, <1>13, <2>1, <2>2, <2>3 DEF Again, construction
<1> HIDE DEF ProcessInv
<1>14. ASSUME NEW p \in Procs, RunFails(p)  PROVE  ProcessInv'
  BY <1>13, <1>14 DEF RunFails
<1>15. ASSUME NEW p \in Procs, AckLost(p)  PROVE  ProcessInv'
  BY <1>13, <1>15 DEF AckLost
<1>16. ASSUME NEW p \in Procs, SetFails(p)  PROVE  ProcessInv'
  BY <1>13, <1>16 DEF SetFails
<1> QED
  BY <1>1, <1>2, <1>3, <1>5, <1>7, <1>8, <1>9, <1>10, <1>11, <1>12, <1>14, <1>15,
     <1>16, StepCases
     DEF vars, RaiseCollision, Built, Schedule, Heartbeat, construction, process, data

-----------------------------------------------------------------------------
(* Batches.                                                                  *)

(* Change i of s is the last of its key up to change n.                      *)
Latest(s, n, i) == i \in 1..n /\ \A j \in i + 1 .. n : log[s][j] # log[s][i]

(* The newest change of some key up to n is one that no later one follows.   *)
LEMMA NewestIs ==
    ASSUME TaskTypeOK, NEW s \in Streams, NEW n \in Nat, n <= Len(log[s])
    PROVE  \A i : (\E k \in Keys : i \in Newest(s, n, k)) <=> Latest(s, n, i)
<1>1. \A i \in 1..n : log[s][i] \in Keys
  BY DEF TaskTypeOK
<1>2. \A i, k : i \in Newest(s, n, k) <=> Latest(s, n, i) /\ log[s][i] = k
  BY DEF Newest, Latest
<1>3. \A i : Latest(s, n, i) => log[s][i] \in Keys
  BY <1>1 DEF Latest
<1> QED  BY <1>2, <1>3

(* The current changes of a stream.                                          *)
LEMMA CurrentIs ==
    ASSUME TaskTypeOK, NEW s \in Streams
    PROVE  \A i : i \in Current(s) <=> Latest(s, Len(log[s]), i)
<1>1. Len(log[s]) \in Nat
  BY DEF TaskTypeOK
<1>2. \A i : i \in Current(s) <=> \E k \in Keys : i \in Newest(s, Len(log[s]), k)
  BY DEF Current
<1> QED  BY <1>1, <1>2, NewestIs

(* A change that is current is in the destination after a commit if it is    *)
(* one of those the attempt has read, or if it was there and the batch has   *)
(* no other row of its key.                                                  *)
LEMMA LandedHas ==
    ASSUME TaskTypeOK, ProcessInv, NEW p \in Procs, pc[p] = "loaded",
           NEW i \in Current(stream[p]),
           \/ i <= mark[p] /\ i \notin 1..base[p]
           \/ i \in target[stream[p]] /\ (i <= mark[p] \/ Disposition[stream[p]] = "append")
    PROVE  i \in Landed(p)
<1> DEFINE s == stream[p]
           n == Len(log[s])
<1>1. s \in Streams /\ mark[p] <= n /\ mark[p] \in Nat /\ n \in Nat
  <2>1. s \in Streams
    BY Busy
  <2>2. log[s] \in Seq(Keys) /\ mark[p] \in Nat
    BY <2>1 DEF TaskTypeOK
  <2>3. mark[p] <= Len(log[stream[p]])
    BY DEF ProcessInv
  <2>4. Len(log[s]) \in Nat
    BY <2>2
  <2> QED  BY <2>1, <2>2, <2>3, <2>4
<1>2. Latest(s, n, i)
  BY <1>1, CurrentIs
<1>3. i \in Nat /\ 1 <= i /\ i <= n /\ \A j \in i + 1 .. n : log[s][j] # log[s][i]
  BY <1>1, <1>2 DEF Latest
<1>4. \A j : j \in Batch(p) <=> Latest(s, mark[p], j) /\ j \notin 1..base[p]
  <2>1. \A j : (\E k \in Keys : j \in Newest(s, mark[p], k)) <=> Latest(s, mark[p], j)
    BY <1>1, NewestIs
  <2> QED  BY <2>1 DEF Batch
<1>5. i <= mark[p] => Latest(s, mark[p], i)
  BY <1>1, <1>3 DEF Latest
<1>6. CASE i <= mark[p] /\ i \notin 1..base[p]
  BY <1>4, <1>5, <1>6 DEF Landed
<1>7. CASE i \in target[s] /\ Disposition[s] = "append"
  BY <1>7 DEF Landed
<1>8. CASE i \in target[s] /\ i <= mark[p]
  <2>1. SUFFICES ASSUME log[s][i] \in KeysOf(s, Batch(p))
                 PROVE  i \in Batch(p)
    BY <1>8, <2>1 DEF Landed
  <2>2. PICK j \in Batch(p) : log[s][j] = log[s][i]
    BY <2>1 DEF KeysOf
  <2>3. j \in Nat /\ 1 <= j /\ j <= mark[p] /\ \A l \in j + 1 .. mark[p] : log[s][l] # log[s][j]
    BY <1>1, <1>4 DEF Latest
  <2>4. ~(i < j)
    BY <1>1, <1>3, <2>2, <2>3
  <2>5. ~(j < i)
    BY <1>1, <1>3, <1>8, <2>2, <2>3
  <2>6. i = j
    BY <1>3, <2>3, <2>4, <2>5
  <2> QED  BY <2>6
<1> QED  BY <1>6, <1>7, <1>8

(* What is current after a change and was there before it was current then.  *)
LEMMA ChangeKeepsCurrent ==
    ASSUME TaskTypeOK, NEW s \in Streams, NEW k \in Keys, Change(s, k), NEW t \in Streams
    PROVE  \A i \in Current(t)' : i <= Len(log[t]) => i \in Current(t)
<1> DEFINE n == Len(log[t])
<1>0. log[t] \in Seq(Keys) /\ n \in Nat
  BY DEF TaskTypeOK
<1>1. log'[t] = (IF t = s THEN Append(log[t], k) ELSE log[t])
  BY DEF Change, TaskTypeOK
<1>2. /\ Len(log'[t]) \in Nat /\ n <= Len(log'[t])
      /\ \A i \in 1..n : log'[t][i] = log[t][i]
      /\ \A i \in 1..Len(log'[t]) : log'[t][i] \in Keys
  <2>1. CASE t = s
    <3>1. log'[t] = Append(log[t], k)
      BY <1>1, <2>1
    <3> QED  BY <1>0, <3>1
  <2>2. CASE t # s
    <3>1. log'[t] = log[t]
      BY <1>1, <2>2
    <3> QED  BY <1>0, <3>1
  <2> QED  BY <2>1, <2>2
<1>3. ASSUME NEW i \in Current(t)', i <= n
      PROVE  i \in Current(t)
  <2>1. i \in 1..Len(log'[t]) /\ \A j \in i + 1 .. Len(log'[t]) : log'[t][j] # log'[t][i]
    BY <1>2, <1>3 DEF Current, Newest
  <2>2. i \in 1..n /\ \A j \in i + 1 .. n : log[t][j] # log[t][i]
    BY <1>0, <1>2, <1>3, <2>1
  <2>3. Latest(t, n, i)
    BY <2>2 DEF Latest
  <2> QED  BY <2>3, CurrentIs
<1> QED  BY <1>3

-----------------------------------------------------------------------------
(* What watermarks cover.                                                    *)

(* Covering depends on the log and on the target of one stream alone.        *)
LEMMA CoveredFrame ==
    ASSUME NEW s, NEW n, Covered(s, n), log'[s] = log[s], target'[s] = target[s], n' = n
    PROVE  Covered(s, n)'
BY DEF Covered, Current, Newest

(* A process that dies, ends or waits takes no coverage away.                *)
LEMMA CoveredUntouched ==
    ASSUME CoveredInv, UNCHANGED <<log, target, store>>, overlap \subseteq overlap',
           \A p \in Procs :
               /\ pc'[p] = "loaded" => pc[p] = "loaded" /\ stream'[p] = stream[p] /\ base'[p] = base[p]
               /\ pc'[p] = "landed" => pc[p] = "landed" /\ stream'[p] = stream[p] /\ mark'[p] = mark[p]
    PROVE  CoveredInv'
<1>1. ASSUME NEW s \in Streams, OneAtATime(s)'
      PROVE  /\ Covered(s, Stored(s))'
             /\ \A p \in Live(s)' :
                   /\ pc'[p] = "loaded" => Covered(s, base[p])'
                   /\ pc'[p] = "landed" => Covered(s, mark[p])'
  <2>1. OneAtATime(s)
    BY <1>1 DEF OneAtATime
  <2>2. Covered(s, Stored(s))'
    BY <2>1 DEF CoveredInv, Covered, Current, Newest, Stored
  <2>3. ASSUME NEW p \in Live(s)', pc'[p] = "loaded"
        PROVE  Covered(s, base[p])'
    BY <2>1, <2>3 DEF CoveredInv, Covered, Current, Newest, Live
  <2>4. ASSUME NEW p \in Live(s)', pc'[p] = "landed"
        PROVE  Covered(s, mark[p])'
    BY <2>1, <2>4 DEF CoveredInv, Covered, Current, Newest, Live
  <2> QED  BY <2>2, <2>3, <2>4
<1> QED  BY <1>1 DEF CoveredInv

(* A commit of a stream keeps what a watermark covers, if no later change is *)
(* covered than its batch has seen, and covers all that the batch has seen.  *)
LEMMA LandCovers ==
    ASSUME TaskTypeOK, ProcessInv, NEW p \in Procs, pc[p] = "loaded",
           target' = [target EXCEPT ![stream[p]] = Landed(p)], UNCHANGED <<log, stream>>
    PROVE  /\ \A n \in Nat :
                 /\ Covered(stream[p], n)
                 /\ n <= mark[p] \/ Disposition[stream[p]] = "append"
                 => Current(stream[p])' \intersect 1..n \subseteq target'[stream[p]]
           /\ Covered(stream[p], base[p]) =>
                 Current(stream[p])' \intersect 1..mark[p] \subseteq target'[stream[p]]
<1>1. stream[p] \in Streams
  BY Busy
<1>2. target'[stream[p]] = Landed(p) /\ Current(stream[p])' = Current(stream[p])
  BY <1>1 DEF TaskTypeOK, Current, Newest
<1>3. mark[p] \in Nat /\ base[p] \in Nat
  BY DEF TaskTypeOK
<1>4. ASSUME NEW n \in Nat, Covered(stream[p], n),
             n <= mark[p] \/ Disposition[stream[p]] = "append",
             NEW i \in Current(stream[p]) \intersect 1..n
      PROVE  i \in Landed(p)
  BY <1>3, <1>4, LandedHas DEF Covered
<1>5. ASSUME Covered(stream[p], base[p]), NEW i \in Current(stream[p]) \intersect 1..mark[p]
      PROVE  i \in Landed(p)
  BY <1>3, <1>5, LandedHas DEF Covered
<1> QED  BY <1>2, <1>4, <1>5

(* Landing the rows of a process leaves every watermark covered.             *)
LEMMA LandStep ==
    ASSUME TaskTypeOK, ProcessInv, CoveredInv, AloneInv, NEW p \in Procs, pc[p] = "loaded",
           target' = [target EXCEPT ![stream[p]] = Landed(p)],
           UNCHANGED <<log, store, stream, overlap>>,
           \A q \in Procs \ {p} : pc'[q] = pc[q] /\ base'[q] = base[q] /\ mark'[q] = mark[q],
           pc'[p] # "loaded", pc'[p] = "landed" => mark'[p] = mark[p]
    PROVE  CoveredInv'
<1> DEFINE t == stream[p]
<1>1. t \in Streams /\ p \in Live(t)
  BY Busy DEF Live
<1>2. \A s \in Streams : s # t => target'[s] = target[s]
  BY DEF TaskTypeOK
<1>3. \A s \in Streams : Stored(s) \in Nat /\ Stored(s)' = Stored(s)
  BY DEF Stored, TaskTypeOK
<1>4. \A q \in Procs : mark[q] \in Nat /\ base[q] \in Nat
  BY DEF TaskTypeOK
<1>5. ASSUME NEW s \in Streams, s # t, OneAtATime(s)'
      PROVE  /\ Covered(s, Stored(s))'
             /\ \A q \in Live(s)' :
                   /\ pc'[q] = "loaded" => Covered(s, base[q])'
                   /\ pc'[q] = "landed" => Covered(s, mark[q])'
  <2>1. OneAtATime(s) /\ Live(s)' = Live(s) /\ p \notin Live(s)
    BY <1>5 DEF OneAtATime, Live
  <2>2. Covered(s, Stored(s))'
    BY <1>2, <1>3, <1>5, <2>1 DEF CoveredInv, Covered, Current, Newest
  <2>3. ASSUME NEW q \in Live(s), pc'[q] = "loaded"  PROVE  Covered(s, base[q])'
    <3>1. q \in Procs /\ q # p /\ pc[q] = "loaded" /\ base'[q] = base[q]
      BY <2>1, <2>3 DEF Live
    <3>2. Covered(s, base[q])
      BY <2>1, <3>1 DEF CoveredInv
    <3> QED  BY <1>2, <1>5, <3>1, <3>2 DEF Covered, Current, Newest
  <2>4. ASSUME NEW q \in Live(s), pc'[q] = "landed"  PROVE  Covered(s, mark[q])'
    <3>1. q \in Procs /\ q # p /\ pc[q] = "landed" /\ mark'[q] = mark[q]
      BY <2>1, <2>4 DEF Live
    <3>2. Covered(s, mark[q])
      BY <2>1, <3>1 DEF CoveredInv
    <3> QED  BY <1>2, <1>5, <3>1, <3>2 DEF Covered, Current, Newest
  <2> QED  BY <2>1, <2>2, <2>3, <2>4
<1>6. ASSUME OneAtATime(t)'
      PROVE  /\ Covered(t, Stored(t))'
             /\ \A q \in Live(t)' :
                   /\ pc'[q] = "loaded" => Covered(t, base[q])'
                   /\ pc'[q] = "landed" => Covered(t, mark[q])'
  <2>1. OneAtATime(t) /\ t' = t /\ Live(t)' = Live(t)
    BY <1>6 DEF OneAtATime, Live
  <2>2. \/ Disposition[t] = "append"
        \/ Stored(t) <= mark[p] /\ \A q \in Live(t) : q = p
    BY <1>1, <2>1 DEF AloneInv, OneAtATime
  <2>3. \A n \in Nat : Covered(t, n) /\ (n <= mark[p] \/ Disposition[t] = "append")
                          => Current(t)' \intersect 1..n \subseteq target'[t]
    BY LandCovers
  <2>4. Current(t)' \intersect 1..mark[p] \subseteq target'[t]
    BY <1>1, <2>1, LandCovers DEF CoveredInv
  <2>5. Covered(t, Stored(t))'
    <3>1. Covered(t, Stored(t))
      BY <1>1, <2>1 DEF CoveredInv
    <3>2. Current(t)' \intersect 1..Stored(t) \subseteq target'[t]
      BY <1>1, <1>3, <2>2, <2>3, <3>1
    <3> QED  BY <1>1, <1>3, <2>1, <3>2 DEF Covered
  <2>6. ASSUME NEW q \in Live(t), q # p, pc'[q] = "loaded"  PROVE  Covered(t, base[q])'
    <3>1. Disposition[t] = "append" /\ q \in Procs
      BY <2>2, <2>6 DEF Live
    <3>2. pc[q] = "loaded" /\ base'[q] = base[q]
      BY <2>6, <3>1
    <3>3. Covered(t, base[q])
      BY <1>1, <2>1, <2>6, <3>2 DEF CoveredInv
    <3> QED  BY <1>4, <2>1, <2>3, <3>1, <3>2, <3>3 DEF Covered
  <2>7. ASSUME NEW q \in Live(t), q # p, pc'[q] = "landed"  PROVE  Covered(t, mark[q])'
    <3>1. Disposition[t] = "append" /\ q \in Procs
      BY <2>2, <2>7 DEF Live
    <3>2. pc[q] = "landed" /\ mark'[q] = mark[q]
      BY <2>7, <3>1
    <3>3. Covered(t, mark[q])
      BY <1>1, <2>1, <2>7, <3>2 DEF CoveredInv
    <3> QED  BY <1>4, <2>1, <2>3, <3>1, <3>2, <3>3 DEF Covered
  <2>8. pc'[p] = "landed" => Covered(t, mark[p])'
    BY <2>1, <2>4 DEF Covered
  <2> QED  BY <2>1, <2>5, <2>6, <2>7, <2>8
<1>7. t' = t
  OBVIOUS
<1> HIDE DEF t
<1>8. ASSUME NEW s \in Streams, OneAtATime(s)'
      PROVE  /\ Covered(s, Stored(s))'
             /\ \A q \in Live(s)' :
                   /\ pc'[q] = "loaded" => Covered(s, base[q])'
                   /\ pc'[q] = "landed" => Covered(s, mark[q])'
  <2>1. CASE s # t
    BY <1>5, <1>8, <2>1
  <2>2. CASE s = t
    BY <1>6, <1>7, <1>8, <2>2 DEF OneAtATime, Covered, Current, Newest, Live, Stored
  <2> QED  BY <2>1, <2>2
<1> QED  BY <1>8 DEF CoveredInv

(* Every step keeps the watermarks covered.                                  *)
LEMMA CoveredStep ==
    ASSUME TaskTypeOK, FilesInv, ProcessInv, CoveredInv, AloneInv, [Next]_vars
    PROVE  CoveredInv'
<1>1. ASSUME UNCHANGED <<log, target, store, pc, stream, base, mark, overlap>>
      PROVE  CoveredInv'
  BY <1>1, CoveredUntouched
<1>2. ASSUME NEW s \in Streams, NEW k \in Keys, Change(s, k)  PROVE  CoveredInv'
  <2>1. UNCHANGED <<tasks, target, store, pc, stream, base, mark, overlap>>
    BY <1>2 DEF Change, construction, process
  <2>2. \A t \in Streams : Current(t)' \intersect 1..Len(log[t]) \subseteq Current(t)
    <3>1. \A t \in Streams : \A i \in Current(t)' : i <= Len(log[t]) => i \in Current(t)
      BY <1>2, ChangeKeepsCurrent
    <3>2. \A t \in Streams : \A i \in 1..Len(log[t]) : i <= Len(log[t])
      BY DEF TaskTypeOK
    <3> QED  BY <3>1, <3>2
  <2>3. ASSUME NEW t \in Streams, NEW n \in Nat, n <= Len(log[t]), Covered(t, n)
        PROVE  Current(t)' \intersect 1..n \subseteq target'[t]
    <3>1. 1..n \subseteq 1..Len(log[t])
      BY <2>3 DEF TaskTypeOK
    <3> QED  BY <2>1, <2>2, <2>3, <3>1 DEF Covered
  <2>4. ASSUME NEW t \in Streams, OneAtATime(t)'
        PROVE  /\ Covered(t, Stored(t))'
               /\ \A p \in Live(t)' :
                     /\ pc'[p] = "loaded" => Covered(t, base[p])'
                     /\ pc'[p] = "landed" => Covered(t, mark[p])'
    <3>1. OneAtATime(t) /\ Live(t)' = Live(t) /\ Stored(t)' = Stored(t)
      BY <2>1, <2>4 DEF OneAtATime, Live, Stored
    <3>2. Covered(t, Stored(t))'
      <4>1. CASE t \in tasks
        <5>1. Stored(t) \in Nat /\ Stored(t) <= Len(log[t])
          BY <4>1 DEF FilesInv, Stored, TaskTypeOK
        <5> QED  BY <2>3, <3>1, <5>1 DEF CoveredInv, Covered
      <4>2. CASE t \notin tasks
        <5>1. s # t /\ log[t] = <<>>
          BY <1>2, <4>2 DEF Change, FilesInv
        <5>2. log'[t] = <<>>
          BY <1>2, <5>1 DEF Change, TaskTypeOK
        <5>3. Current(t)' = {}
          BY <5>2 DEF Current, Newest
        <5> QED  BY <5>3 DEF Covered
      <4> QED  BY <4>1, <4>2
    <3>3. ASSUME NEW p \in Live(t), pc[p] = "landed"  PROVE  Covered(t, mark[p])'
      <4>1. mark[p] \in Nat /\ mark[p] <= Len(log[t])
        BY <3>3 DEF Live, ProcessInv, TaskTypeOK
      <4> QED  BY <2>1, <2>3, <3>1, <3>3, <4>1 DEF CoveredInv, Covered
    <3>4. ASSUME NEW p \in Live(t), pc[p] = "loaded"  PROVE  Covered(t, base[p])'
      <4>1. base[p] \in Nat /\ base[p] <= Len(log[t])
        BY <3>4, SMTT(20) DEF Live, ProcessInv, TaskTypeOK
      <4> QED  BY <2>1, <2>3, <3>1, <3>4, <4>1 DEF CoveredInv, Covered
    <3> QED  BY <2>1, <3>1, <3>2, <3>3, <3>4
  <2> QED  BY <2>4 DEF CoveredInv
<1>3. ASSUME NEW p \in Procs, Read(p)  PROVE  CoveredInv'
  <2> DEFINE s == stream[p]
  <2>1. s \in Streams
    BY <1>3, Busy DEF Read
  <2>2. UNCHANGED <<log, target, store, stream, overlap>>
    BY <1>3 DEF Read, data
  <2>3. /\ pc'[p] = "loaded" /\ base'[p] \in {0, Stored(s)}
        /\ \A q \in Procs \ {p} : pc'[q] = pc[q] /\ base'[q] = base[q] /\ mark'[q] = mark[q]
    BY <1>3 DEF Read, StartsAt, TaskTypeOK
  <2>4. ASSUME NEW t \in Streams, OneAtATime(t)'
        PROVE  /\ Covered(t, Stored(t))'
               /\ \A q \in Live(t)' :
                     /\ pc'[q] = "loaded" => Covered(t, base[q])'
                     /\ pc'[q] = "landed" => Covered(t, mark[q])'
    <3>1. OneAtATime(t) /\ Live(t)' = Live(t)
      BY <2>2, <2>4 DEF OneAtATime, Live
    <3>2. Covered(t, Stored(t)) /\ Covered(t, Stored(t))'
      BY <2>2, <3>1 DEF CoveredInv, Covered, Current, Newest, Stored
    <3>3. ASSUME NEW q \in Live(t), q # p, pc'[q] = "loaded"  PROVE  Covered(t, base[q])'
      BY <2>2, <2>3, <3>1, <3>3 DEF CoveredInv, Covered, Current, Newest, Live
    <3>4. ASSUME NEW q \in Live(t), q # p, pc'[q] = "landed"  PROVE  Covered(t, mark[q])'
      BY <2>2, <2>3, <3>1, <3>4 DEF CoveredInv, Covered, Current, Newest, Live
    <3>5. t = s => Covered(t, base[p])'
      <4>1. Covered(t, 0)
        BY DEF Covered
      <4>2. t = s => Covered(t, base'[p])
        BY <2>3, <3>2, <4>1
      <4> QED  BY <2>2, <4>2 DEF Covered, Current, Newest
    <3> QED  BY <2>3, <3>1, <3>2, <3>3, <3>4, <3>5 DEF Live
  <2> QED  BY <2>4 DEF CoveredInv
<1>4. ASSUME NEW p \in Procs, Commit(p)  PROVE  CoveredInv'
  <2>1. /\ pc'[p] = "landed"
        /\ \A q \in Procs \ {p} : pc'[q] = pc[q] /\ base'[q] = base[q] /\ mark'[q] = mark[q]
    BY <1>4 DEF Commit, TaskTypeOK
  <2> QED  BY <1>4, <2>1, LandStep DEF Commit
<1>5. ASSUME NEW p \in Procs, Again(p), pc[p] # "free"
      PROVE  /\ pc'[p] \notin {"loaded", "landed"} /\ UNCHANGED <<log, store, stream, overlap>>
             /\ \A q \in Procs \ {p} : pc'[q] = pc[q] /\ base'[q] = base[q] /\ mark'[q] = mark[q]
  BY <1>5 DEF Again, TaskTypeOK, Outcome
<1>6. ASSUME NEW p \in Procs, AckLost(p)  PROVE  CoveredInv'
  BY <1>5, <1>6, LandStep DEF AckLost
<1>7. ASSUME NEW p \in Procs, UNCHANGED <<log, target, store>>, overlap \subseteq overlap',
             pc'[p] \notin {"loaded", "landed"},
             \A q \in Procs \ {p} : /\ pc'[q] = pc[q] /\ stream'[q] = stream[q]
                                    /\ base'[q] = base[q] /\ mark'[q] = mark[q]
      PROVE  CoveredInv'
  BY <1>7, CoveredUntouched
<1>8. ASSUME NEW p \in Procs, RunFails(p)  PROVE  CoveredInv'
  BY <1>5, <1>7, <1>8 DEF RunFails
<1>9. ASSUME NEW p \in Procs, SetFails(p)  PROVE  CoveredInv'
  BY <1>5, <1>7, <1>9 DEF SetFails
<1>10. ASSUME NEW p \in Procs, NothingToDo(p)  PROVE  CoveredInv'
  <2>1. pc'[p] = "returned" /\ \A q \in Procs \ {p} : pc'[q] = pc[q]
    BY <1>10 DEF NothingToDo, TaskTypeOK
  <2> QED  BY <1>7, <1>10, <2>1 DEF NothingToDo, data
<1>11. ASSUME NEW p \in Procs, Ended(p)
       PROVE  /\ pc'[p] = "free"
              /\ \A q \in Procs \ {p} : /\ pc'[q] = pc[q] /\ stream'[q] = stream[q]
                                        /\ base'[q] = base[q] /\ mark'[q] = mark[q]
  BY <1>11 DEF Ended, TaskTypeOK
<1>12. ASSUME NEW p \in Procs, Exit(p)  PROVE  CoveredInv'
  BY <1>7, <1>11, <1>12 DEF Exit, data
<1>13. ASSUME NEW p \in Procs, Crash(p)  PROVE  CoveredInv'
  BY <1>7, <1>11, <1>13 DEF Crash, data
<1>14. ASSUME NEW s \in Streams, NEW p \in Procs, Execute(s, p)  PROVE  CoveredInv'
  <2>1. /\ pc'[p] = "attempt" /\ overlap \subseteq overlap'
        /\ \A q \in Procs \ {p} : pc'[q] = pc[q] /\ stream'[q] = stream[q]
    BY <1>14 DEF Execute, TaskTypeOK
  <2> QED  BY <1>7, <1>14, <2>1 DEF Execute, data
<1>15. ASSUME NEW p \in Procs, SetState(p)  PROVE  CoveredInv'
  <2> DEFINE s == stream[p]
  <2>1. s \in tasks /\ s \in Streams /\ p \in Live(s)
    BY <1>15, Busy DEF SetState, Live
  <2>2. UNCHANGED <<log, target, stream, base, overlap>>
    BY <1>15 DEF SetState
  <2>3. /\ pc[p] = "landed" /\ pc'[p] = "returned"
        /\ \A q \in Procs \ {p} : pc'[q] = pc[q] /\ mark'[q] = mark[q]
        /\ store' = [store EXCEPT ![Sanitized[s]] = mark[p]]
    BY <1>15 DEF SetState, TaskTypeOK
  <2>4. \A t \in tasks : Stored(t)' = IF t = s THEN mark[p] ELSE Stored(t)
    <3>0. tasks \subseteq Streams
      BY DEF TaskTypeOK
    <3>1. \A t \in tasks : t \in Streams /\ (Sanitized[t] = Sanitized[s] <=> t = s)
      BY <2>1, <3>0 DEF FilesInv
    <3>2. \A f \in Streams : store'[f] = IF f = Sanitized[s] THEN mark[p] ELSE store[f]
      BY <2>3 DEF TaskTypeOK
    <3> HIDE DEF s
    <3> QED  BY <2>1, <3>1, <3>2 DEF Stored
  <2>5. ASSUME NEW t \in Streams, OneAtATime(t)'
        PROVE  /\ Covered(t, Stored(t))'
               /\ \A q \in Live(t)' :
                     /\ pc'[q] = "loaded" => Covered(t, base[q])'
                     /\ pc'[q] = "landed" => Covered(t, mark[q])'
    <3>1. OneAtATime(t) /\ Live(t)' = Live(t)
      BY <2>2, <2>5 DEF OneAtATime, Live
    <3>2. Covered(t, Stored(t))'
      <4>1. CASE t \in tasks /\ t # s
        BY <2>2, <2>4, <3>1, <4>1 DEF CoveredInv, Covered, Current, Newest
      <4>2. CASE t \in tasks /\ t = s
        <5>1. Covered(t, mark[p])
          BY <2>1, <2>3, <3>1, <4>2 DEF CoveredInv
        <5> QED  BY <2>2, <2>4, <4>2, <5>1 DEF Covered, Current, Newest
      <4>3. CASE t \notin tasks
        <5>1. log'[t] = <<>>
          BY <2>2, <4>3 DEF FilesInv
        <5>2. Current(t)' = {}
          BY <5>1 DEF Current, Newest
        <5> QED  BY <5>2 DEF Covered
      <4> QED  BY <4>1, <4>2, <4>3
    <3>3. ASSUME NEW q \in Live(t), pc'[q] = "loaded"  PROVE  Covered(t, base[q])'
      BY <2>2, <2>3, <3>1, <3>3 DEF CoveredInv, Covered, Current, Newest, Live
    <3>4. ASSUME NEW q \in Live(t), pc'[q] = "landed"  PROVE  Covered(t, mark[q])'
      BY <2>2, <2>3, <3>1, <3>4 DEF CoveredInv, Covered, Current, Newest, Live
    <3> QED  BY <3>1, <3>2, <3>3, <3>4
  <2> QED  BY <2>5 DEF CoveredInv
<1> QED
  BY <1>1, <1>2, <1>3, <1>4, <1>6, <1>8, <1>9, <1>10, <1>12, <1>13, <1>14, <1>15, StepCases
     DEF vars, AddTask, RaiseCollision, Built, Schedule, Heartbeat, construction, process, data

-----------------------------------------------------------------------------
(* Streams whose processes never overlap.                                    *)

(* A process that begins where no other of its stream is keeps them apart,   *)
(* and the watermark it stores is not behind the one before.                 *)
LEMMA AloneStep ==
    ASSUME TaskTypeOK, FilesInv, ProcessInv, AloneInv, [Next]_vars
    PROVE  AloneInv'
<1>1. ASSUME UNCHANGED store, overlap \subseteq overlap',
             \A p \in Procs : stream'[p] \in Streams => stream'[p] = stream[p],
             \A p \in Procs : pc'[p] \in {"loaded", "landed"} =>
                                 pc[p] \in {"loaded", "landed"} /\ mark'[p] = mark[p]
      PROVE  AloneInv'
  <2>1. \A s \in Streams : Live(s)' \subseteq Live(s)
    BY <1>1 DEF Live
  <2>2. \A s \in Streams : Stored(s)' = Stored(s)
    BY <1>1 DEF Stored
  <2>3. ASSUME NEW s \in Streams \ overlap'
        PROVE  /\ \A p, q \in Live(s)' : p = q
               /\ \A p \in Live(s)' : pc'[p] \in {"loaded", "landed"} => Stored(s)' <= mark'[p]
    <3>1. \A p \in Live(s)' : p \in Procs /\ p \in Live(s)
      BY <2>1, <2>3 DEF Live
    <3>2. s \in Streams \ overlap
      BY <1>1, <2>3
    <3>3. ASSUME NEW p \in Live(s)', NEW q \in Live(s)'  PROVE  p = q
      BY <3>1, <3>2, <3>3 DEF AloneInv
    <3>4. ASSUME NEW p \in Live(s)', pc'[p] \in {"loaded", "landed"}
          PROVE  Stored(s)' <= mark'[p]
      <4>1. p \in Live(s) /\ pc[p] \in {"loaded", "landed"} /\ mark'[p] = mark[p]
        BY <1>1, <3>1, <3>4
      <4>2. Stored(s) <= mark[p]
        BY <3>2, <4>1 DEF AloneInv
      <4> QED  BY <2>2, <4>1, <4>2
    <3> QED  BY <3>3, <3>4
  <2> QED  BY <2>3 DEF AloneInv
<1>2. ASSUME NEW s \in Streams, NEW p \in Procs, Execute(s, p)  PROVE  AloneInv'
  <2>1. /\ stream[p] = NoStream /\ pc'[p] = "attempt"
        /\ \A q \in Procs : stream'[q] = IF q = p THEN s ELSE stream[q]
        /\ \A q \in Procs \ {p} : pc'[q] = pc[q]
        /\ UNCHANGED <<mark, store>>
        /\ overlap' = IF Live(s) = {} THEN overlap ELSE overlap \union {s}
    BY <1>2 DEF Execute, ProcessInv, TaskTypeOK, data
  <2>2. \A t \in Streams : Live(t)' = IF t = s THEN Live(t) \union {p} ELSE Live(t)
    BY <2>1, ZenonT(30) DEF Live
  <2> QED  BY <2>1, <2>2 DEF AloneInv, Live, Stored
<1>3. ASSUME NEW p \in Procs, Ended(p)
      PROVE  /\ pc'[p] = "free" /\ stream'[p] \notin Streams
             /\ \A q \in Procs \ {p} : pc'[q] = pc[q] /\ stream'[q] = stream[q] /\ mark'[q] = mark[q]
  BY <1>3 DEF Ended, TaskTypeOK
<1>4. ASSUME NEW p \in Procs, Exit(p)  PROVE  AloneInv'
  BY <1>1, <1>3, <1>4 DEF Exit, data
<1>5. ASSUME NEW p \in Procs, Crash(p)  PROVE  AloneInv'
  BY <1>1, <1>3, <1>5 DEF Crash, data
<1>6. ASSUME NEW p \in Procs, Read(p)  PROVE  AloneInv'
  <2>1. stream[p] \in tasks /\ stream[p] \in Streams
    BY <1>6, Busy DEF Read
  <2>2. /\ mark'[p] = Len(log[stream[p]])
        /\ \A q \in Procs \ {p} : pc'[q] = pc[q] /\ mark'[q] = mark[q]
        /\ UNCHANGED <<store, stream, overlap>>
    BY <1>6 DEF Read, TaskTypeOK, data
  <2>3. \A s \in Streams : Live(s)' = Live(s) /\ Stored(s)' = Stored(s)
    BY <2>2 DEF Live, Stored
  <2>4. \A s \in Streams : p \in Live(s) => Stored(s) <= mark'[p]
    BY <2>1, <2>2 DEF FilesInv, Live
  <2>5. ASSUME NEW s \in Streams \ overlap, NEW q \in Live(s), pc'[q] \in {"loaded", "landed"}
        PROVE  Stored(s) <= mark'[q]
    BY <2>2, <2>4, <2>5 DEF AloneInv, Live
  <2> QED  BY <2>2, <2>3, <2>5 DEF AloneInv
<1>7. ASSUME NEW p \in Procs, NothingToDo(p)  PROVE  AloneInv'
  <2>1. pc'[p] = "returned" /\ \A q \in Procs \ {p} : pc'[q] = pc[q]
    BY <1>7 DEF NothingToDo, TaskTypeOK
  <2> QED  BY <1>1, <1>7, <2>1 DEF NothingToDo, data
<1>8. ASSUME NEW p \in Procs, Commit(p)  PROVE  AloneInv'
  <2>1. pc[p] = "loaded" /\ \A q \in Procs \ {p} : pc'[q] = pc[q]
    BY <1>8 DEF Commit, TaskTypeOK
  <2> QED  BY <1>1, <1>8, <2>1 DEF Commit
<1>9. ASSUME NEW p \in Procs, SetState(p)  PROVE  AloneInv'
  <2> DEFINE s == stream[p]
  <2>1. s \in tasks /\ s \in Streams /\ p \in Live(s)
    BY <1>9, Busy DEF SetState, Live
  <2>2. /\ pc'[p] = "returned" /\ \A q \in Procs \ {p} : pc'[q] = pc[q] /\ mark'[q] = mark[q]
        /\ UNCHANGED <<stream, overlap>>
    BY <1>9 DEF SetState, TaskTypeOK
  <2>3. \A t \in tasks : t # s => Stored(t)' = Stored(t)
    <3>1. \A t \in tasks : t \in Streams /\ (Sanitized[t] = Sanitized[s] => t = s)
      BY <2>1 DEF FilesInv, TaskTypeOK
    <3>2. \A f \in Streams : f # Sanitized[s] => store'[f] = store[f]
      BY <1>9 DEF SetState, TaskTypeOK
    <3> HIDE DEF s
    <3> QED  BY <3>1, <3>2 DEF Stored
  <2>4. \A t \in Streams : Live(t)' = Live(t) /\ (t \notin tasks => Live(t) = {})
    BY <2>2, LiveTasks DEF Live
  <2>5. ASSUME NEW t \in Streams \ overlap, NEW q \in Live(t), pc'[q] \in {"loaded", "landed"}
        PROVE  Stored(t)' <= mark'[q]
    <3>1. q \in Procs /\ q # p /\ t \in tasks
      BY <2>2, <2>4, <2>5 DEF Live
    <3>2. t # s
      BY <2>1, <2>5, <3>1 DEF AloneInv
    <3> QED  BY <2>2, <2>3, <2>5, <3>1, <3>2 DEF AloneInv
  <2> QED  BY <2>2, <2>4, <2>5 DEF AloneInv
<1>10. ASSUME NEW p \in Procs, Again(p)  PROVE  AloneInv'
  <2>1. pc'[p] \notin {"loaded", "landed"} /\ \A q \in Procs \ {p} : pc'[q] = pc[q] /\ mark'[q] = mark[q]
    BY <1>10 DEF Again, Outcome, TaskTypeOK
  <2> QED  BY <1>1, <1>10, <2>1 DEF Again
<1>11. ASSUME NEW p \in Procs, RunFails(p)  PROVE  AloneInv'
  BY <1>10, <1>11 DEF RunFails
<1>12. ASSUME NEW p \in Procs, AckLost(p)  PROVE  AloneInv'
  BY <1>10, <1>12 DEF AckLost
<1>13. ASSUME NEW p \in Procs, SetFails(p)  PROVE  AloneInv'
  BY <1>10, <1>13 DEF SetFails
<1>14. ASSUME UNCHANGED <<store, overlap, stream, pc, mark>>  PROVE  AloneInv'
  BY <1>1, <1>14
<1> QED
  BY <1>2, <1>4, <1>5, <1>6, <1>7, <1>8, <1>9, <1>11, <1>12, <1>13, <1>14, StepCases
     DEF vars, AddTask, RaiseCollision, Built, Schedule, Heartbeat, Change, construction,
         process, data

(* What Airflow takes for a success has stored what was due.                 *)
LEMMA DueStep ==
    ASSUME TaskTypeOK, FilesInv, AirflowInv, ProcessInv, AloneInv, DueInv, [Next]_vars
    PROVE  DueInv'
<1>1. ASSUME UNCHANGED <<store, due>>, overlap \subseteq overlap',
             \A s \in Streams : task'[s] = "success" => task[s] = "success",
             \A s \in Streams, p \in Procs :
                 owner'[s] = {p} /\ stream'[p] = s /\ pc'[p] \in {"loaded", "landed", "returned"} =>
                    /\ owner[s] = {p} /\ stream[p] = s
                    /\ pc'[p] \in {"loaded", "landed"} =>
                          pc[p] \in {"loaded", "landed"} /\ mark'[p] = mark[p]
                    /\ pc'[p] = "returned" => pc[p] = "returned"
      PROVE  DueInv'
  <2>1. \A s \in Streams : Stored(s)' = Stored(s)
    BY <1>1 DEF Stored
  <2> QED  BY <1>1, <2>1 DEF DueInv, Live
<1>2. ASSUME UNCHANGED <<store, due, overlap, task, owner, stream, pc, mark>>  PROVE  DueInv'
  BY <1>1, <1>2
<1>3. ASSUME NEW s \in Streams, Schedule(s)  PROVE  DueInv'
  <2>1. /\ UNCHANGED <<store, overlap, owner, stream, pc, mark>>
        /\ owner[s] = {} /\ task'[s] = "queued"
        /\ \A t \in Streams : t # s => task'[t] = task[t] /\ due'[t] = due[t]
    BY <1>3 DEF Schedule, AirflowInv, TaskTypeOK, process, data
  <2>2. \A t \in Streams : Stored(t)' = Stored(t)
    BY <2>1 DEF Stored
  <2>3. \A t \in Streams : Live(t)' = Live(t)
    BY <2>1 DEF Live
  <2> QED  BY <2>1, <2>2, <2>3 DEF DueInv
<1>4. ASSUME NEW s \in Streams, NEW p \in Procs, Execute(s, p)  PROVE  DueInv'
  <2>1. /\ UNCHANGED <<store, due, mark>> /\ overlap \subseteq overlap'
        /\ task'[s] = "running" /\ owner'[s] = {p} /\ pc'[p] = "attempt" /\ stream'[p] = s
        /\ \A t \in Streams : t # s => task'[t] = task[t] /\ owner'[t] = owner[t]
        /\ \A q \in Procs : q # p => pc'[q] = pc[q] /\ stream'[q] = stream[q]
    BY <1>4 DEF Execute, TaskTypeOK, data
  <2> QED  BY <1>1, <2>1
<1>5. ASSUME NEW s \in Streams, RetryOrFail(s)
      PROVE  /\ task'[s] # "success" /\ owner'[s] = {}
             /\ \A t \in Streams : t # s => task'[t] = task[t] /\ owner'[t] = owner[t]
  BY <1>5 DEF RetryOrFail, TaskTypeOK
<1>6. ASSUME NEW s \in Streams, Heartbeat(s)  PROVE  DueInv'
  BY <1>1, <1>5, <1>6 DEF Heartbeat, process, data
<1>7. ASSUME NEW p \in Procs, Ended(p)
      PROVE  /\ pc'[p] = "free"
             /\ \A q \in Procs \ {p} : pc'[q] = pc[q] /\ stream'[q] = stream[q] /\ mark'[q] = mark[q]
  BY <1>7 DEF Ended, TaskTypeOK
<1>8. ASSUME NEW p \in Procs, Exit(p)  PROVE  DueInv'
  <2> DEFINE s == stream[p]
  <2>1. s \in Streams /\ Ended(p) /\ UNCHANGED <<due, store, overlap>>
    BY <1>8, Busy DEF Exit, data
  <2>2. CASE owner[s] # {p}
    BY <1>1, <1>7, <1>8, <2>1, <2>2 DEF Exit
  <2>3. CASE owner[s] = {p} /\ pc[p] = "raised"
    <3>1. RetryOrFail(s)
      BY <1>8, <2>3 DEF Exit
    <3> HIDE DEF s
    <3> QED  BY <1>1, <1>5, <1>7, <2>1, <3>1
  <2>4. CASE owner[s] = {p} /\ pc[p] = "returned"
    <3>1. s \in Discovered \ overlap => due[s] <= Stored(s)
      BY <2>1, <2>4 DEF DueInv, Live
    <3>2. /\ task' = [task EXCEPT ![s] = "success"]
          /\ owner' = [owner EXCEPT ![s] = {}]
      BY <1>8, <2>4 DEF Exit
    <3>4. \A t \in Streams : Stored(t)' = Stored(t)
      BY <2>1 DEF Stored
    <3>5. /\ task'[s] = "success" /\ owner'[s] = {}
          /\ \A t \in Streams : t # s => task'[t] = task[t] /\ owner'[t] = owner[t]
      BY <2>1, <3>2 DEF TaskTypeOK
    <3> HIDE DEF s
    <3>6. ASSUME NEW t \in Discovered \ overlap', NEW q \in Live(t)', owner'[t] = {q}
          PROVE  /\ pc'[q] \in {"loaded", "landed"} => due'[t] <= mark'[q]
                 /\ pc'[q] = "returned" => due'[t] <= Stored(t)'
      <4>1. t \in Streams /\ t # s /\ owner[t] = {q} /\ q \in Procs
        BY <3>5, <3>6 DEF Live
      <4>2. CASE q = p
        BY <1>7, <2>1, <4>2
      <4>3. CASE q # p
        BY <1>7, <2>1, <3>4, <3>6, <4>1, <4>3 DEF DueInv, Live
      <4> QED  BY <4>2, <4>3
    <3>7. ASSUME NEW t \in Discovered \ overlap', task'[t] = "success"
          PROVE  due'[t] <= Stored(t)'
      BY <2>1, <3>1, <3>4, <3>5, <3>7 DEF DueInv
    <3> QED  BY <3>6, <3>7 DEF DueInv
  <2> QED  BY <1>8, <2>2, <2>3, <2>4 DEF Exit
<1>9. ASSUME NEW p \in Procs, Crash(p)  PROVE  DueInv'
  BY <1>1, <1>7, <1>9 DEF Crash, airflow, data
<1>10. ASSUME NEW p \in Procs, Read(p)  PROVE  DueInv'
  <2>1. stream[p] \in tasks /\ stream[p] \in Streams
    BY <1>10, Busy DEF Read
  <2>2. /\ pc'[p] = "loaded" /\ mark'[p] = Len(log[stream[p]])
        /\ \A q \in Procs \ {p} : pc'[q] = pc[q] /\ mark'[q] = mark[q]
        /\ UNCHANGED <<store, stream, overlap, task, owner, due>>
    BY <1>10 DEF Read, TaskTypeOK, data, airflow
  <2>3. \A s \in Streams : Live(s)' = Live(s) /\ Stored(s)' = Stored(s)
    BY <2>2 DEF Live, Stored
  <2>4. due[stream[p]] <= mark'[p]
    BY <2>1, <2>2 DEF FilesInv
  <2>5. ASSUME NEW s \in Discovered \ overlap, NEW q \in Live(s), owner[s] = {q}
        PROVE  /\ pc'[q] \in {"loaded", "landed"} => due[s] <= mark'[q]
               /\ pc'[q] = "returned" => due[s] <= Stored(s)
    BY <2>2, <2>4, <2>5 DEF DueInv, Live
  <2> QED  BY <2>2, <2>3, <2>5 DEF DueInv
<1>11. ASSUME NEW p \in Procs, NothingToDo(p)  PROVE  DueInv'
  <2>1. /\ stream[p] \notin Discovered /\ \A q \in Procs \ {p} : pc'[q] = pc[q]
        /\ UNCHANGED <<store, stream, mark, overlap, task, owner, due>>
    BY <1>11 DEF NothingToDo, TaskTypeOK, data, airflow
  <2>2. \A s \in Streams : Stored(s)' = Stored(s)
    BY <2>1 DEF Stored
  <2>3. ASSUME NEW s \in Discovered \ overlap, NEW q \in Live(s)'  PROVE  q \in Live(s) /\ pc'[q] = pc[q]
    BY <2>1, <2>3 DEF Live
  <2> QED  BY <2>1, <2>2, <2>3 DEF DueInv
<1>12. ASSUME NEW p \in Procs, Commit(p)  PROVE  DueInv'
  <2>1. pc[p] = "loaded" /\ pc'[p] = "landed" /\ \A q \in Procs \ {p} : pc'[q] = pc[q]
    BY <1>12 DEF Commit, TaskTypeOK
  <2> QED  BY <1>1, <1>12, <2>1 DEF Commit, airflow
<1>13. ASSUME NEW p \in Procs, SetState(p)  PROVE  DueInv'
  <2> DEFINE s == stream[p]
  <2>1. s \in tasks /\ s \in Streams /\ p \in Live(s)
    BY <1>13, Busy DEF SetState, Live
  <2>2. /\ pc[p] = "landed" /\ pc'[p] = "returned"
        /\ \A q \in Procs \ {p} : pc'[q] = pc[q] /\ mark'[q] = mark[q]
        /\ UNCHANGED <<stream, overlap, task, owner, due>>
    BY <1>13 DEF SetState, TaskTypeOK, airflow
  <2>3. \A t \in tasks : Stored(t)' = IF t = s THEN mark[p] ELSE Stored(t)
    <3>0. tasks \subseteq Streams
      BY DEF TaskTypeOK
    <3>1. \A t \in tasks : t \in Streams /\ (Sanitized[t] = Sanitized[s] <=> t = s)
      BY <2>1, <3>0 DEF FilesInv
    <3>2. \A f \in Streams : store'[f] = IF f = Sanitized[s] THEN mark[p] ELSE store[f]
      BY <1>13 DEF SetState, TaskTypeOK
    <3> HIDE DEF s
    <3> QED  BY <2>1, <3>1, <3>2 DEF Stored
  <2>4. \A t \in Streams : Live(t)' = Live(t) /\ (t \notin tasks => Live(t) = {} /\ task[t] = "none")
    BY <2>2, LiveTasks DEF Live, FilesInv
  <2>5. s \notin overlap => Stored(s) <= mark[p] /\ \A q \in Live(s) : q = p
    BY <2>1, <2>2 DEF AloneInv
  <2>6. s \in Discovered \ overlap /\ owner[s] = {p} => due[s] <= mark[p]
    BY <2>1, <2>2 DEF DueInv
  <2>7. mark[p] \in Nat /\ \A t \in Streams : Stored(t) \in Nat /\ due[t] \in Nat
    BY DEF TaskTypeOK, Stored
  <2> HIDE DEF s
  <2>8. ASSUME NEW t \in Discovered \ overlap, task[t] = "success"  PROVE  due[t] <= Stored(t)'
    <3>1. t \in Streams /\ t \in tasks /\ due[t] <= Stored(t)
      BY <2>4, <2>8 DEF DueInv
    <3>2. CASE t = s
      BY <2>3, <2>5, <2>7, <2>8, <3>1, <3>2
    <3>3. CASE t # s
      BY <2>3, <3>1, <3>3
    <3> QED  BY <3>2, <3>3
  <2>9. ASSUME NEW t \in Discovered \ overlap, NEW q \in Live(t), owner[t] = {q}
        PROVE  /\ pc'[q] \in {"loaded", "landed"} => due[t] <= mark'[q]
               /\ pc'[q] = "returned" => due[t] <= Stored(t)'
    <3>1. t \in Streams /\ t \in tasks /\ q \in Procs
      BY <2>4, <2>9 DEF Live
    <3>2. CASE t = s
      BY <2>2, <2>3, <2>5, <2>6, <2>9, <3>1, <3>2
    <3>3. CASE t # s
      <4>1. q # p
        BY <2>9, <3>3 DEF Live, s
      <4> QED  BY <2>2, <2>3, <2>9, <3>1, <3>3, <4>1 DEF DueInv
    <3> QED  BY <3>2, <3>3
  <2> QED  BY <2>2, <2>4, <2>8, <2>9 DEF DueInv
<1>14. ASSUME NEW p \in Procs, Again(p)  PROVE  DueInv'
  <2>1. pc'[p] \notin {"loaded", "landed", "returned"}
        /\ \A q \in Procs \ {p} : pc'[q] = pc[q] /\ mark'[q] = mark[q]
    BY <1>14 DEF Again, Outcome, TaskTypeOK
  <2> QED  BY <1>1, <1>14, <2>1 DEF Again, airflow
<1>15. ASSUME NEW p \in Procs, RunFails(p)  PROVE  DueInv'
  BY <1>14, <1>15 DEF RunFails
<1>16. ASSUME NEW p \in Procs, AckLost(p)  PROVE  DueInv'
  BY <1>14, <1>16 DEF AckLost
<1>17. ASSUME NEW p \in Procs, SetFails(p)  PROVE  DueInv'
  BY <1>14, <1>17 DEF SetFails
<1> QED
  BY <1>2, <1>3, <1>4, <1>6, <1>8, <1>9, <1>10, <1>11, <1>12, <1>13, <1>15, <1>16, <1>17, StepCases
     DEF vars, AddTask, RaiseCollision, Built, Change, construction, process, data, airflow

-----------------------------------------------------------------------------
(* The theorems.                                                             *)

(* The group begins with nothing built, run or stored.                       *)
LEMMA TaskInitially ==
    ASSUME Init
    PROVE  TaskInv
<1> USE DEF Init
<1>1. TaskTypeOK
  BY DEF TaskTypeOK
<1>2. \A s \in Streams : Stored(s) = 0 /\ Live(s) = {} /\ log[s] = <<>> /\ Len(log[s]) = 0
  BY DEF Stored, Live
<1>3. FilesInv
  BY <1>2 DEF FilesInv
<1>4. AirflowInv /\ ProcessInv
  BY DEF AirflowInv, ProcessInv
<1>5. CoveredInv
  BY <1>2 DEF CoveredInv, Covered
<1>6. AloneInv /\ DueInv
  BY <1>2 DEF AloneInv, DueInv
<1> QED  BY <1>1, <1>3, <1>4, <1>5, <1>6 DEF TaskInv

(* The inductive invariant of the task group: files of their own, processes  *)
(* that run tasks of the group, and watermarks that are covered, whatever    *)
(* Airflow does and whatever fails.                                          *)
THEOREM TaskInvariant == Spec => []TaskInv
<1>1. TaskInv /\ [Next]_vars => TaskInv'
  BY TypeStep, FilesStep, AirflowStep, ProcessStep, CoveredStep, AloneStep, DueStep DEF TaskInv
<1> QED  BY <1>1, TaskInitially, PTL DEF Spec

(* The types of the group; no execution makes more than PolicyAttempts calls *)
(* of run(), and no schedule more than TaskTries executions.                 *)
THEOREM TaskTypeCorrect == Spec => []TaskTypeOK
BY TaskInvariant, PTL DEF TaskInv

(* What the watermark of a stream covers is in the destination, for a merge  *)
(* stream as long as no two of its processes overlap: the retries of the     *)
(* policy, of Airflow and of the next schedule lose no update.               *)
THEOREM UpdatesKept == Spec => []NoUpdateLost
<1>1. TaskInv => NoUpdateLost
  BY DEF TaskInv, CoveredInv, OneAtATime, Covered, NoUpdateLost
<1> QED  BY <1>1, TaskInvariant, PTL

(* A task that Airflow shows as a success has brought in what there was when *)
(* it became due.                                                            *)
THEOREM SuccessMeansDelivered == Spec => []SuccessDelivers
<1>1. ASSUME TaskInv  PROVE  SuccessDelivers
  <2>1. SUFFICES ASSUME NEW s \in (tasks \intersect Discovered) \ overlap, task[s] = "success"
                 PROVE  /\ Stored(s) >= due[s]
                        /\ Current(s) \intersect 1..due[s] \subseteq target[s]
    BY DEF SuccessDelivers
  <2>2. s \in Streams /\ due[s] <= Stored(s) /\ due[s] \in Nat /\ Stored(s) \in Nat
    BY <1>1, <2>1 DEF TaskInv, TaskTypeOK, DueInv, Stored
  <2>3. Current(s) \intersect 1..Stored(s) \subseteq target[s]
    BY <1>1, <2>1, <2>2 DEF TaskInv, CoveredInv, OneAtATime, Covered
  <2>4. 1..due[s] \subseteq 1..Stored(s)
    BY <2>2
  <2> QED  BY <2>2, <2>3, <2>4
<1> QED  BY <1>1, TaskInvariant, PTL
=============================================================================
