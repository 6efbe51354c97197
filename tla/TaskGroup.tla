----------------------------- MODULE TaskGroup -----------------------------
(* PipelineTaskGroup of fflow/helpers/airflow.py: one Airflow task for each  *)
(* stream of a pipeline, each execution of a task a process that calls       *)
(* Pipeline.run, again and again as its retry policy says.  Airflow itself   *)
(* retries tasks, starts them anew on every schedule, and gives up a task    *)
(* whose heartbeat it loses, whether the process died or goes on.            *)
(*                                                                           *)
(* The changes of a stream's source are numbered 1, 2, ... by its cursor; a  *)
(* change writes one key.  What happens within run() is taken from Pipeline: *)
(* it reads the newest change of each key above the stored watermark, lands  *)
(* them together, and stores the last change it saw.                         *)
EXTENDS Integers, Sequences, FiniteSets

CONSTANTS
    Streams,         \* names of the streams
    NoStream,        \* what a free process runs
    Keys,            \* merge keys
    Procs,           \* slots for the processes Airflow runs, used from the first
    Lists,           \* the values of PipelineTaskGroup's argument streams
    Discovered,      \* the streams that the source's discover() lists
    Sanitized,       \* the name with unsafe characters replaced: _sanitize_task_id,
                     \* and the name of the state file
    Disposition,     \* write_disposition of each stream
    FullRefresh,     \* the values of full_refresh
    PolicyAttempts,  \* stop_after_attempt of retry_policy, 1 without a policy
    TaskTries,       \* 1 + retries of the PythonOperator
    Faults,          \* what may go wrong: "run", "set", "crash", "heartbeat"
    MaxChanges       \* bound: changes of a source

ASSUME TaskAssumption ==
    /\ Lists \subseteq Seq(Streams)
    /\ Discovered \subseteq Streams
    /\ NoStream \notin Streams
    /\ Keys \subseteq Nat /\ Procs \subseteq Nat
    /\ Sanitized \in [Streams -> Streams]
    /\ Disposition \in [Streams -> {"append", "merge"}]
    /\ FullRefresh \subseteq BOOLEAN
    /\ PolicyAttempts \in Nat \ {0}
    /\ TaskTries \in Nat \ {0}
    /\ Faults \subseteq {"run", "set", "crash", "heartbeat"}
    /\ MaxChanges \in Nat

VARIABLES
    dag,      \* the constructor: "building", "built", or "broken" by ValueError
    todo,     \* streams the constructor has still to go through
    tasks,    \* the streams with a PythonOperator
    full,     \* self._full_refresh
    task,     \* Airflow: the state of the task of each stream
    tries,    \* Airflow: executions of the task in this schedule
    owner,    \* Airflow: the process the task's heartbeat is expected of
    pc,       \* where each process is in _run
    stream,   \* the stream of each process
    attempt,  \* attempts of the retry policy in each process
    base,     \* the watermark the attempt started from
    mark,     \* the last change the attempt has seen
    log,      \* log[s][n]: the key that change n of the source of s wrote
    target,   \* target[s]: the changes whose row is in the destination
    store,    \* FileStateStore: the watermark in each file
    due,      \* history: the last change when the task was scheduled
    overlap   \* history: streams that two processes ran at a time

construction == <<dag, todo, tasks, full>>
airflow == <<task, tries, owner, due>>
process == <<pc, stream, attempt, base, mark>>
data == <<log, target, store>>
vars == <<construction, airflow, process, data, overlap>>

-----------------------------------------------------------------------------

Elems(q) == {q[i] : i \in 1..Len(q)}
Live(s) == {p \in Procs : stream[p] = s}

(* The rows of an attempt: the newest change up to mark of every key that    *)
(* changed above base.                                                       *)
Newest(s, n, k) == {i \in 1..n : log[s][i] = k /\ \A j \in i + 1 .. n : log[s][j] # k}
Batch(p) == (UNION {Newest(stream[p], mark[p], k) : k \in Keys}) \ 1..base[p]

(* Destination.commit: a merge takes the place of older rows of its keys.    *)
KeysOf(s, R) == {log[s][i] : i \in R}
Landed(p) ==
    LET s == stream[p] IN
    Batch(p) \union
      {i \in target[s] : Disposition[s] = "merge" => log[s][i] \notin KeysOf(s, Batch(p))}

(* A stream whose task id, and so whose state file, another one has.         *)
CollidesByName(s) == s \in tasks
Collides(s) == \E t \in tasks : Sanitized[t] = Sanitized[s]

(* The retry policy after a failed attempt: it stops after the last one and  *)
(* lets its exception out of _run.                                           *)
TriedNot(n) == n
Tried(n) == n + 1
StopsLate(n) == n > PolicyAttempts
Stops(n) == n >= PolicyAttempts
OutcomeSwallowed == "returned"
Outcome == "raised"

(* The watermark of s, and the one an attempt starts from.                   *)
Stored(s) == store[Sanitized[s]]
StartsAt(s) == IF full THEN 0 ELSE Stored(s)

Init ==
    /\ \E list \in Lists : todo = list
    /\ full \in FullRefresh
    /\ dag = "building"
    /\ tasks = {}
    /\ task = [s \in Streams |-> "none"]
    /\ tries = [s \in Streams |-> 0]
    /\ owner = [s \in Streams |-> {}]
    /\ due = [s \in Streams |-> 0]
    /\ pc = [p \in Procs |-> "free"]
    /\ stream = [p \in Procs |-> NoStream]
    /\ attempt = [p \in Procs |-> 0]
    /\ base = [p \in Procs |-> 0]
    /\ mark = [p \in Procs |-> 0]
    /\ log = [s \in Streams |-> <<>>]
    /\ target = [s \in Streams |-> {}]
    /\ store = [s \in Streams |-> 0]
    /\ overlap = {}

-----------------------------------------------------------------------------
(* PipelineTaskGroup.__init__: for stream in streams.                        *)

AddTask ==
    LET s == Head(todo) IN
    /\ dag = "building" /\ todo # <<>> /\ ~Collides(s)
    /\ tasks' = tasks \union {s}
    /\ todo' = Tail(todo)
    /\ UNCHANGED <<dag, full, airflow, process, data, overlap>>

RaiseCollision ==
    /\ dag = "building" /\ todo # <<>> /\ Collides(Head(todo))
    /\ dag' = "broken"
    /\ UNCHANGED <<todo, tasks, full, airflow, process, data, overlap>>

Built ==
    /\ dag = "building" /\ todo = <<>>
    /\ dag' = "built"
    /\ UNCHANGED <<todo, tasks, full, airflow, process, data, overlap>>

-----------------------------------------------------------------------------
(* Airflow.                                                                  *)

(* A schedule of the DAG: each of its tasks is due.                          *)
Schedule(s) ==
    /\ dag = "built" /\ s \in tasks
    /\ task[s] \in {"none", "success", "failed"}
    /\ task' = [task EXCEPT ![s] = "queued"]
    /\ due' = [due EXCEPT ![s] = Len(log[s])]
    /\ UNCHANGED <<construction, tries, owner, process, data, overlap>>

(* The callable is invoked: p = factory()                                    *)
Execute(s, p) ==
    /\ task[s] = "queued"
    /\ pc[p] = "free" /\ \A q \in Procs : q < p => pc[q] # "free"
    /\ task' = [task EXCEPT ![s] = "running"]
    /\ tries' = [tries EXCEPT ![s] = @ + 1]
    /\ owner' = [owner EXCEPT ![s] = {p}]
    /\ pc' = [pc EXCEPT ![p] = "attempt"]
    /\ stream' = [stream EXCEPT ![p] = s]
    /\ attempt' = [attempt EXCEPT ![p] = 0]
    /\ overlap' = IF Live(s) = {} THEN overlap ELSE overlap \union {s}
    /\ UNCHANGED <<construction, due, base, mark, data>>

(* The task has failed once more: it is retried or given up.                 *)
RetryOrFail(s) ==
    /\ owner' = [owner EXCEPT ![s] = {}]
    /\ IF tries[s] < TaskTries
         THEN task' = [task EXCEPT ![s] = "queued"] /\ UNCHANGED tries
         ELSE task' = [task EXCEPT ![s] = "failed"] /\ tries' = [tries EXCEPT ![s] = 0]

(* What is left of a process that has ended.                                 *)
Ended(p) ==
    /\ pc' = [pc EXCEPT ![p] = "free"]
    /\ attempt' = [attempt EXCEPT ![p] = 0]
    /\ base' = [base EXCEPT ![p] = 0]
    /\ mark' = [mark EXCEPT ![p] = 0]
    /\ stream' = [stream EXCEPT ![p] = NoStream]

(* The callable returns or raises.  Airflow heeds only the process it        *)
(* expects.                                                                  *)
Exit(p) ==
    LET s == stream[p] IN
    /\ pc[p] \in {"returned", "raised"}
    /\ IF owner[s] # {p} THEN UNCHANGED <<task, owner, tries>>
       ELSE IF pc[p] = "raised" THEN RetryOrFail(s)
       ELSE /\ task' = [task EXCEPT ![s] = "success"]
            /\ owner' = [owner EXCEPT ![s] = {}]
            /\ tries' = [tries EXCEPT ![s] = 0]
    /\ Ended(p)
    /\ UNCHANGED <<construction, due, data, overlap>>

(* The process dies.                                                         *)
Crash(p) ==
    /\ "crash" \in Faults
    /\ pc[p] \notin {"free", "returned", "raised"}
    /\ Ended(p)
    /\ UNCHANGED <<construction, airflow, data, overlap>>

(* The heartbeat is missed, because the process is gone or only slow.        *)
Heartbeat(s) ==
    /\ task[s] = "running"
    /\ owner[s] \intersect Live(s) = {} \/ "heartbeat" \in Faults
    /\ RetryOrFail(s)
    /\ UNCHANGED <<construction, due, process, data, overlap>>

-----------------------------------------------------------------------------
(* p.run(streams=[stream], ...) within the retry loop.                       *)

(* State lookup, query, extraction.                                          *)
Read(p) ==
    /\ pc[p] = "attempt" /\ stream[p] \in Discovered
    /\ pc' = [pc EXCEPT ![p] = "loaded"]
    /\ attempt' = [attempt EXCEPT ![p] = Tried(@)]
    /\ base' = [base EXCEPT ![p] = StartsAt(stream[p])]
    /\ mark' = [mark EXCEPT ![p] = Len(log[stream[p]])]
    /\ UNCHANGED <<construction, airflow, stream, data, overlap>>

(* No discovered stream matches: run() warns that there is nothing to do.    *)
NothingToDo(p) ==
    /\ pc[p] = "attempt" /\ stream[p] \notin Discovered
    /\ pc' = [pc EXCEPT ![p] = "returned"]
    /\ UNCHANGED <<construction, airflow, stream, attempt, base, mark, data, overlap>>

Commit(p) ==
    /\ pc[p] = "loaded"
    /\ target' = [target EXCEPT ![stream[p]] = Landed(p)]
    /\ pc' = [pc EXCEPT ![p] = "landed"]
    /\ base' = [base EXCEPT ![p] = 0]
    /\ UNCHANGED <<construction, airflow, stream, attempt, mark, log, store, overlap>>

SetState(p) ==
    /\ pc[p] = "landed"
    /\ store' = [store EXCEPT ![Sanitized[stream[p]]] = mark[p]]
    /\ pc' = [pc EXCEPT ![p] = "returned"]
    /\ mark' = [mark EXCEPT ![p] = 0]
    /\ UNCHANGED <<construction, airflow, stream, attempt, base, log, target, overlap>>

(* run() raises: with attempt swallows the exception until the policy stops. *)
Again(p) ==
    /\ pc' = [pc EXCEPT ![p] = IF Stops(attempt[p]) THEN Outcome ELSE "attempt"]
    /\ base' = [base EXCEPT ![p] = 0]
    /\ mark' = [mark EXCEPT ![p] = 0]
    /\ UNCHANGED <<construction, airflow, stream, attempt, log, store, overlap>>

RunFails(p) == "run" \in Faults /\ pc[p] = "loaded" /\ Again(p) /\ UNCHANGED target

(* The commit fails although the database performed it.                      *)
AckLost(p) ==
    /\ "run" \in Faults /\ pc[p] = "loaded" /\ Again(p)
    /\ target' = [target EXCEPT ![stream[p]] = Landed(p)]

SetFails(p) == "set" \in Faults /\ pc[p] = "landed" /\ Again(p) /\ UNCHANGED target

Run(p) ==
    \/ Read(p) \/ NothingToDo(p) \/ Commit(p) \/ SetState(p)
    \/ RunFails(p) \/ AckLost(p) \/ SetFails(p)

Change(s, k) ==
    /\ dag = "built" /\ s \in tasks
    /\ Len(log[s]) < MaxChanges
    /\ Keys \intersect 1..(k - 1) \subseteq Elems(log[s])   \* keys are all alike
    /\ log' = [log EXCEPT ![s] = Append(@, k)]
    /\ UNCHANGED <<construction, airflow, process, target, store, overlap>>

(* A DAG that does not import, or has no task, runs nothing.                 *)
NoTasks == (dag = "broken" \/ (dag = "built" /\ tasks = {})) /\ UNCHANGED vars

Construct == AddTask \/ RaiseCollision \/ Built

Next ==
    \/ Construct
    \/ \E s \in Streams : Schedule(s) \/ Heartbeat(s) \/ \E k \in Keys : Change(s, k)
    \/ \E s \in Streams, p \in Procs : Execute(s, p)
    \/ \E p \in Procs : Run(p) \/ Exit(p) \/ Crash(p)
    \/ NoTasks

Spec == Init /\ [][Next]_vars

(* Airflow executes queued tasks, hears of processes that ended and misses   *)
(* the heartbeat of those that died; a process goes on while it lives.       *)
(* Nothing makes Airflow miss the heartbeat of one that lives.               *)
HeartbeatGone(s) == owner[s] \intersect Live(s) = {} /\ Heartbeat(s)
Fairness ==
    /\ \A s \in Streams : WF_vars(HeartbeatGone(s) \/ \E p \in Procs : Execute(s, p))
    /\ \A p \in Procs : WF_vars(Run(p) \/ Exit(p))

FairSpec == Spec /\ Fairness
-----------------------------------------------------------------------------
(* Properties.                                                               *)

(* The types of the group, of Airflow's records and of the processes; the    *)
(* retry policy gives each execution PolicyAttempts calls of run().          *)
TaskTypeOK ==
    /\ dag \in {"building", "built", "broken"}
    /\ todo \in Seq(Streams) /\ tasks \subseteq Streams /\ full \in BOOLEAN
    /\ task \in [Streams -> {"none", "queued", "running", "success", "failed"}]
    /\ tries \in [Streams -> 0..TaskTries]
    /\ owner \in [Streams -> SUBSET Procs]
    /\ pc \in [Procs -> {"free", "attempt", "loaded", "landed", "returned", "raised"}]
    /\ stream \in [Procs -> Streams \union {NoStream}]
    /\ attempt \in [Procs -> 0..PolicyAttempts]
    /\ base \in [Procs -> 0..MaxChanges] /\ mark \in [Procs -> 0..MaxChanges]
    /\ log \in [Streams -> Seq(Keys)]
    /\ target \in [Streams -> SUBSET (1..MaxChanges)]
    /\ store \in [Streams -> 0..MaxChanges] /\ due \in [Streams -> 0..MaxChanges]
    /\ overlap \subseteq Streams

Current(s) == UNION {Newest(s, Len(log[s]), k) : k \in Keys}

(* No update is lost however attempts, retries and crashes follow one        *)
(* another, and for a stream that appends not even if two processes run it   *)
(* at a time: what the watermark covers is in the destination.  A merge      *)
(* stream needs its runs one at a time: a slow run may put back an old row   *)
(* over a newer one that the watermark covers.  No stream lives by another   *)
(* one's watermark, as no two tasks of a group share a state file.           *)
NoUpdateLost ==
    \A s \in Streams : Disposition[s] = "append" \/ s \notin overlap =>
        Current(s) \intersect 1..Stored(s) \subseteq target[s]

(* Airflow shows a task as a success only if a run of this schedule has      *)
(* brought in everything there was when the task became due; this of the     *)
(* streams that the source still lists, the task of another always succeeds. *)
SuccessDelivers ==
    \A s \in (tasks \intersect Discovered) \ overlap : task[s] = "success" =>
        /\ Stored(s) >= due[s]
        /\ Current(s) \intersect 1..due[s] \subseteq target[s]

(* A task that is due is settled, whatever fails and however often: the      *)
(* policy and Airflow both give up.                                          *)
TasksEnd ==
    \A s \in Streams : []<>(task[s] \notin {"queued", "running"})
-----------------------------------------------------------------------------
(* The inductive invariant behind the properties.                            *)

(* The tasks of a group have state files of their own, written by no other   *)
(* stream, and only the source of a task changes.                            *)
FilesInv ==
    /\ \A s, t \in tasks : Sanitized[s] = Sanitized[t] => s = t
    /\ \A f \in Streams : store[f] # 0 => \E s \in tasks : Sanitized[s] = f
    /\ \A s \in Streams \ tasks : log[s] = <<>> /\ task[s] = "none"
    /\ \A s \in tasks : Stored(s) <= Len(log[s])
    /\ \A s \in Streams : due[s] <= Len(log[s]) /\ Len(log[s]) <= MaxChanges

(* A task that waits has tries left, and only a running one has an owner.    *)
AirflowInv ==
    \A s \in Streams :
        /\ task[s] = "queued" => tries[s] < TaskTries
        /\ task[s] \in {"none", "success", "failed"} => tries[s] = 0
        /\ task[s] # "running" => owner[s] = {}

(* A process runs a task of the group, an attempt is begun only if the       *)
(* policy grants it, and no attempt has seen changes that are still to come. *)
ProcessInv ==
    \A p \in Procs :
        /\ pc[p] = "free" <=> stream[p] = NoStream
        /\ pc[p] # "free" => stream[p] \in tasks
        /\ pc[p] = "attempt" => attempt[p] < PolicyAttempts
        /\ pc[p] \in {"loaded", "landed"} => mark[p] <= Len(log[stream[p]])
        /\ pc[p] = "loaded" => base[p] <= mark[p]

(* What a watermark n of s covers is in the destination.                     *)
Covered(s, n) == Current(s) \intersect 1..n \subseteq target[s]
OneAtATime(s) == Disposition[s] = "append" \/ s \notin overlap

(* The watermark stored, the one an attempt started from, and the one it     *)
(* will store once its rows have landed are all covered.                     *)
CoveredInv ==
    \A s \in Streams : OneAtATime(s) =>
        /\ Covered(s, Stored(s))
        /\ \A p \in Live(s) :
              /\ pc[p] = "loaded" => Covered(s, base[p])
              /\ pc[p] = "landed" => Covered(s, mark[p])

(* Processes of a stream that never overlap store ever later watermarks.     *)
AloneInv ==
    \A s \in Streams \ overlap :
        /\ \A p, q \in Live(s) : p = q
        /\ \A p \in Live(s) : pc[p] \in {"loaded", "landed"} => Stored(s) <= mark[p]

(* The process whose end Airflow waits for has seen, once it has read, what  *)
(* there was when the task became due, and has stored so when it returns.    *)
DueInv ==
    \A s \in Discovered \ overlap :
        /\ task[s] = "success" => due[s] <= Stored(s)
        /\ \A p \in Live(s) : owner[s] = {p} =>
              /\ pc[p] \in {"loaded", "landed"} => due[s] <= mark[p]
              /\ pc[p] = "returned" => due[s] <= Stored(s)

TaskInv ==
    TaskTypeOK /\ FilesInv /\ AirflowInv /\ ProcessInv /\ CoveredInv /\ AloneInv /\ DueInv
=============================================================================
