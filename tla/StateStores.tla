------------------------------ MODULE StateStores -----------------------------
(* The two state stores of fflow/common/state.py.  FileStateStore keeps one  *)
(* JSON file per stream, replaced by writing a .tmp file next to it and      *)
(* renaming that over it.  SqlStateStore keeps one row per stream, stored by *)
(* an UPDATE and, if there was no row, an INSERT in the same transaction.    *)
(* Each process has a store object of its own, and its lock with it; threads *)
(* of a process share the object.  Airflow runs each stream as a task, so as *)
(* a process, of its own; the same stream may be run by two processes when a *)
(* task is retried or two runs overlap.                                      *)
(*                                                                           *)
(* The database of SqlStateStore is assumed to show committed rows only, to  *)
(* make a statement wait for a row that another transaction has written, and *)
(* to keep its primary key.                                                  *)
EXTENDS Naturals

CONSTANTS
    Streams,      \* (pipeline, stream) pairs
    Paths,        \* file names
    PathOf,       \* PathOf[s]: what _path_for makes of s
    Procs,        \* processes
    Threads,      \* threads that call the store
    ProcOf,       \* ProcOf[t]: the process of t
    Stores,       \* the stores a run may use: "file", "sql"
    Serves,       \* Serves[w][t]: the streams t calls a store w for
    Inodes,       \* files on disk; two per path and one per thread suffice
    NoState,      \* {}: what get returns if there is no file
    Raised,       \* what get "returns" if json.load raises
    Stored,       \* how a set ends that returns
    NotStored,    \* how a set ends that raises
    None,         \* no file, no thread
    Empty,        \* the contents of a file just opened for writing
    Torn,         \* the contents of a file two writers have written over, or
                  \* of one whose writer broke off
    MaxSets       \* bound: calls of set

(* The n-th call of set stores a state of its own.                           *)
State(s, n) == [stream |-> s, n |-> n]
States == [stream : Streams, n : 1..MaxSets]

ASSUME StoresAssumption ==
    /\ PathOf \in [Streams -> Paths]
    /\ ProcOf \in [Threads -> Procs]
    /\ Stores \subseteq {"file", "sql"}
    /\ Serves \in [Stores -> [Threads -> SUBSET Streams]]
    /\ None \notin Threads \union Inodes
    /\ MaxSets \in Nat
    /\ Empty \notin States /\ Torn \notin States

VARIABLES
    store,        \* the store of this pipeline
    table,        \* sql: the table fflow_state exists
    setup,        \* setup[q]: how far Pipeline.run() of q is with initialize()
    rows,         \* sql: rows[s] is the committed state of s
    file,         \* file[p]: the inode at p.json
    tmp,          \* tmp[p]: the inode at p.tmp
    content,      \* content[i]: what is in inode i
    lock,         \* lock[q]: the thread of q that holds self._lock
    pc,           \* pc[t]: where t is in get or set
    call,         \* call[t]: the arguments t called with
    fd,           \* fd[t]: the inode t has open for writing
    got,          \* got[t]: what the last call of t returned
    sets          \* calls of set so far

disk == <<file, tmp, content>>
database == <<table, setup, rows>>
vars == <<store, database, disk, lock, pc, call, fd, got, sets>>

-----------------------------------------------------------------------------

NoCall == [op |-> "none"]
Path(t) == PathOf[call[t].stream]

Free == {i \in Inodes :
           /\ \A p \in Paths : file[p] # i /\ tmp[p] # i
           /\ \A t \in Threads : fd[t] # i}

(* The file opened for writing: .tmp, so that the state itself is replaced   *)
(* at one stroke.                                                            *)
Opens(p) == IF tmp[p] # None THEN {tmp[p]} ELSE Free

(* The lock of set, in both stores: with self._lock                          *)
MayEnterUnlocked(t) == TRUE
MayEnter(t) == lock[ProcOf[t]] = None

(* What json.load makes of a file.                                           *)
Loaded(i) == IF content[i] \in {Empty, Torn} THEN Raised ELSE content[i]

(* Only SqlStateStore has an initialize().                                   *)
NewProcess == IF store = "sql" THEN "new" ELSE "ready"

Init ==
    /\ store \in Stores
    /\ table = FALSE
    /\ setup = [q \in Procs |-> NewProcess]
    /\ rows = [s \in Streams |-> NoState]
    /\ file = [p \in Paths |-> None]
    /\ tmp = [p \in Paths |-> None]
    /\ content = [i \in Inodes |-> Empty]
    /\ lock = [q \in Procs |-> None]
    /\ pc = [t \in Threads |-> "idle"]
    /\ call = [t \in Threads |-> NoCall]
    /\ fd = [t \in Threads |-> None]
    /\ got = [t \in Threads |-> NoState]
    /\ sets = 0

Goto(t, label) == pc' = [pc EXCEPT ![t] = label]
Leave(t) == Goto(t, "idle") /\ call' = [call EXCEPT ![t] = NoCall]

-----------------------------------------------------------------------------
(* Calls.  run() initializes the store before it starts any thread; get      *)
(* takes no lock.                                                            *)

CallGet(t, s) ==
    /\ pc[t] = "idle" /\ setup[ProcOf[t]] = "ready"
    /\ call' = [call EXCEPT ![t] = [op |-> "get", stream |-> s]]
    /\ Goto(t, IF store = "sql" THEN "select" ELSE "exists")
    /\ UNCHANGED <<store, database, disk, lock, fd, got, sets>>

CallSet(t, s) ==
    /\ pc[t] = "idle" /\ setup[ProcOf[t]] = "ready"
    /\ sets < MaxSets
    /\ sets' = sets + 1
    /\ call' = [call EXCEPT ![t] = [op |-> "set", stream |-> s, arg |-> State(s, sets + 1)]]
    /\ Goto(t, "lock")
    /\ UNCHANGED <<store, database, disk, lock, fd, got>>

(* SqlStateStore.set makes the text before it takes the lock: json.dumps     *)
(* raises for a value that JSON does not have.                               *)
DumpsFails(t) ==
    /\ pc[t] = "lock" /\ store = "sql"
    /\ got' = [got EXCEPT ![t] = NotStored]
    /\ Leave(t)
    /\ UNCHANGED <<store, database, disk, lock, fd, sets>>

Lock(t) ==
    /\ pc[t] = "lock" /\ MayEnter(t)
    /\ lock' = [lock EXCEPT ![ProcOf[t]] = t]
    /\ Goto(t, IF store = "sql" THEN "update" ELSE "open")
    /\ UNCHANGED <<store, database, disk, call, fd, got, sets>>

-----------------------------------------------------------------------------
(* FileStateStore.                                                           *)

(* if not path.exists(): return {}                                           *)
Exists(t) ==
    /\ pc[t] = "exists"
    /\ IF file[Path(t)] = None
       THEN Leave(t) /\ got' = [got EXCEPT ![t] = NoState]
       ELSE Goto(t, "load") /\ UNCHANGED <<call, got>>
    /\ UNCHANGED <<store, database, disk, lock, fd, sets>>

Load(t) ==
    /\ pc[t] = "load"
    /\ got' = [got EXCEPT ![t] = Loaded(file[Path(t)])]
    /\ Leave(t)
    /\ UNCHANGED <<store, database, disk, lock, fd, sets>>

(* open(tmp, "w") creates the file, or empties the one that is there.        *)
Open(t) ==
    /\ pc[t] = "open"
    /\ \E i \in Opens(Path(t)) :
          /\ content' = [content EXCEPT ![i] = Empty]
          /\ tmp' = [tmp EXCEPT ![Path(t)] = i]
          /\ fd' = [fd EXCEPT ![t] = i]
    /\ Goto(t, "dump")
    /\ UNCHANGED <<store, database, file, lock, call, got, sets>>

(* json.dump, and the file is closed.  Over what another writer has left,    *)
(* the result is the new state or a mixture of both.                         *)
Dump(t) ==
    /\ pc[t] = "dump"
    /\ \E c \in IF content[fd[t]] = Empty THEN {call[t].arg} ELSE {call[t].arg, Torn} :
          content' = [content EXCEPT ![fd[t]] = c]
    /\ fd' = [fd EXCEPT ![t] = None]
    /\ Goto(t, "rename")
    /\ UNCHANGED <<store, database, file, tmp, lock, call, got, sets>>

(* Leaving the with block of set.                                            *)
Ends(t, how) ==
    /\ lock' = [lock EXCEPT ![ProcOf[t]] = None]
    /\ got' = [got EXCEPT ![t] = how]
    /\ Leave(t)
    /\ UNCHANGED <<store, table, setup, sets>>

(* json.dump raises: what it has written by then stays in the .tmp file.     *)
DumpFails(t) ==
    /\ pc[t] = "dump"
    /\ \E c \in {Empty, Torn} : content' = [content EXCEPT ![fd[t]] = c]
    /\ fd' = [fd EXCEPT ![t] = None]
    /\ Ends(t, NotStored)
    /\ UNCHANGED <<rows, file, tmp>>

(* tmp.replace(path); if another process has renamed the file already, it    *)
(* raises FileNotFoundError.                                                 *)
Rename(t) ==
    /\ pc[t] = "rename"
    /\ IF tmp[Path(t)] # None
       THEN /\ file' = [file EXCEPT ![Path(t)] = tmp[Path(t)]]
            /\ tmp' = [tmp EXCEPT ![Path(t)] = None]
            /\ Ends(t, Stored)
       ELSE Ends(t, NotStored) /\ UNCHANGED <<file, tmp>>
    /\ UNCHANGED <<rows, content, fd>>

-----------------------------------------------------------------------------
(* SqlStateStore.                                                            *)

(* initialize(): the DDL looks the table up and then creates it.  Another    *)
(* process may create it in between, as nothing locks its name: the CREATE   *)
(* raises, and the run ends before it has begun.                             *)
LookUpTable(q) ==
    /\ setup[q] = "new"
    /\ setup' = [setup EXCEPT ![q] = IF table THEN "ready" ELSE "create"]
    /\ UNCHANGED <<store, table, rows, disk, lock, pc, call, fd, got, sets>>

CreateStateTable(q) ==
    /\ setup[q] = "create"
    /\ setup' = [setup EXCEPT ![q] = IF table THEN "new" ELSE "ready"]
    /\ table' = TRUE
    /\ UNCHANGED <<store, rows, disk, lock, pc, call, fd, got, sets>>

Select(t) ==
    /\ pc[t] = "select"
    /\ got' = [got EXCEPT ![t] = IF table THEN rows[call[t].stream] ELSE Raised]
    /\ Leave(t)
    /\ UNCHANGED <<store, database, disk, lock, fd, sets>>

(* No other transaction has written the row of t's stream.                   *)
RowIsFree(t) ==
    \A u \in Threads \ {t} : pc[u] = "commit" => call[u].stream # call[t].stream

(* UPDATE; rowcount tells whether the stream has a row.                      *)
RowHit(t) == rows[call[t].stream] # NoState

UpdateRow(t) ==
    /\ pc[t] = "update" /\ RowIsFree(t)
    /\ Goto(t, IF RowHit(t) THEN "commit" ELSE "insert")
    /\ UNCHANGED <<store, database, disk, lock, call, fd, got, sets>>

InsertRow(t) ==
    /\ pc[t] = "insert" /\ RowIsFree(t) /\ ~RowHit(t)
    /\ Goto(t, "commit")
    /\ UNCHANGED <<store, database, disk, lock, call, fd, got, sets>>

(* Another process has stored the first state of the stream since the        *)
(* UPDATE: the primary key refuses the row, and set raises.                  *)
InsertFails(t) ==
    /\ pc[t] = "insert" /\ RowIsFree(t) /\ RowHit(t)
    /\ Ends(t, NotStored)
    /\ UNCHANGED <<rows, disk, fd>>

CommitRow(t) ==
    /\ pc[t] = "commit"
    /\ rows' = [rows EXCEPT ![call[t].stream] = call[t].arg]
    /\ Ends(t, Stored)
    /\ UNCHANGED <<disk, fd>>

(* The database commits, but its answer does not arrive: set raises.         *)
CommitAckLost(t) ==
    /\ pc[t] = "commit"
    /\ rows' = [rows EXCEPT ![call[t].stream] = call[t].arg]
    /\ Ends(t, NotStored)
    /\ UNCHANGED <<disk, fd>>

(* mkdir, open or replace raises; or connecting, UPDATE, INSERT or COMMIT,   *)
(* and engine.begin rolls back.                                              *)
StatementFails(t) ==
    /\ pc[t] \in {"open", "rename", "update", "insert", "commit"}
    /\ Ends(t, NotStored)
    /\ UNCHANGED <<rows, disk, fd>>

-----------------------------------------------------------------------------

(* A process dies anywhere; the disk stays as it is, an open transaction is  *)
(* rolled back, and the next run starts with a new store object.             *)
Crash(q) ==
    LET dead == {t \in Threads : ProcOf[t] = q} IN
    /\ setup[q] = "create" \/ \E t \in dead : pc[t] # "idle"
    /\ setup' = [setup EXCEPT ![q] = NewProcess]
    /\ pc' = [t \in Threads |-> IF t \in dead THEN "idle" ELSE pc[t]]
    /\ call' = [t \in Threads |-> IF t \in dead THEN NoCall ELSE call[t]]
    /\ fd' = [t \in Threads |-> IF t \in dead THEN None ELSE fd[t]]
    /\ lock' = [lock EXCEPT ![q] = None]
    /\ UNCHANGED <<store, table, rows, disk, got, sets>>

Next ==
    \/ \E t \in Threads :
          \/ \E s \in Serves[store][t] : CallGet(t, s) \/ CallSet(t, s)
          \/ Exists(t)
          \/ Load(t)
          \/ DumpsFails(t)
          \/ Lock(t)
          \/ Open(t)
          \/ Dump(t)
          \/ DumpFails(t)
          \/ Rename(t)
          \/ Select(t)
          \/ UpdateRow(t)
          \/ InsertRow(t)
          \/ InsertFails(t)
          \/ CommitRow(t)
          \/ CommitAckLost(t)
          \/ StatementFails(t)
    \/ \E q \in Procs : LookUpTable(q) \/ CreateStateTable(q) \/ Crash(q)

Spec == Init /\ [][Next]_vars
-----------------------------------------------------------------------------
(* Properties.                                                               *)

(* The types of the files, the locks and the threads' positions; a thread    *)
(* inside set holds the lock of its process.                                 *)
StoresTypeOK ==
    /\ store \in Stores
    /\ table \in BOOLEAN
    /\ setup \in [Procs -> {"new", "create", "ready"}]
    /\ rows \in [Streams -> States \union {NoState}]
    /\ file \in [Paths -> Inodes \union {None}]
    /\ tmp \in [Paths -> Inodes \union {None}]
    /\ content \in [Inodes -> States \union {Empty, Torn}]
    /\ lock \in [Procs -> Threads \union {None}]
    /\ pc \in [Threads -> {"idle", "exists", "load", "lock", "open", "dump", "rename",
                           "select", "update", "insert", "commit"}]
    /\ \A t \in Threads : pc[t] = "idle" <=> call[t] = NoCall
    /\ \A t \in Threads : 
            pc[t] \in {"open", "dump", "rename", "update", "insert", "commit"} =>
                lock[ProcOf[t]] = t
    /\ fd \in [Threads -> Inodes \union {None}]
    /\ got \in [Threads -> States \union {NoState, Raised, Stored, NotStored}]
    /\ sets \in 0..MaxSets

(* What a reader finds for a stream now.                                     *)
Value(s) ==
    CASE store = "sql" -> rows[s]
      [] store = "file" /\ file[PathOf[s]] = None -> NoState
      [] store = "file" /\ file[PathOf[s]] # None -> Loaded(file[PathOf[s]])

Calls == [op : {"get"}, stream : Streams] \union
         [op : {"set"}, stream : Streams, arg : States]

Register == INSTANCE StateRegister
    WITH value <- [s \in Streams |-> Value(s)], doubtful <- store = "sql"

(* Each store is an atomic register per stream, whatever the interleaving of *)
(* threads and processes, whichever statements raise and wherever a process  *)
(* dies: a set that returns has taken effect at one instant; one that raises *)
(* or dies before its end never does, unless it is a database's COMMIT whose *)
(* answer is lost, and then at one instant too.                              *)
ImplementsRegister == Register!Spec
-----------------------------------------------------------------------------
(* The inductive invariant behind the properties.                            *)

(* A thread in a call has called for a stream it serves, in a process whose  *)
(* run has begun, and is where that call and the store put it.               *)
CallInv ==
    /\ call \in [Threads -> Calls \union {NoCall}]
    /\ \A t \in Threads : pc[t] # "idle" =>
          /\ call[t].stream \in Serves[store][t]
          /\ setup[ProcOf[t]] = "ready"
          /\ pc[t] \in {"exists", "load", "select"} => call[t].op = "get"
          /\ pc[t] \notin {"exists", "load", "select"} => call[t].op = "set"
          /\ store = "file" => pc[t] \notin {"select", "update", "insert", "commit"}
          /\ store = "sql" => pc[t] \notin {"exists", "load", "open", "dump", "rename"}

(* A run over the database begins once the table is there.                   *)
TableInv == store = "sql" => \A q \in Procs : setup[q] = "ready" => table

(* A file that was there is there.                                           *)
FoundInv == \A t \in Threads : pc[t] = "load" => file[Path(t)] # None

(* A file that is still being written is nobody else's, and the file at      *)
(* p.json is whole.                                                          *)
DiskInv ==
    /\ \A p, q \in Paths : tmp[p] # None => tmp[p] # file[q] /\ (tmp[p] = tmp[q] => p = q)
    /\ \A p \in Paths : file[p] # None => content[file[p]] \in States
    /\ \A t \in Threads :
          /\ pc[t] = "dump" =>
                fd[t] # None /\ fd[t] = tmp[Path(t)] /\ content[fd[t]] = Empty
          /\ pc[t] = "rename" =>
                tmp[Path(t)] # None /\ content[tmp[Path(t)]] = call[t].arg

StoresInv == StoresTypeOK /\ CallInv /\ TableInv /\ FoundInv

(* What the files ask of a pipeline: that each is the state of one stream,   *)
(* and that the threads that run a stream are of one process.                *)
OneOwner ==
    "file" \in Stores =>
        /\ \A s, r \in Streams : PathOf[s] = PathOf[r] => s = r
        /\ \A t, u \in Threads :
              Serves["file"][t] \intersect Serves["file"][u] # {} => ProcOf[t] = ProcOf[u]
=============================================================================
