---------------------------- MODULE CursorSource ----------------------------
(* Incremental reads by a cursor column of a database that others write:     *)
(* SQLSource over a table, SQLSource over a SQL file (fflow/sources/sql.py)  *)
(* and CacheSource over a SQL file (fflow/sources/cache.py), each through    *)
(* Pipeline.run.  A writer picks the cursor value of a row when it writes it *)
(* and the row becomes visible when the writer commits, so rows may tie and  *)
(* may become visible out of cursor order.  A query of SQLSource answers     *)
(* with what is visible when it is executed; CacheSource fetches its rows    *)
(* batch by batch, and a row that changes meanwhile may be returned as it    *)
(* was, as it is, as both or not at all.  The loop over the rows only        *)
(* changes locals of the generator, so its end is one step.                  *)
EXTENDS Integers, Sequences, FiniteSets

CONSTANTS
    Ids,          \* merge keys of the rows
    Nullable,     \* the keys whose row may have no cursor
    Modes,        \* how the stream is configured, see ModeType
    FullRefresh,  \* the values run() is called with for full_refresh
    Faults,       \* what may go wrong: "batch", "read", "commit", "ack", "set", "crash"
    Null,         \* the cursor of a row whose cursor column is NULL
    Unset,        \* no cursor_value in the state
    FetchAttempts,\* _ATTR_ERROR_MAX_RETRIES of CacheSource
    MaxCursor,    \* bound: cursor values
    MaxWrites,    \* bound: row versions
    MaxFaults,    \* bound: faults
    MaxRuns       \* bound: runs of a stream that appends

ModeType ==
    [reader : {"table", "file", "cache_file"},
     filter : {"above", "from", "free"},   \* > or >= the value, or no use of it
     placeholder : BOOLEAN,                \* the SQL file has {{cursor_value}}
     tracked : BOOLEAN,                    \* cursor_type is not "none"
     json : BOOLEAN,                       \* json.dumps takes the cursor's values
     write : {"append", "merge"}]          \* StreamConfig.write_disposition

ASSUME CursorAssumption ==
    /\ Nullable \subseteq Ids
    /\ Modes \subseteq ModeType
    /\ \A d \in Modes : d.reader = "table" => d.filter = "above"
    /\ \A d \in Modes : d.reader # "table" /\ ~d.placeholder => d.filter = "free"
    /\ FullRefresh \subseteq BOOLEAN
    /\ Faults \subseteq {"batch", "read", "commit", "ack", "set", "crash"}
    /\ Null \notin Int /\ Unset \notin Int /\ Unset # Null
    /\ FetchAttempts \in Nat \ {0}
    /\ MaxCursor \in Nat /\ MaxWrites \in Nat /\ MaxFaults \in Nat /\ MaxRuns \in Nat

VARIABLES
    mode,     \* the stream's configuration, a member of Modes
    writes,   \* writes[w]: merge key and cursor of row version w
    pending,  \* versions written and not committed
    visible,  \* versions a query can see, one of each key at most
    target,   \* target[w]: how often version w is in the destination
    store,    \* the cursor_value in the state store
    phase,    \* where run() is
    base,     \* current_cursor
    result,   \* versions in the result set, then buffered by the destination
    state,    \* the cursor_value in the state dict
    attempt,  \* executions of the query in this run
    faults,   \* faults so far
    runs,     \* runs so far, of a stream that appends
    late,     \* history: versions that became visible behind a watermark, or
              \* while a query that left them out returned a later cursor
    marks,    \* history: every watermark stored, of a stream that appends
    repeats   \* history: commits whose rows the stored watermark did not come
              \* to cover, or covered already

database == <<writes, pending, visible>>
history == <<late, marks, repeats>>
read == <<base, result, state, attempt>>
vars == <<mode, database, target, store, phase, read, faults, runs, history>>

-----------------------------------------------------------------------------

Versions == 1..MaxWrites
CursorOf(w) == writes[w].cursor
Same(w) == {v \in 1..Len(writes) : writes[v].id = writes[w].id}

Largest(a, b) == IF a = Unset THEN b ELSE IF b = Unset \/ b <= a THEN a ELSE b
LargestOf(S) ==
    IF S = {} THEN Unset ELSE CHOOSE c \in S : \A d \in S : d <= c
Cursors(S) == {CursorOf(w) : w \in S} \ {Null}

(* The comparison of the WHERE clause; with NULL it is never true.           *)
PassesInclusive(w, c) == CursorOf(w) # Null /\ CursorOf(w) >= c
Passes(w, c) ==
    /\ CursorOf(w) # Null
    /\ IF mode.filter = "above" THEN CursorOf(w) > c ELSE CursorOf(w) >= c

(* What is put where the SQL file says {{cursor_value}}.                     *)
PlaceholderNext(b) == IF ~mode.tracked \/ b = Unset THEN 0 ELSE b + 1
Placeholder(b) == IF ~mode.tracked \/ b = Unset THEN 0 ELSE b

(* The rows of a query that starts at b.  A table is read without a WHERE    *)
(* clause on the first run, a SQL file always has its own.                   *)
Asked(w, b) ==
    IF mode.reader = "table" THEN ~mode.tracked \/ b = Unset \/ Passes(w, b)
    ELSE mode.filter = "free" \/ Passes(w, Placeholder(b))
Selected(b) == {w \in visible : Asked(w, b)}

(* The first value of max_cursor: SQLSource goes on from the stored one.     *)
FirstMark(b) == IF mode.reader = "cache_file" THEN Unset ELSE b

(* max_cursor, or max_seen, once all rows have been fetched.                 *)
LastMarkQueried == Largest(FirstMark(base), LargestOf(Cursors(visible)))
LastMark == Largest(FirstMark(base), LargestOf(Cursors(result)))

(* The state dict when the generator ends with mark m.                       *)
LeftNull(m) == IF mode.tracked THEN m ELSE state
LeftNext(m) == IF mode.tracked /\ m # Unset THEN m + 1 ELSE state
Left(m) == IF mode.tracked /\ m # Unset THEN m ELSE state

(* The destination once the batch has landed.                                *)
Landed ==
    [w \in Versions |->
        IF w \in result THEN IF mode.write = "append" THEN target[w] + 1 ELSE 1
        ELSE IF mode.write = "merge" /\ (\E v \in result : w \in Same(v)) THEN 0
        ELSE target[w]]

Init ==
    /\ mode \in Modes
    /\ writes = <<>> /\ pending = {} /\ visible = {}
    /\ target = [w \in Versions |-> 0]
    /\ store = Unset
    /\ phase = "idle"
    /\ base = Unset /\ result = {} /\ state = Unset /\ attempt = 0
    /\ faults = 0 /\ runs = 0
    /\ late = {} /\ marks = {} /\ repeats = 0

-----------------------------------------------------------------------------
(* The writers.                                                              *)

Clock == LET top == LargestOf(Cursors(1..Len(writes))) IN IF top = Unset THEN 0 ELSE top

(* A row is inserted or updated; only one transaction holds a row.  The      *)
(* clock or sequence that fills the cursor column may stand still.           *)
Write(i, c) ==
    /\ Len(writes) < MaxWrites /\ c <= MaxCursor
    /\ \A w \in pending : writes[w].id # i
    /\ writes' = Append(writes, [id |-> i, cursor |-> c])
    /\ pending' = pending \union {Len(writes) + 1}
    /\ UNCHANGED <<mode, visible, target, store, phase, read, faults, runs, history>>

WriteNull(i) ==
    /\ i \in Nullable
    /\ Len(writes) < MaxWrites
    /\ \A w \in pending : writes[w].id # i
    /\ writes' = Append(writes, [id |-> i, cursor |-> Null])
    /\ pending' = pending \union {Len(writes) + 1}
    /\ UNCHANGED <<mode, visible, target, store, phase, read, faults, runs, history>>

(* What fetch_iter still returns when rows of the versions old, which were   *)
(* visible, give way to those of new.                                        *)
Returned(old, new) ==
    IF phase = "fetch" /\ mode.reader = "cache_file"
    THEN {(result \ gone) \union found :
             gone \in SUBSET old, found \in SUBSET {w \in new : Asked(w, base)}}
    ELSE {result}

(* A watermark in S excludes w.                                              *)
Behind(w, S) ==
    mode.tracked /\ mode.filter # "free" /\ \E c \in S \ {Unset} : ~Passes(w, c)

(* The rows that the query under way leaves out although it returns rows     *)
(* whose cursor excludes them.                                               *)
Overtaken(rows) ==
    {v \in visible' \ rows : Asked(v, base) /\ Behind(v, Cursors(rows))}

Become(w) ==
    /\ w \in pending
    /\ pending' = pending \ {w}
    /\ visible' = (visible \ Same(w)) \union {w}
    /\ result' \in Returned(visible \intersect Same(w), {w})
    /\ late' = (late \ Same(w)) \union {v \in {w} : Behind(v, {store, base})}
                                \union Overtaken(result')
    /\ UNCHANGED <<mode, writes, target, store, phase, base, state, attempt, faults, runs,
                   marks, repeats>>

Remove(w) ==
    /\ w \in visible /\ \A v \in pending : v \notin Same(w)
    /\ visible' = visible \ {w}
    /\ result' \in Returned({w}, {})
    /\ late' = late \ {w}
    /\ UNCHANGED <<mode, writes, pending, target, store, phase, base, state, attempt, faults,
                   runs, marks, repeats>>

-----------------------------------------------------------------------------
(* One run of the stream.                                                    *)

(* state.get("cursor_value"), of an empty state if full_refresh.             *)
Begin(full) ==
    /\ phase = "idle"
    /\ mode.write = "append" => runs < MaxRuns
    /\ runs' = IF mode.write = "append" THEN runs + 1 ELSE runs
    /\ base' = IF full THEN Unset ELSE store
    /\ state' = base'
    /\ result' = {} /\ attempt' = 0
    /\ phase' = "query"
    /\ UNCHANGED <<mode, database, target, store, faults, history>>

NoPlaceholder ==
    mode.reader # "table" /\ ~mode.placeholder /\ mode.tracked /\ base # Unset

(* conn.execute, cur.execute                                                 *)
Execute ==
    /\ phase = "query" /\ ~NoPlaceholder
    /\ result' = Selected(base)
    /\ attempt' = attempt + 1
    /\ phase' = "fetch"
    /\ UNCHANGED <<mode, database, target, store, base, state, faults, runs, history>>

(* CacheSource: the driver fails on the first batch, of which nothing has    *)
(* been yielded; the query is executed again.                                *)
FirstBatchFails ==
    /\ "batch" \in Faults /\ faults < MaxFaults
    /\ mode.reader = "cache_file" /\ phase = "fetch" /\ result # {}
    /\ attempt < FetchAttempts
    /\ faults' = faults + 1
    /\ result' = {}
    /\ phase' = "query"
    /\ UNCHANGED <<mode, database, target, store, base, state, attempt, runs, history>>

(* Every row has been fetched, yielded and buffered, and the generator ends: *)
(* the watermark is set if there is one.                                     *)
Drain ==
    /\ phase = "fetch"
    /\ state' = Left(LastMark)
    /\ phase' = "loaded"
    /\ UNCHANGED <<mode, database, target, store, base, result, attempt, faults,
                   runs, history>>

Repeated == repeats' = IF mode.write = "append" THEN repeats + 1 ELSE repeats

(* The run reads from the beginning a stream that has a watermark.           *)
Reloads == base = Unset /\ store # Unset

Commit ==
    /\ phase = "loaded"
    /\ target' = Landed
    /\ phase' = "landed"
    /\ IF Reloads THEN Repeated ELSE UNCHANGED repeats
    /\ UNCHANGED <<mode, database, store, read, faults, runs, late, marks>>

(* The end of run(): what it held is gone.                                   *)
Return ==
    /\ phase' = "idle"
    /\ base' = Unset /\ result' = {} /\ state' = Unset /\ attempt' = 0
    /\ UNCHANGED <<mode, database, runs, late>>

SetState ==
    /\ phase = "landed" /\ mode.json
    /\ store' = state
    /\ marks' = IF mode.write = "append" THEN marks \union ({state} \ {Unset}) ELSE marks
    /\ IF mode.tracked /\ state # Unset THEN UNCHANGED repeats ELSE Repeated
    /\ Return
    /\ UNCHANGED <<target, faults>>

(* json.dumps raises for a cursor that is, say, a datetime.                  *)
SetRaises ==
    /\ phase = "landed" /\ ~mode.json
    /\ Repeated
    /\ Return
    /\ UNCHANGED <<target, store, faults, marks>>

(* ValueError: an incremental SQL file without the placeholder.              *)
RefuseFile ==
    /\ phase = "query" /\ NoPlaceholder
    /\ Return
    /\ UNCHANGED <<target, store, faults, marks, repeats>>

-----------------------------------------------------------------------------
(* Faults.  Each one ends the run without the state being stored.            *)

Fault(kind) ==
    /\ kind \in Faults /\ faults < MaxFaults
    /\ faults' = faults + 1
    /\ Return
    /\ UNCHANGED <<store, marks>>

ReadFails == phase \in {"query", "fetch"} /\ Fault("read") /\ UNCHANGED <<target, repeats>>
CommitFails == phase = "loaded" /\ Fault("commit") /\ UNCHANGED <<target, repeats>>
AckLost == phase = "loaded" /\ Fault("ack") /\ target' = Landed /\ Repeated
SetFails == phase = "landed" /\ Fault("set") /\ Repeated /\ UNCHANGED target
Crash ==
    /\ phase # "idle" /\ Fault("crash")
    /\ IF phase = "landed" THEN Repeated ELSE UNCHANGED repeats
    /\ UNCHANGED target

(* The steps of run() once it has begun.                                     *)
Step ==
    \/ Execute
    \/ Drain
    \/ Commit
    \/ SetState
    \/ SetRaises
    \/ RefuseFile

(* The bounds on writes and runs are reached.                                *)
Stop ==
    /\ mode.write = "append" /\ runs = MaxRuns /\ phase = "idle"
    /\ UNCHANGED vars

Next ==
    \/ \E i \in Ids : Write(i, Clock) \/ Write(i, Clock + 1) \/ WriteNull(i)
    \/ \E w \in Versions : Become(w) \/ Remove(w)
    \/ \E full \in FullRefresh : Begin(full)
    \/ Step
    \/ FirstBatchFails
    \/ ReadFails \/ CommitFails \/ AckLost \/ SetFails \/ Crash
    \/ Stop

Spec == Init /\ [][Next]_vars

(* A run that has begun goes on, and the scheduler starts another one.       *)
FairSpec == Spec /\ WF_vars(Step) /\ WF_vars(Begin(FALSE))
-----------------------------------------------------------------------------
(* Properties.                                                               *)

Marks == 0..MaxCursor \union {Unset}

(* The types of the database, the destination and the run.                   *)
CursorTypeOK ==
    /\ mode \in Modes
    /\ writes \in Seq([id : Ids, cursor : 0..MaxCursor \union {Null}])
    /\ pending \subseteq Versions /\ visible \subseteq Versions
    /\ target \in [Versions -> Nat]
    /\ store \in Marks /\ base \in Marks /\ state \in Marks
    /\ phase \in {"idle", "query", "fetch", "loaded", "landed"}
    /\ result \subseteq Versions
    /\ attempt \in 0..FetchAttempts
    /\ faults \in 0..MaxFaults /\ runs \in 0..MaxRuns
    /\ late \subseteq Versions /\ marks \subseteq Marks /\ repeats \in Nat

(* The rows an incremental read can ever ask for: a NULL cursor passes no    *)
(* comparison, and a SQL file is first run with 0 for its placeholder.       *)
Readable(w) == mode.filter = "free" \/ Passes(w, IF mode.reader = "table" THEN -1 ELSE 0)

(* No row is passed over but by a writer: a row that no later run will ask   *)
(* for is in the destination, unless it became visible behind a stored       *)
(* watermark or while a query was under way that left it out and returned a  *)
(* cursor that excludes it.  A row that stays visible during a query is in   *)
(* it, however the writers of others interfere.                              *)
OnlyLateRowsPassedOver ==
    mode.tracked /\ store # Unset =>
        \A w \in visible \ late :
            Readable(w) /\ w \notin Selected(store) => target[w] > 0

(* A row is appended again only for a reason: a commit whose watermark was   *)
(* not stored, a full refresh, or a filter that includes the watermark, and  *)
(* then only rows that tie with a watermark that was stored.                 *)
OnlyTiesRepeated ==
    mode.write = "append" /\ mode.filter # "free" =>
        \A w \in Versions : target[w] > 1 + repeats =>
            mode.filter = "from" /\ CursorOf(w) \in marks

(* The watermark never moves back, but by a full refresh, or where the SQL   *)
(* file of a CacheSource does not filter by it: that source takes the        *)
(* largest value of the run, whatever was stored.                            *)
MarkMovesOn ==
    [][store # Unset /\ store' # store =>
          \/ base = Unset
          \/ mode.reader = "cache_file" /\ mode.filter = "free"
          \/ store' # Unset /\ store' > store]_vars

(* The runs of a merge stream bring in every row that was not late, however  *)
(* often a run fails in between and whatever json.dumps makes of the cursor, *)
(* unless the SQL file lacks its placeholder.                                *)
RowsArrive ==
    mode.write = "merge" /\ ~(mode.tracked /\ mode.reader # "table" /\ ~mode.placeholder) =>
        <>[](\A w \in visible \ late : Readable(w) => target[w] > 0)
-----------------------------------------------------------------------------
(* The inductive invariant behind the properties.                            *)

(* A version is first pending, then visible, one of each key, and lands only *)
(* after that.                                                               *)
VersionInv ==
    /\ Len(writes) <= MaxWrites
    /\ pending \subseteq 1..Len(writes)
    /\ visible \union result \subseteq 1..Len(writes) \ pending
    /\ \A v, w \in visible : w \in Same(v) => v = w
    /\ \A w \in Versions : target[w] > 0 => w \in 1..Len(writes) \ pending

(* A run starts from the stored watermark or from none, selects above it and *)
(* ends with one that covers its rows and is not before the one it had.      *)
RunInv ==
    /\ base # Unset => base = store
    /\ ~mode.tracked => store = Unset
    /\ phase = "idle" => base = Unset /\ result = {} /\ state = Unset
    /\ phase = "query" => attempt < FetchAttempts /\ result = {}
    /\ phase \in {"query", "fetch"} => state = base
    /\ mode.tracked /\ mode.filter # "free" /\ base # Unset => \A w \in result : Passes(w, base)
    /\ phase \in {"loaded", "landed"} =>
          IF mode.tracked
          THEN /\ state \in {Unset, base} \union Cursors(result)
               /\ \A c \in Cursors(result) : state # Unset /\ c <= state
               /\ base # Unset /\ (mode.reader = "cache_file" => mode.filter # "free") =>
                     state # Unset /\ base <= state
          ELSE state = base

(* What a watermark excludes has landed, or was late.  What a run has not    *)
(* selected is excluded by the watermark it started from, or became visible  *)
(* since and is above every cursor it has seen; a newer version of a row it  *)
(* selected has not landed.                                                  *)
Covers(c) == \A w \in visible \ late : Readable(w) /\ ~Passes(w, c) => target[w] > 0
CoverInv ==
    mode.tracked /\ mode.filter # "free" =>
        /\ store # Unset => Covers(store)
        /\ phase \in {"fetch", "loaded"} =>
              \A w \in visible \ result :
                 /\ w \notin late /\ Readable(w) =>
                       \/ base # Unset /\ ~Passes(w, base)
                       \/ \A c \in Cursors(result) : Passes(w, c)
                 /\ \A v \in result : w \in Same(v) => target[w] = 0
        /\ phase = "landed" /\ state # Unset => Covers(state)

(* Every copy of a version is one of a repeat, but for one copy of those     *)
(* that the watermark excludes, or will once the run has stored it, and      *)
(* those that tie with a watermark the filter includes.                      *)
CountInv ==
    mode.write = "append" /\ mode.filter # "free" =>
        /\ store # Unset => store \in marks
        /\ \A w \in Versions :
              \/ target[w] <= repeats
              \/ mode.filter = "from" /\ CursorOf(w) \in marks
              \/ /\ target[w] <= 1 + repeats
                 /\ IF phase = "landed"
                    THEN w \in result \/ (base # Unset /\ ~Passes(w, base))
                    ELSE store # Unset /\ ~Passes(w, store)

CursorInv == CursorTypeOK /\ VersionInv /\ RunInv /\ CoverInv /\ CountInv
=============================================================================
