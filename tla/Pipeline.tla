------------------------------ MODULE Pipeline ------------------------------
(* Pipeline.run of fflow/pipeline/pipeline.py, composed with the PipeIterator *)
(* it iterates over, one of the destinations of fflow/destinations, which    *)
(* all buffer until commit, and a state store.  The same pipeline is run     *)
(* several times; between two runs the source, the destination tables and    *)
(* the state store survive, and the connections nobody has closed.           *)
(*                                                                           *)
(* The source appends rows and is read incrementally, as                     *)
(* SQLSource._read_table does with a cursor column that never repeats.       *)
EXTENDS PipeIterator, Integers

CONSTANTS
    Loader,        \* the destination: MSSQLDestination, RedshiftDestination
                   \* without and with s3_staging_prefix, S3Destination
    Disposition,   \* StreamConfig.write_disposition of each stream
    FullRefresh,   \* the values run() is called with for full_refresh
    Faults,        \* what may go wrong, see FaultKinds
    MaxRuns        \* bound: calls of run()

FaultKinds == {
    "start",    \* discover, initialize or validate_hash_fields raises
    "clash",    \* _build_effective_schema raises
    "prepare",  \* Destination.prepare_stream raises
    "write",    \* hashing, metadata or Destination.write raises
    "commit",   \* Destination.commit raises, its last transaction is undone
    "ack",      \* Destination.commit raises although the database committed
    "set",      \* StateStore.set raises
    "crash"}    \* the process dies

ASSUME DispositionAssumption ==
    Disposition \in [Streams -> {"append", "replace", "merge"}]

\* S3Destination refuses to merge, see RefuseMerge of SqlLoad.
ASSUME LoaderAssumption ==
    /\ Loader \in {"mssql", "insert", "copy", "file"}
    /\ Loader = "file" => \A s \in Streams : Disposition[s] # "merge"

ASSUME RunAssumption ==
    /\ FullRefresh \subseteq BOOLEAN
    /\ Faults \subseteq FaultKinds
    /\ MaxRuns \in Nat

VARIABLES
    phase,      \* where the main thread is in run()
    requested,  \* target_streams of the run
    todo,       \* the rest of the list the current for loop goes through
    ready,      \* streams_ready
    failed,     \* the streams in stream_errors
    open,       \* the keys of the destination's _buffers
    buffer,     \* buffer[s][r]: how often row r is in the buffer of s
    target,     \* target[s][r]: how often row r is in the table of s
    connections, \* connections[s]: opened for s by the destination, not closed
    runs,       \* calls of run() so far
    outcome,    \* how the last run ended
    faulty,     \* history: streams that met a fault of their own in this run
    persisted,  \* history: streams whose watermark this run has stored
    repeats,    \* history: repeats[s] counts the commits of s whose rows the
                \* stored watermark did not come to cover, or covered already
    from,       \* history: from[s] is the watermark the batch that this run
                \* has landed for s started from
    spoiled     \* history: spoiled[s] counts the connections of s abandoned by
                \* a prepare_stream that raised, or by a schema clash after it

history == <<faulty, persisted, repeats, from, spoiled>>
runVars == <<phase, requested, todo, ready, failed, open, buffer, target,
             connections, runs, outcome, history>>

vars == <<env, iterVars, runVars>>

-----------------------------------------------------------------------------

RowIds == 1..MaxRows
Nothing == [r \in RowIds |-> 0]

InItem(it, r) == it.first <= r /\ r <= it.last

(* Destination.write: the rows of the chunk are added to the buffer.         *)
Extended(rows, it) == [r \in RowIds |-> IF InItem(it, r) THEN rows[r] + 1 ELSE rows[r]]

(* S3Destination writes the batch to a file of its own, whatever the         *)
(* disposition; the other destinations follow it, except that                *)
(* RedshiftDestination without S3 calls the abstract _commit_replace.        *)
Adds(s) == Disposition[s] = "append" \/ Loader = "file"
Replaces(s) == Disposition[s] = "replace" /\ Loader # "file"
InPlace(s) == Replaces(s) /\ Loader # "insert"

(* _commit_replace: TRUNCATE, then the rows.                                 *)
ReplacedNoTruncate(s) == [r \in RowIds |-> target[s][r] + buffer[s][r]]
Replaced(s) == IF InPlace(s) THEN buffer[s] ELSE target[s]

(* Destination.commit: the table of s once it has returned.  Rows are        *)
(* identified by their merge key, so a merge replaces old copies.            *)
LandedMergeInserts(s) ==
    IF Replaces(s) THEN Replaced(s)
    ELSE [r \in RowIds |-> target[s][r] + buffer[s][r]]
Landed(s) ==
    [r \in RowIds |->
        IF Adds(s) THEN target[s][r] + buffer[s][r]
        ELSE IF Replaces(s) THEN Replaced(s)[r]
        ELSE IF buffer[s][r] > 0 THEN buffer[s][r] ELSE target[s][r]]

(* The tables a commit that does not come to its end may leave: Redshift     *)
(* commits the transaction with the TRUNCATE, before the file is uploaded    *)
(* and copied.                                                               *)
Undone(s) ==
    {target[s]} \union IF Replaces(s) /\ Loader = "copy" THEN {Nothing} ELSE {}

(* The buffers once those of the streams in S are gone.                      *)
Without(S) == [s \in Streams |-> IF s \in S THEN Nothing ELSE buffer[s]]

(* prepare_stream opens a connection that the buffer keeps, commit and       *)
(* rollback close those of the buffers they take; S3Destination has none.    *)
Uses == IF Loader = "file" THEN 0 ELSE 1
Plus(count, S) == [s \in Streams |-> IF s \in S THEN count[s] + Uses ELSE count[s]]
Opened(S) == Plus(connections, S)
Closed(S) ==
    [s \in Streams |-> IF s \in S \intersect open THEN connections[s] - Uses
                       ELSE connections[s]]

(* pipe.get_state                                                            *)
GetPipeStateLive(s) == source[s]
GetPipeStateAbsent(s) == IF last[s] = Base(s) THEN 0 ELSE state[s]
GetPipeState(s) == state[s]

(* No iterator: the old one, if any, is garbage.  Threads it left behind     *)
(* hold on to nothing but its own queue and state dicts.                     *)
DropIter ==
    /\ streams' = <<>>
    /\ backlog' = <<>>
    /\ wpc' = Idle
    /\ state' = Zero
    /\ last' = Zero
    /\ pos' = Zero
    /\ queue' = <<>>
    /\ iter' = "none"
    /\ item' = <<>>
    /\ remaining' = 0
    /\ errors' = {}
    /\ delivered' = Zero

Init ==
    /\ source \in [Streams -> 0..MaxRows]
    /\ store = Zero
    /\ full = FALSE
    /\ InitIter
    /\ phase = "idle"
    /\ requested = {}
    /\ todo = <<>>
    /\ ready = <<>>
    /\ failed = {}
    /\ open = {}
    /\ buffer = [s \in Streams |-> Nothing]
    /\ target = [s \in Streams |-> Nothing]
    /\ connections = Zero
    /\ runs = 0
    /\ outcome = "ok"
    /\ faulty = {}
    /\ persisted = {}
    /\ repeats = Zero
    /\ from = Zero
    /\ spoiled = Zero

-----------------------------------------------------------------------------
(* run(): discover, initialize, resolve the streams.                         *)

(* No stream matches: run() warns and returns.                               *)
BeginRun(list, f) ==
    /\ phase = "idle" /\ runs < MaxRuns
    /\ runs' = runs + 1
    /\ phase' = IF list = <<>> THEN "idle" ELSE "prepare"
    /\ outcome' = IF list = <<>> THEN "ok" ELSE "running"
    /\ requested' = Elems(list)
    /\ todo' = list
    /\ ready' = <<>>
    /\ failed' = {} /\ faulty' = {} /\ persisted' = {} /\ from' = Zero
    /\ full' = f
    /\ DropIter
    /\ UNCHANGED <<source, store, open, buffer, target, connections, repeats, spoiled>>

(* An exception before the first stream is prepared leaves run() at once.    *)
StartFails(list) ==
    /\ "start" \in Faults
    /\ phase = "idle" /\ runs < MaxRuns
    /\ runs' = runs + 1
    /\ outcome' = "aborted"
    /\ requested' = Elems(list)
    /\ failed' = {} /\ faulty' = {} /\ persisted' = {} /\ from' = Zero
    /\ UNCHANGED <<env, iterVars, phase, todo, ready, open, buffer, target,
                   connections, repeats, spoiled>>

(* prepare_stream: a fresh buffer with a connection, whatever an earlier run *)
(* left in its place.                                                        *)
PrepareStream ==
    LET s == Head(todo) IN
    /\ phase = "prepare" /\ todo # <<>>
    /\ open' = open \union {s}
    /\ buffer' = Without({s})
    /\ connections' = Opened({s})
    /\ ready' = Append(ready, s)
    /\ todo' = Tail(todo)
    /\ UNCHANGED <<env, iterVars, phase, requested, failed, target, runs,
                   outcome, history>>

(* MSSQLDestination connects first, and nobody closes that connection when   *)
(* the catalog query, the DDL or the contract raises; SQLDestination opens   *)
(* the one it keeps last.                                                    *)
PrepareFails ==
    LET s == Head(todo) IN
    /\ "prepare" \in Faults
    /\ phase = "prepare" /\ todo # <<>>
    /\ failed' = failed \union {s}
    /\ faulty' = faulty \union {s}
    /\ todo' = Tail(todo)
    /\ \/ UNCHANGED <<connections, spoiled>>
       \/ /\ Loader = "mssql"
          /\ connections' = Opened({s})
          /\ spoiled' = Plus(spoiled, {s})
    /\ UNCHANGED <<env, iterVars, phase, requested, ready, open, buffer, target,
                   runs, outcome, persisted, repeats, from>>

(* _build_effective_schema is called outside the try statement: its          *)
(* exception leaves run(), and the streams prepared so far stay open.        *)
SchemaClash ==
    LET s == Head(todo) IN
    /\ "clash" \in Faults
    /\ phase = "prepare" /\ todo # <<>>
    /\ faulty' = faulty \union {s}
    /\ phase' = "idle"
    /\ outcome' = "aborted"
    /\ todo' = <<>>
    /\ spoiled' = Plus(spoiled, Elems(ready))
    /\ UNCHANGED <<env, iterVars, requested, ready, failed, open, buffer, target,
                   connections, runs, persisted, repeats, from>>

(* No stream could be prepared.                                              *)
NothingReady ==
    /\ phase = "prepare" /\ todo = <<>> /\ ready = <<>>
    /\ phase' = "idle"
    /\ outcome' = "errors"
    /\ UNCHANGED <<env, iterVars, requested, todo, ready, failed, open, buffer,
                   target, connections, runs, history>>

(* with PipeIterator(source, streams_ready, ...) as pipe                     *)
EnterPipe ==
    /\ phase = "prepare" /\ todo = <<>> /\ ready # <<>>
    /\ Enter(ready)
    /\ phase' = "extract"
    /\ UNCHANGED <<env, requested, todo, ready, failed, open, buffer, target,
                   connections, runs, outcome, history>>

-----------------------------------------------------------------------------
(* for stream_name, chunk in pipe                                            *)

Extract == phase = "extract" /\ Iterate /\ UNCHANGED runVars

WriteChunk ==
    LET s == item.stream IN
    /\ phase = "extract" /\ iter = "yielded"
    /\ s \in open
    /\ buffer' = [buffer EXCEPT ![s] = Extended(@, item)]
    /\ Resume
    /\ UNCHANGED <<env, phase, requested, todo, ready, failed, open, target,
                   connections, runs, outcome, history>>

(* except Exception: every prepared stream is rolled back, the exception is  *)
(* raised again and leaves the with block.                                   *)
WriteFails ==
    /\ "write" \in Faults
    /\ phase = "extract" /\ iter = "yielded"
    /\ faulty' = faulty \union {item.stream}
    /\ open' = open \ Elems(ready)
    /\ buffer' = Without(Elems(ready))
    /\ connections' = Closed(Elems(ready))
    /\ Close
    /\ phase' = "idle"
    /\ outcome' = "aborted"
    /\ UNCHANGED <<env, requested, todo, ready, failed, target, runs, persisted,
                   repeats, from, spoiled>>

(* The streams the errors of the iterator roll back.                         *)
RolledBackFirst == IF errors = {} THEN {} ELSE {CHOOSE s \in errors : TRUE}
RolledBack == errors

(* The loop is over.  except _WorkerErrors: each stream named is rolled back *)
(* and recorded; the others go on to the commit loop.                        *)
ExtractDone ==
    /\ phase = "extract" /\ IterOver
    /\ open' = open \ RolledBack
    /\ buffer' = Without(RolledBack)
    /\ connections' = Closed(RolledBack)
    /\ failed' = failed \union RolledBack
    /\ faulty' = faulty \union errors
    /\ todo' = ready
    /\ phase' = "commit"
    /\ UNCHANGED <<env, iterVars, requested, ready, target, runs, outcome,
                   persisted, repeats, from, spoiled>>

-----------------------------------------------------------------------------
(* The commit loop.                                                          *)

(* if stream_name not in errored_streams                                     *)
SkipErrored ==
    /\ phase = "commit" /\ todo # <<>> /\ Head(todo) \in failed
    /\ todo' = Tail(todo)
    /\ UNCHANGED <<env, iterVars, phase, requested, ready, failed, open, buffer,
                   target, connections, runs, outcome, history>>

Committing(s) == phase = "commit" /\ todo # <<>> /\ Head(todo) = s /\ s \notin failed

(* The buffer and its connection are dropped, however the commit ends.       *)
DropBufferStaysOpen(s) ==
    /\ open' = open \ {s}
    /\ buffer' = Without({s})
    /\ UNCHANGED connections
DropBuffer(s) ==
    /\ open' = open \ {s}
    /\ buffer' = Without({s})
    /\ connections' = Closed({s})

(* The streams the loop goes on with after an exception.                     *)
AfterErrorNone == <<>>
AfterError == Tail(todo)

(* An exception of _commit_stream is collected and the loop goes on.         *)
CollectError(s) ==
    /\ failed' = failed \union {s}
    /\ faulty' = faulty \union {s}
    /\ todo' = AfterError

Repeated(s) == repeats' = [repeats EXCEPT ![s] = @ + 1]

Commit(s) ==
    /\ Committing(s) /\ s \in open
    /\ target' = [target EXCEPT ![s] = Landed(s)]
    /\ from' = [from EXCEPT ![s] = Base(s)]
    /\ DropBuffer(s)
    /\ IF full THEN Repeated(s) ELSE UNCHANGED repeats
    /\ phase' = "persist"
    /\ UNCHANGED <<env, iterVars, requested, todo, ready, failed, runs, outcome,
                   faulty, persisted, spoiled>>

CommitFails(s) ==
    /\ "commit" \in Faults
    /\ Committing(s)
    /\ \E rows \in Undone(s) : target' = [target EXCEPT ![s] = rows]
    /\ DropBuffer(s)
    /\ CollectError(s)
    /\ UNCHANGED <<env, iterVars, phase, requested, ready, runs, outcome,
                   persisted, repeats, from, spoiled>>

CommitAckLost(s) ==
    /\ "ack" \in Faults
    /\ Committing(s) /\ s \in open
    /\ target' = [target EXCEPT ![s] = Landed(s)]
    /\ DropBuffer(s)
    /\ CollectError(s)
    /\ Repeated(s)
    /\ UNCHANGED <<env, iterVars, phase, requested, ready, runs, outcome, persisted,
                   from, spoiled>>

Persisting(s) == phase = "persist" /\ todo # <<>> /\ Head(todo) = s

(* state_store.set                                                           *)
SetState(s) ==
    /\ Persisting(s)
    /\ store' = [store EXCEPT ![s] = GetPipeState(s)]
    /\ persisted' = persisted \union {s}
    /\ todo' = Tail(todo)
    /\ phase' = "commit"
    /\ UNCHANGED <<source, full, iterVars, requested, ready, failed, open, buffer,
                   target, connections, runs, outcome, faulty, repeats, from, spoiled>>

SetFails(s) ==
    /\ "set" \in Faults
    /\ Persisting(s)
    /\ CollectError(s)
    /\ IF full THEN UNCHANGED repeats ELSE Repeated(s)
    /\ phase' = "commit"
    /\ UNCHANGED <<env, iterVars, requested, ready, open, buffer, target, connections,
                   runs, outcome, persisted, from, spoiled>>

(* The with block ends; PipelineRunError is raised if errors were collected. *)
CommitsDone ==
    /\ phase = "commit" /\ todo = <<>>
    /\ Close
    /\ phase' = "idle"
    /\ outcome' = IF failed = {} THEN "ok" ELSE "errors"
    /\ UNCHANGED <<env, requested, todo, ready, failed, open, buffer, target,
                   connections, runs, history>>

-----------------------------------------------------------------------------
(* The process dies: open transactions are undone by the database, and its   *)
(* connections closed.                                                       *)
UnderWay == IF phase = "commit" /\ todo # <<>> THEN {Head(todo)} \ failed ELSE {}

Crash ==
    /\ "crash" \in Faults
    /\ phase # "idle"
    /\ DropIter
    /\ phase' = "idle"
    /\ outcome' = "crashed"
    /\ todo' = <<>> /\ ready' = <<>>
    /\ open' = {}
    /\ buffer' = [s \in Streams |-> Nothing]
    /\ \/ UNCHANGED target
       \/ \E s \in UnderWay : \E rows \in Undone(s) : target' = [target EXCEPT ![s] = rows]
    /\ connections' = Zero /\ spoiled' = Zero
    /\ IF phase = "persist" /\ ~full THEN Repeated(Head(todo)) ELSE UNCHANGED repeats
    /\ UNCHANGED <<env, requested, failed, runs, faulty, persisted, from>>

SourceGrows(s) ==
    /\ source[s] < MaxRows
    /\ source' = [source EXCEPT ![s] = @ + 1]
    /\ UNCHANGED <<store, full, iterVars, runVars>>

Extraction(s) == Worker(s) /\ UNCHANGED runVars

CommitLoop ==
    \/ SkipErrored
    \/ \E s \in Streams : Commit(s)
    \/ \E s \in Streams : CommitFails(s)
    \/ \E s \in Streams : CommitAckLost(s)
    \/ \E s \in Streams : SetState(s)
    \/ \E s \in Streams : SetFails(s)
    \/ CommitsDone

(* The statements of run() after its start.                                  *)
MainThread ==
    \/ PrepareStream
    \/ PrepareFails
    \/ SchemaClash
    \/ NothingReady
    \/ EnterPipe
    \/ Extract
    \/ WriteChunk
    \/ WriteFails
    \/ ExtractDone
    \/ CommitLoop

(* The bound on runs is reached.                                             *)
Stop == phase = "idle" /\ runs = MaxRuns /\ UNCHANGED vars

Next ==
    \/ \E list \in Requests, f \in FullRefresh : BeginRun(list, f)
    \/ \E list \in Requests : StartFails(list)
    \/ MainThread
    \/ \E s \in Streams : Extraction(s)
    \/ Crash
    \/ \E s \in Streams : SourceGrows(s)
    \/ Stop

Spec == Init /\ [][Next]_vars

(* The interpreter runs the main thread and every worker that can run.       *)
(* Nothing is assumed of the callers of run(), of the source's growth, of    *)
(* faults or of crashes.                                                     *)
Fairness ==
    /\ WF_vars(MainThread)
    /\ \A s \in Streams : WF_vars(Extraction(s))

FairSpec == Spec /\ Fairness
-----------------------------------------------------------------------------
(* Properties.                                                               *)

(* The types of the variables of run() and of the destination's buffers.     *)
RunTypeOK ==
    /\ phase \in {"idle", "prepare", "extract", "commit", "persist"}
    /\ requested \subseteq Streams
    /\ todo \in Seq(Streams)
    /\ ready \in Seq(Streams)
    /\ failed \subseteq Streams
    /\ open \subseteq Streams
    /\ buffer \in [Streams -> [RowIds -> Nat]]
    /\ target \in [Streams -> [RowIds -> Nat]]
    /\ connections \in [Streams -> Int]
    /\ runs \in Nat
    /\ outcome \in {"ok", "errors", "aborted", "crashed", "running"}
    /\ faulty \subseteq Streams
    /\ persisted \subseteq Streams
    /\ repeats \in [Streams -> Nat]
    /\ from \in [Streams -> 0..MaxRows]
    /\ spoiled \in [Streams -> Nat]

(* Types of the whole state.                                                 *)
TypeOK == IterTypeOK /\ RunTypeOK

(* No row is ever lost: a stored watermark never covers a row that is not in *)
(* the table, whichever faults, crashes and source growth came before.       *)
(* Replaced tables are left out: see ReplacedHoldsBatch.                     *)
NoLoss ==
    \A s \in Streams : ~Replaces(s) =>
        \A r \in 1..store[s] : target[s][r] > 0

(* Delivery is at least once, and duplicates are accounted for: a row is in  *)
(* the table once, plus at most once for each commit whose watermark was not *)
(* stored or that was a full refresh, and then only if batches are added.    *)
DuplicatesExplained ==
    \A s \in Streams : \A r \in RowIds :
        target[s][r] <= IF Adds(s) THEN 1 + repeats[s] ELSE 1

(* Destination.commit is called after all rows have been written: at any     *)
(* time in the commit loop, each stream still to be committed has a buffer   *)
(* holding exactly once the rows between the watermark it started from and   *)
(* the one about to be stored.                                               *)
CommitsWholeBatch ==
    phase = "commit" =>
        \A s \in Elems(todo) \ failed :
            /\ s \in open
            /\ \A r \in RowIds :
                 buffer[s][r] = IF Base(s) < r /\ r <= GetPipeState(s) THEN 1 ELSE 0

Over == phase = "idle" /\ outcome # "crashed"

(* ADR-0006: run() attempts all streams whatever happens to the others, so   *)
(* at the end each one has its watermark stored or has failed itself.        *)
ContinueOnStreamError == Over => requested \subseteq persisted \union faulty

(* PipelineRunError is raised at the end with every stream that failed and   *)
(* no other; without one run() returns normally.                             *)
FailuresReported ==
    /\ Over /\ outcome = "errors" => failed = faulty /\ failed # {}
    /\ Over /\ outcome = "ok" => faulty = {}

(* However run() ends, each connection that prepare_stream opened has been   *)
(* closed, once, by the commit or the rollback of its stream, but for those  *)
(* run() has no buffer of or forgets: the one of a prepare_stream that       *)
(* raised, and those of the streams prepared before a schema clash.          *)
ConnectionsReleased == Over => connections = spoiled

(* A stored watermark never moves back, not even by a full refresh.          *)
WatermarkNeverRegresses == [][\A s \in Streams : store'[s] >= store[s]]_vars

(* A stream that is replaced in place and whose run has stored its watermark *)
(* has a table of exactly the rows that run has read, once each, whatever    *)
(* failed commits and crashes had left there: up to the watermark for a full *)
(* refresh, but without the rows up to the old one for an incremental run.   *)
HoldsBatch(s, w) ==
    \A r \in RowIds : target[s][r] = IF from[s] < r /\ r <= w THEN 1 ELSE 0
ReplacedHoldsBatch ==
    \A s \in persisted : InPlace(s) =>
        /\ HoldsBatch(s, store[s])
        /\ full => from[s] = 0

(* Pipeline implements AtLeastOnce: a commit lands one whole batch and the   *)
(* watermark only moves over rows that have landed.  Unless it replaces.     *)
Promise == INSTANCE AtLeastOnce WITH Appends <- {s \in Streams : Adds(s)}
ImplementsAtLeastOnce == Promise!Spec

(* run() always comes to its end: extraction, rollback and commit loops      *)
(* terminate whatever fails in them.                                         *)
RunEnds == phase # "idle" ~> phase = "idle"
-----------------------------------------------------------------------------
(* The inductive invariant behind the properties above.                      *)

Distinct(list) == \A i, j \in 1..Len(list) : list[i] = list[j] => i = j

(* The buffer of s holds the rows above Base(s) up to w, once each.          *)
Holds(s, w) ==
    /\ s \in open
    /\ Base(s) <= w
    /\ \A r \in RowIds : buffer[s][r] = IF Base(s) < r /\ r <= w THEN 1 ELSE 0

PrepareInv ==
    phase = "prepare" =>
        /\ Distinct(todo) /\ Distinct(ready)
        /\ Elems(todo) \intersect Elems(ready) = {}
        /\ Elems(ready) \subseteq open
        /\ \A s \in Elems(ready) : buffer[s] = Nothing

(* The last row of s the loop has handed to Destination.write.               *)
Written(s) == IF iter = "yielded" /\ item.stream = s THEN item.first - 1 ELSE delivered[s]

ExtractInv ==
    phase = "extract" =>
        /\ streams = ready /\ Distinct(ready)
        /\ iter \in {"running", "yielded", "exhausted", "raised"}
        /\ iter = "yielded" => item.first > 0
        /\ \A s \in Elems(ready) : Holds(s, Written(s))

(* The streams the commit loop has yet to begin with.                        *)
Waiting == IF phase = "commit" THEN todo ELSE Tail(todo)

CommitInv ==
    phase \in {"commit", "persist"} =>
        /\ IterOver /\ errors \subseteq failed
        /\ Distinct(todo) /\ Elems(todo) \subseteq Elems(streams)
        /\ \A s \in Elems(Waiting) \ failed : Holds(s, state[s])

(* Between Destination.commit and StateStore.set the rows of the batch are   *)
(* in the table.                                                             *)
PersistInv ==
    phase = "persist" =>
        /\ todo # <<>> /\ Head(todo) \notin failed
        /\ ~Replaces(Head(todo)) =>
               \A r \in RowIds : Base(Head(todo)) < r /\ r <= state[Head(todo)] =>
                   target[Head(todo)][r] > 0

(* A row the watermark covers, or is about to, is in the table once more     *)
(* than it was repeated; other rows are there as often as repeated.          *)
Accounted(s, r) ==
    IF ~Adds(s) THEN 1
    ELSE IF \/ r <= store[s]
            \/ phase = "persist" /\ Head(todo) = s /\ ~full /\ r <= state[s]
         THEN 1 + repeats[s] ELSE repeats[s]

CopiesInv == \A s \in Streams : \A r \in RowIds : target[s][r] <= Accounted(s, r)

RunInv == PrepareInv /\ ExtractInv /\ CommitInv /\ PersistInv /\ CopiesInv /\ NoLoss

PipelineInv == IterInv /\ RunInv

(* run() attempts every stream: one that is not ahead of it any more has its *)
(* watermark stored or is recorded as failed.                                *)
AttemptInv ==
    /\ phase # "idle" <=> outcome = "running"
    /\ phase # "idle" => failed = faulty /\ requested # {}
    /\ phase = "prepare" => requested \subseteq Elems(todo) \union Elems(ready) \union failed
    /\ phase = "extract" => requested \subseteq Elems(ready) \union failed
    /\ phase \in {"commit", "persist"} =>
           requested \subseteq Elems(todo) \union persisted \union failed
    /\ Over /\ outcome \in {"ok", "errors"} => requested \subseteq persisted \union faulty
    /\ FailuresReported

(* The streams whose connection is in the hands of run().                    *)
Holding ==
    IF phase \in {"prepare", "extract"} THEN Elems(ready)
    ELSE IF phase \in {"commit", "persist"} THEN Elems(Waiting) \ failed ELSE {}

(* Beside the abandoned ones there is a connection for each of these.        *)
OpenInv ==
    /\ \A s \in Streams : connections[s] = spoiled[s] + IF s \in Holding THEN Uses ELSE 0
    /\ phase = "prepare" => failed \intersect (Elems(todo) \union Elems(ready)) = {}
    /\ phase = "extract" => failed \intersect Elems(ready) = {}

(* A stream in the list has not been persisted; between commit and set the   *)
(* table holds the batch already.                                            *)
ReplaceInv ==
    /\ phase \in {"prepare", "extract"} => persisted = {}
    /\ phase \in {"commit", "persist"} => Elems(todo) \intersect persisted = {}
    /\ phase = "persist" /\ InPlace(Head(todo)) =>
           /\ HoldsBatch(Head(todo), state[Head(todo)])
           /\ full => from[Head(todo)] = 0
    /\ ReplacedHoldsBatch
=============================================================================
