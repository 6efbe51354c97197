# fflow in TLA+

fflow is a Python extract-and-load library: a `Pipeline` reads *streams* from a
source, buffers them in a destination, commits each stream and stores its
watermark. This directory holds TLA+ models of it, the TLC instances that
model-check them, and TLAPS proofs of their safety properties. `PROJECT.json` lists
components, runs, mutants, findings, hazards and theorems, and maps every
definition to the lines of source it stands for.

To run one instance or check one proof:

    tlc -workers 2 -config MCPipeline_faults.cfg MCPipeline
    tlapm PipelineProofs.tla

## 1. The system

| component | state | operations |
|---|---|---|
| `Pipeline.run` (`pipeline/pipeline.py`) | requested, ready and failed streams of the run | select, prepare each stream, extract, roll back the failed, commit each stream and store its state, raise `PipelineRunError` |
| `PipeIterator` (`extract/pipe_iterator.py`) | thread pool, bounded queue, one state dict per stream, errors | `__enter__` submits a worker per stream; a worker reads its state, puts chunks and one sentinel; `__iter__` counts sentinels; `__exit__` shuts the pool down |
| sources (`sources/*.py`) | the database or API | `discover`, `read(stream, state)`, a generator that updates the state dict at its end |
| destinations (`destinations/*.py`) | a buffer and a connection per prepared stream | `prepare_stream` (DDL), `write` (buffer), `commit` (append, replace, merge), `rollback` |
| state stores (`common/state.py`) | one watermark dict per (pipeline, stream) | `get`, `set` |
| `PipelineTaskGroup` (`helpers/airflow.py`) | the tasks of the group | one Airflow task, so one process, per stream; a check that no two streams share a task id; a retry policy around `run()` |
| hashing, metadata, schema, type maps, decorators, CLI | none between calls | pure functions and construction |

How they interact. `run()` calls the destination's `prepare_stream` on the main
thread, then iterates over the `PipeIterator`. Worker threads call
`StateStore.get` and the source's generator, and talk to the main thread through
one bounded queue; the main thread hands each chunk to `Destination.write`. When
the iteration ends, failed streams are rolled back, and for each other stream
`Destination.commit` is followed by `StateStore.set` with the dict the worker's
generator has filled in. Several processes (Airflow tasks, overlapping runs)
share the destination's tables and the state store and nothing else.

What is hard:

* threads: workers block on a full queue, the consumer on an empty one; the end
  is detected by counting sentinels that carry no name; any worker may raise;
* partial failure: each of prepare, read, write, commit and set can fail for one
  stream, and commit and set are two steps with no transaction around them;
* the source changes while it is read;
* the process may die anywhere, and the next run starts from what survived;
* overlapping runs share a staging table, DDL, state files and the state table;
* a task is tried again by the retry policy in its process and by Airflow in
  another, which may start while the first still runs;
* rows tie on the cursor, have none, or become visible out of its order.

What makes each component correct:

* iterator: every row of a healthy stream is yielded in order, the failed
  streams are exactly those reported, and the iteration ends;
* `run()`: at-least-once delivery. A stored watermark never covers a row that is
  not in the table; streams do not disturb each other (ADR-0006); no watermark of a
  failed stream is stored; what was opened is closed; the run ends;
* CDC: no change is skipped, no row goes back in time, and the destination
  converges to the source;
* destinations: what commit returns from has landed as the write disposition
  says; merge is an upsert; the schema contract is kept;
* REST: what the watermark covers has been answered and delivered;
* reads by a cursor column: what the watermark excludes has been read, but for
  rows that became visible behind it, and nothing is appended twice but ties;
* task group: every task is settled, and a success has delivered what was due;
* state store: an atomic register per stream.

## 2. The modules

| module | models | composed of |
|---|---|---|
| `PipeIterator` | `pipe_iterator.py` | |
| `Pipeline` | `Pipeline.run`, one of the destinations, a state store, an appending source | EXTENDS `PipeIterator` |
| `AtLeastOnce` | what `run()` promises (abstract) | implemented by `Pipeline` |
| `CdcSync` | `CacheSource._read_mirror` through a run into a merge stream | |
| `CursorSource` | `SQLSource.read`, of a table or a SQL file, and `CacheSource._read_sql_file`, through a run | |
| `TaskGroup` | `PipelineTaskGroup`, under Airflow, over runs that share tables and state | |
| `RestSource` | `RestSource.read` and its paginators through a run | |
| `SqlLoad` | `SQLDestination`, `RedshiftDestination`, `MSSQLDestination`, `S3Destination`: contract, staging, commits, for overlapping runs | |
| `StateStores` | `FileStateStore` and `SqlStateStore` with threads, processes and crashes | |
| `StateRegister` | what the `StateStore` protocol promises (abstract) | implemented by `StateStores` |
| `PipeIteratorProofs`, `PipelineProofs`, `CdcSyncProofs`, `CursorSourceProofs`, `RestSourceProofs`, `SqlLoadProofs`, `StateStoresProofs`, `TaskGroupProofs` | theorems and proofs | each EXTENDS the module it is named for |
| `MC*` | instances for TLC | |

**PipeIterator.** Rows are numbered in cursor order, so a watermark is a row
number and a chunk an interval. `wpc[s]` is where the worker of stream `s` is in
`_extract_stream`: `get` (state lookup), `open` (the source's query starts and
fixes the result set, `last`), `read` (full chunks), `tail` (the generator is
exhausted, the state dict updated, a short chunk still to be put), `raising` (in
the `except`, about to put its `_StreamError`), then `done` or `failed`. The pool
picks up `backlog` in submission order, at most `PoolSize` at a time. `iter` is
the generator `__iter__`; between `GetRows` and `Resume` the main thread is in
the body of the loop. `Close` is `__exit__`: `shutdown(wait=False,
cancel_futures=True)` empties the backlog and lets running threads go on. The
name recorded in a done sentinel is there for the invariant and never read.

**Pipeline.** `phase` is where the main thread is in `run()`; each loop of
`run()` is a phase that goes through `todo`. `buffer` and `target` count copies
of each row. One action per statement that can fail or be interrupted: commit and
set are separate, and each has a failing twin; `CommitAckLost` is a commit the
database performed and the client saw fail. `WriteFails` is the `except` around
the extraction loop, which aborts the run. `Crash` ends the run anywhere: buffers,
iterator and connections are gone, tables and watermarks stay.
The iterator's threads are the actions of `PipeIterator`, interleaved with the
main thread. `faulty`, `persisted`, `repeats`, `from` and `spoiled` are history
variables that no action reads.

`Loader` is the destination. How a commit lands a batch is one step here (`SqlLoad`
takes it apart), but what it leaves behind, and what a commit that fails leaves
behind, depends on it: `mssql` truncates and inserts in one transaction; `copy`,
Redshift with S3, commits its TRUNCATE first, so that a failed replace may leave an
empty table (`Undone`); `insert`, Redshift without S3, calls the empty method of
`SQLDestination` to replace and changes nothing; `file`, `S3Destination`, adds a
file whatever the disposition. `connections` counts what `prepare_stream` opened and
no `close()` of the destination has closed (`mssql.py:125`, `sql.py`): commit and
rollback close the one of the buffer they take, a `prepare_stream` of
`MSSQLDestination` that raises has opened one that nobody holds, and a schema clash
leaves those of the streams before it. `spoiled` counts the last two. A connection
nobody refers to may still be closed when the interpreter collects it; that is not
something fflow's code does, and is left out. `S3Destination` refuses a merge stream in
`prepare_stream`, so `Pipeline` assumes none with it (`RefuseMerge` of `SqlLoad`).

**CdcSync.** A row's content is the `STTRCID` of the write that made it, which
lets the properties compare ages. A first run reads `MAX(STTRCID)`, then fetches
rows one by one while the table changes. An incremental run reads the log and
then fetches the joined rows one by one. One query sees one state of the
*log*: the model makes that assumption about the database, because the query
(`cache.py:277-296`) has no upper bound on `STTRCID` and its two halves would
otherwise be able to skip an update. `Dialect` selects the merge: SQL Server's
with deduplication and delete handling, or the generic one. `mode` is how the
table is read: by the log after a first run that scans the table (`log`) or that
leaves it to `cache-shuttle.jar` (`shuttle`), or by a scan in every run (`none`,
`cursor_type="none"`). The shuttle writes into the target row by row, past the
destination's buffer and its transaction (`ShuttleRow`), so nothing takes its rows
back when the run fails; `doubled` holds the keys it has inserted twice.

**CursorSource.** A writer takes the cursor value of a row from a clock that may
stand still (`Write`), and the row becomes visible when its transaction commits
(`Become`), so rows tie and appear out of cursor order; an update is a new version
of the row, and a row may have no cursor value. A query of `SQLSource` answers with
the versions visible when it is executed: an assumption about its database, which
holds of one that reads a snapshot per statement. `CacheSource` fetches its rows batch by batch (`fetch_iter`), and as in
`CdcSync` nothing is assumed of the batches: until the last one, a row that changes
may be returned as it was, as it is, as both or not at all (`Returned`). A row that
is left alone is returned. The loop over the result set only changes locals, so
`Drain` is one step. `mode` is the stream's configuration: table or SQL file, of
`SQLSource` or `CacheSource`; whether the file compares with `>`, with `>=` or not at
all; whether it has the placeholder; whether JSON takes the values of the cursor;
append or merge. The two sources differ in the first value of `max_cursor`
(`FirstMark`): `SQLSource` goes on from the stored watermark, `CacheSource` starts
from nothing. `late` holds the versions that became visible behind a watermark, or
during a query that left them out and returned a row whose cursor excludes them; `marks` and `repeats` explain why a row may be appended again.

**TaskGroup.** The constructor goes through its list of streams (`AddTask`,
`RaiseCollision`). Airflow is external: it schedules tasks, executes a queued one
in a new process, retries it or gives it up, and may miss the heartbeat of a
process that goes on running. A process is the callable `_run`: `Read`, `Commit`
and `SetState` are a run of its one stream at the grain that retries can tell apart,
`RunFails`, `AckLost` and `SetFails` the ways it raises, `Again` the retry loop.
Watermarks are kept per sanitised name, as the state files are. `overlap` holds the
streams that two processes have run at a time.

**RestSource.** The API is external. It answers in the order of the cursor
field, a record that is created or updated goes to the end of that order, several
changes may carry one cursor value, and the filter includes the value it is given
(`updated_since`). A page or an offset addresses a position, a next link or a
response cursor the record to go on after. A record's content is the number of
its last change, so that what a run delivers can be compared with what there was
when it began. Each request is a step (`FetchPageNumber`, `FetchOffset`,
`FetchToken`, ...), with the ends the code has: an empty or short page, no next
link, `max_pages`, a link already seen. Commit and set are steps of their own.

**SqlLoad.** A table is its set of columns and a number of rows per merge key.
The schema contract and the mode (write disposition and loader) are chosen
initially: `insert` and `copy` are `RedshiftDestination` without and with an S3
prefix, `mssql` is `MSSQLDestination`, `file` is `S3Destination`. Each DDL
statement of `prepare_stream` is a step, as it is autocommitted. A commit is a
step per transaction: one, or, where Redshift is concerned, the TRUNCATE
(which commits at once there), the upload, and the rest. A COPY needs a file with
exactly the columns of the table (`MayLoad`). Both are properties of Redshift that the model
assumes. An S3 file is named by the run's uuid, so only its own run can see it
before it is done. Three runs may overlap, two at a time; the history variable
`alone` tells which runs did not. SQL Server's `#fflow_staging` belongs to a
connection and is not state that runs share. A run begins with the columns of its
effective schema (`wanted`) and those of its rows (`carried`): `discover()` finds none
for a SQL file of `SQLSource` or for an endpoint that fails, and then `wanted` is
`loaded_at` alone, or nothing.

**StateStores.** `store` is chosen initially. For files, `file` and `tmp` map
paths to inodes, so a rename moves an inode and a writer that holds the old one
open goes on writing to it; `get` takes no lock and is two steps (`exists`, then
open and parse); `set` is lock, open, dump, rename. For the database, `rows`
holds what is committed; `set` is lock, UPDATE, INSERT if no row was hit, commit,
and a statement waits for a row another transaction has written. Each of them may
raise: `json.dumps` before the lock (`DumpsFails`), `json.dump` with part of the file
written (`DumpFails`), `mkdir`, `open`, `replace`, connecting, UPDATE, INSERT and COMMIT
(`StatementFails`); and COMMIT may be lost on its way back (`CommitAckLost`), so that
`set` raises although the row is stored. `StateRegister` allows the last one where its
`doubtful` is set, which the refinement does for the database only: a `set` of a file
that raises has stored nothing. A `get` that raises for want of a connection changes
nothing and is left out. `initialize()`
is two steps, between which another process may create the table. The lock
belongs to an object, so to a process. The refinement of `StateRegister` is
checked for files where each stream has a file of its own and no stream is stored
by two processes at once, and for the database with both processes storing one
stream.

## 3. What the runs show

Passing runs:

| run | instance | shows |
|---|---|---|
| `iterator_safety` | 3 streams, 2 threads, queue of 2, chunks of 2, up to 3 rows, 2 streams that may fail, two sources that grow | every row yielded in order; sentinels counted right; errors exact |
| `pipeline_faults` | 2 streams (append, merge) into SQL Server, 2 runs, all faults and crashes, full refresh or not | `NoLoss`, `DuplicatesExplained`, `CommitsWholeBatch`, `ConnectionsReleased`, `WatermarkNeverRegresses`, the refinement of `AtLeastOnce`, and that `run()` ends (`RunEnds`) |
| `pipeline_collected` | the faults `run()` collects per stream, and crashes; an append and a replace stream of Redshift with COPY, 2 runs, full refresh or not | the other streams complete; failures reported; a replaced table holds exactly the batch whose watermark was stored (`ReplacedHoldsBatch`) |
| `cdc_mirror` | 2 keys, 4 events with the log, 2 with the shuttle or without a cursor, 2 faults, full refresh allowed | no change or delete skipped, rows only move forward, watermark never regresses, the destination converges |
| `cursor_source` | 2 keys, 3 row versions, cursor values 0 and 1, 8 configurations, 1 fault, 2 runs of a stream that appends | only late rows are passed over, only ties appended again, the watermark moves on, a merge stream gets every row |
| `task_group` | a list of one or two streams, `a_b` and `a.b`, one the source does not list, 2 processes, 2 attempts, 2 tries, every fault | no update lost without overlap; a success has delivered; tasks are settled |
| `rest_read` | 3 records, pages of 2, `max_pages` 1 and 2, 4 changes, 1 fault | nothing falls behind the watermark unread; a read that was not cut off is complete; repeated runs converge |
| `sql_load` | 3 runs, 2 at a time, 4 contracts, every disposition and loader, 2 keys, 3 columns, 4 schemas | a run that was alone and knew its columns delivers exactly its batch; INSERTs and copied files fit the tables (`LoadsFit`) |
| `state_stores` | 2 threads and a second process, 3 sets, crashes, statements that raise, a lost acknowledgement, files or a table | refinement of `StateRegister`: no read of half a file or of a missing table, no lost set, none half done |

Runs that find a violation, each a finding of `PROJECT.json`:

| run | what TLC finds |
|---|---|
| `adr0006` | an exception in `write`, hashing or metadata aborts healthy streams, against ADR-0006 |
| `redshift_deletes` | the generic and Redshift merges insert delete events as rows of NULLs |
| `redshift_replace` | without S3, a Redshift replace commits nothing, and its watermark is stored |

**Conditions.** Some properties hold under a condition, and TLC finds them
violated without it; each is a hazard of the code listed in `PROJECT.json`.
`CommitDelivers` speaks of a run no other run overlapped:
overlapping runs merge each other's rows through the shared staging table, and a
commit that is one step here says nothing of how two overlapping transactions
interleave under the isolation level of a database. It also speaks of a run whose
columns `discover()` found: a SQL file of `SQLSource`, or an endpoint whose discovery
failed, is loaded with `loaded_at` and no other column, and commit returns.
`CommitDelivers` lets the generic merge land two rows of a key from one batch,
which it does not deduplicate. `StateStores`: two processes that store
one stream's file share its `.tmp`, and two stream names that sanitise to one
file name share a watermark. `RestSource`: page numbers are checked over
endpoints that do not change while they are read (a record created on a short page
already read is passed over), offsets over endpoints that only create records (an
update shifts positions), links and cursors over both. An API that answers newest
first loses what `max_pages` cuts off. `Converges` of `RestSource` wants fewer
records per cursor value than a run may fetch, as the stream would otherwise stay
where it is.
`ReplacedHoldsBatch` says what a replaced table holds once its watermark is stored: the
rows of that run. The worker passes the stored watermark to the source whatever the
disposition, so without `full_refresh` that is the last increment alone, where
`config.py:23` says "truncate the destination table then reload all rows"; and a replace
of Redshift whose COPY failed leaves an empty table under the old watermark until a run
succeeds. `NoLoss` leaves replaced streams out for both reasons.
`ConnectionsReleased` says which connections are left when `run()` is over, and that no
others are: those of a `prepare_stream` of `MSSQLDestination` that raised (a failed query,
DDL or contract, `mssql.py:130-141`), a failure `run()` collects, and those of the
streams prepared before a clash in `_build_effective_schema` (`pipeline.py:243`).
`LoadsFit`: a file that is copied brings only columns its table has, unless the contract
discards columns, which COPY does not heed, or `discover()` found none; then Redshift
refuses the COPY (`MayLoad`), and the run fails every time, as it does for a column
the source has dropped.
`CdcSync`: `NoDeleteSkipped` and `Converges` leave out deletes once the table was
loaded again over one that held rows (`reloaded`). A retry of a first load whose
state was not stored, or a full refresh, reads `pre_max_cid` anew, above the delete
event of a row the first load had brought; the merge touches no key outside its
batch, and the row stays for good, although `CONTEXT.md:24` says "all rows are copied
1:1 from source to destination". After a shuttle that was repeated, a row may be
there twice or beside an older version until the log mentions it again.
`CursorSource`: a row that becomes visible with a cursor value at or below the
watermark (below it, for a filter with `>=`) is never read. In a SQL file the
first run's placeholder is 0, which passes over a NULL cursor and values the filter
puts at or below 0. `MarkMovesOn` leaves out a SQL file of `CacheSource` that does
not filter by the placeholder, whose watermark follows the rows back. A stream
that appends, with a cursor that JSON does not take (a datetime), is loaded in full by
every run. A SQL file without the placeholder is read once and refused from then on.
`TaskGroup`: for a merge stream `NoUpdateLost` wants runs that do not overlap. Where
Airflow misses the heartbeat of a slow process and starts another, the slow one may
commit an older row last, under the watermark of the newer. A task whose
stream the source does not list succeeds without doing anything.

**Bounds.** Two streams are enough for one to disturb another; the iterator gets
a third so that a pool of two has a backlog. Chunks of two and up to three rows
give full chunks, short tails and empty reads. Queues of one or two places block
producers. Two runs let the second start from anything the first can leave
behind, including a repeated batch or an emptied table. TLC runs `Pipeline` with the
two loaders that treat a failure differently, `mssql` and `copy` (`insert` in `adr0006`);
the theorems below are about all four and do not depend on any of these bounds. Four events on two keys hold a write, a delete and a rewrite of one
key beside a change of the other during a scan; two faults allow a failed run and
a failed retry. Three records in pages of two make a full and a short page, and
four changes update a record while another is on its way. Three calls of `set` and
five inodes cover a writer overtaken by another with a stale file left behind, and
three transactions on two rows. Three row versions on two keys hold an update and a
row beside it, and two cursor values a tie and a row behind the watermark; with one
fault the run after it is checked as a retry. Two processes are a task given up and
its successor, two attempts and two tries the first and the last of each; two
changes are a row and its update, or the rows of two keys. Three loads allow a run that
overlaps two others one after the other, or that meets a table two earlier ones have
shaped.
`MaxRows`, `MaxRuns`, `MaxCid`, `MaxFaults`, `MaxChanges` and `MaxSets` are the
only bounds of the models, and each stands in a guard. The models of the loads and
of `run()` have a `Stop` step when their bound is reached, so that deadlock is
checked.

**Fairness.** `PipeIterator` and `Pipeline`: weak fairness of the main thread and
of each worker, i.e. the operating system runs every thread that can run; a
source that grows, a fault and a crash are never forced. `queue.put` and
`queue.get` block without a timeout, so nothing stronger is assumed of the queue.
`CdcSync`, `CursorSource` and `RestSource`: weak fairness of the steps of a run and
of starting the next incremental run, as a scheduler does ("the next scheduled run",
ADR-0006). `TaskGroup`: Airflow executes a task that stays queued and misses
the heartbeat of a process that is gone, and each process goes on while it lives;
nothing makes Airflow schedule a task again, or miss the heartbeat of a process that
lives (`HeartbeatGone`).

Each property is paired with a mutant: a variant of one definition that a
plausible bug would give, under which TLC finds the property violated. They stand
next to the definition they vary (`Counted`, `CountedDoneOnly`, ...).

## 4. What is proved

Every safety property of the passing runs, i.e. every invariant, action property and
refinement of section 3, is also a theorem: it holds for every value of the
constants and does not depend on the bounds of the runs. Each model ends
with its inductive invariant, a conjunction of named parts; the proofs show that each
part holds initially and is preserved, with one step per action, and TLC was asked
about each invariant before it was proved.

| module | theorems (property) | hypothesis |
|---|---|---|
| `PipeIteratorProofs` | `IterInvariant`, `IterTypeCorrect`, `AllRowsYielded` (`EveryRowYielded`), `CountIsEnough` (`NothingLeftBehind`), `NoFailureMissed` (`ErrorsAreTheFailures`), `OrderKept` (`YieldsInOrder`) | |
| `PipelineProofs` | `PipelineInvariant`, `TypeCorrect`, `NothingLost` (`NoLoss`), `WholeBatches` (`CommitsWholeBatch`), `DuplicatesCounted` (`DuplicatesExplained`), `WatermarksAdvance` (`WatermarkNeverRegresses`), `AttemptsCounted`, `FailuresAreReported` (`FailuresReported`) | |
| | `ConnectionsAreReleased` (`ConnectionsReleased`), `ReplacedTablesHoldBatch` (`ReplacedHoldsBatch`) | |
| | `Refinement` (`ImplementsAtLeastOnce`) | no stream is replaced |
| | `EachStreamAttempted` (`ContinueOnStreamError`) | no `start`, `clash` or `write` fault (`Collected`) |
| `CdcSyncProofs` | `ReadInvariant`, `CdcTypeCorrect`, `WatermarkMovesOn` (`CidNeverRegresses`) | |
| | `MirrorInvariant`, `NothingSkipped` (`NoChangeSkipped`), `DeletesFollow` (`NoDeleteSkipped`), `OnlyForward` (`RowsOnlyMoveForward`), `NoBlankRow` | `Dialect = "mssql"` |
| `CursorSourceProofs` | `CursorInvariant`, `CursorTypeCorrect`, `OnlyWritersPassOver` (`OnlyLateRowsPassedOver`), `RepeatsAccountedFor` (`OnlyTiesRepeated`), `WatermarkMovesOn` (`MarkMovesOn`) | |
| `RestSourceProofs` | `ReadTypeCorrect`, `RestTypeCorrect` | |
| | `RestInvariant`, `NoRecordPassedOver` (`NothingPassedOver`), `ReadsAreComplete` (`CompleteRead`) | `PositionsStand` |
| `SqlLoadProofs` | `LoadInvariant`, `LoadTypeCorrect`, `LoadsIntoItsColumns` (`LoadsFit`), `CommitIsDelivery` (`CommitDelivers`) | |
| `StateStoresProofs` | `StoresInvariant`, `StoresTypeCorrect` | |
| | `FilesWhole`, `StoresAreRegisters` (`ImplementsRegister`) | `OneOwner` |
| `TaskGroupProofs` | `TaskInvariant`, `TaskTypeCorrect`, `UpdatesKept` (`NoUpdateLost`), `SuccessMeansDelivered` (`SuccessDelivers`) | |

**Assumptions.** Each model names those of its constants (`RunAssumption`,
`CdcAssumption`, ...): finite sets where something is counted, positive sizes,
configurations among those the code accepts, special values that are not ordinary
ones. TLC evaluates them in each run.

**Hypotheses.** A theorem has one where the property is false without it, and the
runs of section 3 are instances of it.

* `Dialect = "mssql"`: the merge of `MSSQLDestination`, which keeps the latest event
  of a key and handles deletes. With the other merge a delete event lands as a row of
  NULLs (`redshift_deletes`), and TLC finds `NoChangeSkipped`, `NoDeleteSkipped` and
  `RowsOnlyMoveForward` violated for the same reason. What the read alone
  guarantees, `ReadInvariant`, is proved for both.
* `OneOwner`: the state file of a stream is no other stream's (`_safe_path_segment` maps
  no two names of the pipeline to one), and the threads that store it share a process,
  so a lock. A pipeline in one process, and a task group whose collision check has
  passed and whose tasks do not overlap, are such. It asks nothing of the database,
  where any number of processes may store one stream.
* `PositionsStand`: endpoints read by page number do not change while they are read, and
  those read by offset only create records. Links and cursors are free.
* `Collected`: the failures `run()` collects per stream; `adr0006` refutes the rest.
* no stream is replaced (`Replaces`: the disposition, but of `S3Destination`, which adds):
  the promise of at-least-once delivery is that rows stay, and a replace removes them.

**The iterator and `run()`.** That a watermark covers only rows that have landed is not
inductive. It needs `IterInv`: where the worker of a stream is fixes its state
dict and its position (`WorkerInv`); the chunks on the queue are exactly the rows
between the last yielded and the last put (`ChunkInv`); a sentinel is the last
item of its stream (`SentinelInv`); and `remaining` is the number of streams whose
sentinel is still to come (`CountInv`). The last one is what makes counting
anonymous sentinels sound: when the count is zero every worker has put its
sentinel and, the queue being first in first out, every chunk before it has been
taken. `RunInv` carries that through `run()`: during extraction a buffer holds
exactly the rows between the starting watermark and the last row written
(`ExtractInv`); in the commit loop it holds the rows up to the watermark in the
state dict (`CommitInv`); between commit and set those rows are in the table
(`PersistInv`); and copies are accounted for (`CopiesInv`). The invariant of the
iterator is proved first, action by action, in the environment of any main
thread; the proof about `run()` cites it. `AttemptInv` follows each requested
stream through the lists of `run()` until it is stored or failed, `OpenInv` counts
the connections of each stream: the abandoned ones, and one if it is in the hands of
`run()`; and `ReplaceInv` follows the batch of a replaced stream through commit and set
to the table.

**CDC.** Call a key *quiet* from a watermark on if the log has no event of it
there. `SourceInv` ties rows to the log: a row is quiet after the write that made it, and
a key without a row is deleted after each of its events. `ScanInv` and `JoinInv` say of
the keys fetched so far that the batch has the row of the source unless the key is
not quiet from `pre_max_cid`, or after the snapshot of the log. That is the heart of
it: a scan may fetch a row that is older or newer than its neighbours, but then the
log still holds an event the next query will see. `SyncInv` says that a quiet key is in
step with the source once the batch lands, and has landed; `ForwardInv` that nothing held is
newer than what is on its way.

**Cursors.** `CoverInv`: what a run does not have is excluded by the watermark it
started from, or became visible during its query; in the second case it is above every
cursor the run has seen, or its writer came late. A fetch that is not atomic keeps it: a
row that leaves the result was replaced or deleted, and one that enters it late can only
make others late. `CountInv` charges every copy of
a row to a repeat, to the one load that excludes it from then on, or to a tie.

**REST.** `PageInv`: the records that matched and are behind the position of the next
request have been yielded. Positions are counts, so the proof rests on lemmas about
the first n members of a finite set in an order (`FirstSize`, `FirstRest`, ...): the
page after the first n is the first of the rest, and under
`PositionsStand` a record created meanwhile comes after every position passed. `ReadInv`: what is behind the largest cursor seen has
been yielded, which makes it safe to store it where `max_pages` cuts a read off.

**Loading.** Tables only gain columns, so a run's columns stay columns of its tables
(`ColumnsInv`, `StagingInv`), although CREATE and ALTER race. A run that is alone has
found the staging table empty after its TRUNCATE, and the target empty after that of a
replace.

**State stores.** `DiskInv`: a file being written is nobody else's, and what has
been renamed is whole. The refinement maps an item of the register to the file at
`p.json` or the committed row, and each step of a call to the register's step at the rename,
the commit, the open of a file or the SELECT, or to a stutter.

**Task group.** `FilesInv`: streams have watermarks of their own, which is what the
collision check is for. `CoveredInv` speaks of three watermarks: the stored
one, the one an attempt started from, and the one it will store once its rows have
landed; `DueInv` of the process whose end Airflow waits for.

**Only model-checked.** Liveness (`RunEnds`, `RowsArrive`, `TasksEnd`, `Converges` of
`CdcSync` and of `RestSource`), which needs fairness and ENABLED and is out of the
prover's reach. The runs that expect a violation show one behaviour each and
need no proof. No theorem needs induction over data: the largest and
smallest members of sets of numbers come from the well-foundedness of `<` on the
naturals, and counts from the library's facts about cardinality.

## 5. What is not modelled

Values of rows, type maps and DDL text, HMAC values, metadata values, literal
escaping and argument parsing are pure and left out; that they can raise is a
fault of `Pipeline`. Glob selection of streams is a set of requested streams.
Construction by decorators keeps no state, and the CLI reads and prints.

`CacheSource`: `_CacheConnection.connect` tries again with a new connection and keeps
nothing of a failed attempt (a connection whose ping failed is not closed,
`cache.py:111-137`); discovery reads a catalogue. That the two halves of the
incremental query see one state of the log is an assumption about the database.
`RestSource`: authentication and the inference of columns keep no state.

No document of the repository promises that every connection is closed, so the two
leaks above (a `prepare_stream` that raises, which `run()` collects, and a name clash,
which it does not) are listed as hazards and counted by `ConnectionsReleased`, not
reported as findings. A thread left blocked in `queue.put` after an abort
(`pipe_iterator.py:90`) is part of the model and of no property, for the same reason.

## 6. Plan

Done: all components of section 2 modelled and checked, and their safety properties proved.
What is left:

1. `CdcSync` with the generic merge: what still holds of it (no row of a key that was never
   deleted is skipped), as a theorem without `Dialect = "mssql"`;
2. `TaskGroup`: what an overlap can cost a merge stream, stated as a property (only
   updates of the batches that overlapped), rather than left out of `NoUpdateLost`;
3. `StateStores`: the composition with `Pipeline`, whose store is an atomic register per
   stream by assumption and a theorem of `StateStoresProofs` by `OneOwner`;
4. shorter proofs: the lemmas on sets of numbers are stated in three proof modules.
