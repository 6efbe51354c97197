---------------------------- MODULE PipeIterator ----------------------------
(* The extraction engine of fflow/extract/pipe_iterator.py: a thread pool    *)
(* runs one worker per stream, the workers push chunks and one sentinel each *)
(* onto a bounded queue, and the main thread iterates over the queue until   *)
(* it has counted a sentinel for every stream.                               *)
(*                                                                           *)
(* Rows are the naturals 1, 2, ... in cursor order, so a watermark is the    *)
(* number of the last row read and a chunk is an interval of rows.           *)
EXTENDS Naturals, Sequences, FiniteSets

CONSTANTS
    Streams,       \* names of the streams
    Requests,      \* the lists of streams an iterator may be built for
    Workers,       \* workers=...
    ChunkSize,     \* chunk_size=...
    QueueCap,      \* queue_maxsize=...
    ReadMayFail,   \* streams whose state lookup or read may raise
    MaxRows        \* bound: rows a source stream may grow to

ASSUME StreamsAssumption == IsFiniteSet(Streams)

\* Stream names are the keys of a dict, so a list never names one twice.
ASSUME RequestsAssumption ==
    \A req \in Requests :
        /\ req \in Seq(Streams)
        /\ \A i, j \in 1..Len(req) : req[i] = req[j] => i = j

ASSUME SizesAssumption ==
    /\ Workers \in Nat \ {0}
    /\ ChunkSize \in Nat \ {0}
    /\ QueueCap \in Nat \ {0}
    /\ MaxRows \in Nat

ASSUME ReadMayFailAssumption == ReadMayFail \subseteq Streams

VARIABLES
    source,     \* source[s]: rows the source holds for s
    store,      \* store[s]: watermark the state store holds for s (0: none)
    full,       \* the iterator reads through _OverrideStateStore
    streams,    \* self._streams
    backlog,    \* submitted streams no pool thread has picked up yet
    wpc,        \* wpc[s]: where the worker of s is in _extract_stream
    state,      \* self._states[s]: the watermark in the stream's state dict
    last,       \* last[s]: last row of the result set the worker iterates
    pos,        \* pos[s]: last row the worker has put on the queue
    queue,      \* self._queue
    iter,       \* what the generator __iter__ is doing
    item,       \* the chunk being yielded
    remaining,  \* sentinels still to come
    errors,     \* streams whose _StreamError has been received
    delivered   \* history: delivered[s] is the last row yielded for s

env == <<source, store, full>>
iterVars == <<streams, backlog, wpc, state, last, pos, queue,
              iter, item, remaining, errors, delivered>>

-----------------------------------------------------------------------------
(* Queue items.  A sentinel is an item with no rows.  _STREAM_DONE carries   *)
(* no stream name in the code; the name recorded here is never read.         *)

Rows(s, a, b) == [kind |-> "rows", stream |-> s, first |-> a, last |-> b]
StreamDone(s) == [kind |-> "done", stream |-> s, first |-> 1, last |-> 0]
StreamError(s) == [kind |-> "error", stream |-> s, first |-> 1, last |-> 0]

Items == [kind : {"rows", "done", "error"}, stream : Streams,
          first : Nat, last : 0..MaxRows]

Elems(list) == {list[i] : i \in 1..Len(list)}

Idle == [s \in Streams |-> "idle"]
Zero == [s \in Streams |-> 0]

(* The watermark _extract_stream starts from: the stored one, or none at all *)
(* when full_refresh overrides the store.                                    *)
Base(s) == IF full THEN 0 ELSE store[s]

PoolSize == IF Workers < Len(streams) THEN Workers ELSE Len(streams)

Running == {s \in Streams : wpc[s] \in {"get", "open", "read", "tail", "raising"}}

(* The worker of s is done with every row of its result set.                 *)
DrainedTailForgotten(s) == TRUE
Drained(s) == pos[s] = last[s]

(* A sentinel of either kind is counted ...                                  *)
CountedErrorTwice(it) == IF it.kind = "error" THEN remaining - 2 ELSE remaining - 1
CountedDoneOnly(it) == IF it.kind = "done" THEN remaining - 1 ELSE remaining
Counted(it) == remaining - 1

(* ... and an error is kept for _WorkerErrors.                               *)
KeptFirstOnly(it) == IF it.kind = "error" /\ errors = {} THEN {it.stream} ELSE errors
Kept(it) == IF it.kind = "error" THEN errors \union {it.stream} ELSE errors

(* The sentinels __iter__ waits for when it starts.                          *)
ExpectedOffByOne(list) == IF Len(list) > 1 THEN Len(list) - 1 ELSE Len(list)
Expected(list) == Len(list)

(* The submissions left after shutdown(cancel_futures=...).                  *)
AfterShutdown == <<>>

(* The rows of the short chunk a worker still holds at the end of its read.  *)
TailOfFullChunk(s) == Rows(s, last[s] - ChunkSize + 1, last[s])
TailOf(s) == Rows(s, pos[s] + 1, last[s])

InitIter ==
    /\ streams = <<>>
    /\ backlog = <<>>
    /\ wpc = Idle
    /\ state = Zero
    /\ last = Zero
    /\ pos = Zero
    /\ queue = <<>>
    /\ iter = "none"
    /\ item = <<>>
    /\ remaining = 0
    /\ errors = {}
    /\ delivered = Zero

-----------------------------------------------------------------------------
(* Main thread.                                                              *)

(* PipeIterator(...) followed by __enter__: every stream is submitted, and   *)
(* __iter__ starts with one sentinel to expect per stream.                   *)
Enter(list) ==
    /\ streams' = list
    /\ backlog' = list
    /\ wpc' = Idle
    /\ state' = Zero
    /\ last' = Zero
    /\ pos' = Zero
    /\ queue' = <<>>
    /\ iter' = "running"
    /\ item' = <<>>
    /\ remaining' = Expected(list)
    /\ errors' = {}
    /\ delivered' = [s \in Streams |-> Base(s)]

(* A chunk is taken off the queue and yielded; the generator is suspended    *)
(* until the consumer asks for the next one.                                 *)
GetRows ==
    /\ iter = "running" /\ remaining > 0
    /\ queue # <<>> /\ Head(queue).kind = "rows"
    /\ queue' = Tail(queue)
    /\ item' = Head(queue)
    /\ iter' = "yielded"
    /\ delivered' = [delivered EXCEPT ![Head(queue).stream] = Head(queue).last]
    /\ UNCHANGED <<env, streams, backlog, wpc, state, last, pos, remaining, errors>>

(* A sentinel is taken off the queue: it is counted, and an error kept.      *)
GetSentinel ==
    /\ iter = "running" /\ remaining > 0
    /\ queue # <<>> /\ Head(queue).kind # "rows"
    /\ queue' = Tail(queue)
    /\ remaining' = Counted(Head(queue))
    /\ errors' = Kept(Head(queue))
    /\ UNCHANGED <<env, streams, backlog, wpc, state, last, pos, iter, item, delivered>>

(* The loop is over: _WorkerErrors is raised if a worker reported an error.  *)
IterEnd ==
    /\ iter = "running" /\ remaining = 0
    /\ iter' = IF errors = {} THEN "exhausted" ELSE "raised"
    /\ UNCHANGED <<env, streams, backlog, wpc, state, last, pos, queue, item,
                   remaining, errors, delivered>>

(* The consumer has dealt with the chunk and resumes the generator.          *)
Resume ==
    /\ iter = "yielded"
    /\ iter' = "running"
    /\ item' = <<>>
    /\ UNCHANGED <<streams, backlog, wpc, state, last, pos, queue, remaining,
                   errors, delivered>>

(* __exit__: shutdown(wait=False, cancel_futures=True).  Streams not picked  *)
(* up yet are cancelled; running workers are left to themselves.             *)
Close ==
    /\ iter \in {"yielded", "exhausted", "raised"}
    /\ iter' = "closed"
    /\ backlog' = AfterShutdown
    /\ item' = <<>>
    /\ UNCHANGED <<streams, wpc, state, last, pos, queue, remaining, errors, delivered>>

-----------------------------------------------------------------------------
(* Worker threads: _extract_stream.                                          *)

(* A pool thread picks up the oldest submission.                             *)
PickUp(s) ==
    /\ backlog # <<>> /\ Head(backlog) = s
    /\ Cardinality(Running) < PoolSize
    /\ backlog' = Tail(backlog)
    /\ wpc' = [wpc EXCEPT ![s] = "get"]
    /\ UNCHANGED <<env, streams, state, last, pos, queue, iter, item,
                   remaining, errors, delivered>>

(* state_store.get, and the dict becomes visible in self._states.            *)
GetState(s) ==
    /\ wpc[s] = "get"
    /\ state' = [state EXCEPT ![s] = Base(s)]
    /\ pos' = [pos EXCEPT ![s] = Base(s)]
    /\ wpc' = [wpc EXCEPT ![s] = "open"]
    /\ UNCHANGED <<env, streams, backlog, last, queue, iter, item, remaining,
                   errors, delivered>>

(* source.read executes its query: the rows above the watermark, as of now.  *)
OpenRead(s) ==
    /\ wpc[s] = "open"
    /\ last' = [last EXCEPT ![s] = source[s]]
    /\ wpc' = [wpc EXCEPT ![s] = "read"]
    /\ UNCHANGED <<env, streams, backlog, state, pos, queue, iter, item,
                   remaining, errors, delivered>>

(* A full chunk is put on the queue, once the queue has room.                *)
PutChunk(s) ==
    /\ wpc[s] = "read"
    /\ pos[s] + ChunkSize <= last[s]
    /\ Len(queue) < QueueCap
    /\ queue' = Append(queue, Rows(s, pos[s] + 1, pos[s] + ChunkSize))
    /\ pos' = [pos EXCEPT ![s] = @ + ChunkSize]
    /\ UNCHANGED <<env, streams, backlog, wpc, state, last, iter, item,
                   remaining, errors, delivered>>

(* The generator is exhausted: the source has moved the watermark in the     *)
(* shared dict, and the rows short of a chunk are still in the worker.       *)
Exhaust(s) ==
    /\ wpc[s] = "read"
    /\ last[s] < pos[s] + ChunkSize
    /\ state' = [state EXCEPT ![s] = last[s]]
    /\ wpc' = [wpc EXCEPT ![s] = "tail"]
    /\ UNCHANGED <<env, streams, backlog, last, pos, queue, iter, item,
                   remaining, errors, delivered>>

(* The last, short chunk.                                                    *)
PutTail(s) ==
    /\ wpc[s] = "tail"
    /\ pos[s] < last[s]
    /\ Len(queue) < QueueCap
    /\ queue' = Append(queue, TailOf(s))
    /\ pos' = [pos EXCEPT ![s] = last[s]]
    /\ UNCHANGED <<env, streams, backlog, wpc, state, last, iter, item,
                   remaining, errors, delivered>>

PutDone(s) ==
    /\ wpc[s] = "tail"
    /\ Drained(s)
    /\ Len(queue) < QueueCap
    /\ queue' = Append(queue, StreamDone(s))
    /\ wpc' = [wpc EXCEPT ![s] = "done"]
    /\ UNCHANGED <<env, streams, backlog, state, last, pos, iter, item,
                   remaining, errors, delivered>>

(* The lookup, the query or the generator raises, between any two rows.      *)
Raise(s) ==
    /\ s \in ReadMayFail
    /\ wpc[s] \in {"get", "open", "read"}
    /\ wpc' = [wpc EXCEPT ![s] = "raising"]
    /\ UNCHANGED <<env, streams, backlog, state, last, pos, queue, iter, item,
                   remaining, errors, delivered>>

PutError(s) ==
    /\ wpc[s] = "raising"
    /\ Len(queue) < QueueCap
    /\ queue' = Append(queue, StreamError(s))
    /\ wpc' = [wpc EXCEPT ![s] = "failed"]
    /\ UNCHANGED <<env, streams, backlog, state, last, pos, iter, item,
                   remaining, errors, delivered>>

Worker(s) ==
    \/ PickUp(s)
    \/ GetState(s)
    \/ OpenRead(s)
    \/ PutChunk(s)
    \/ Exhaust(s)
    \/ PutTail(s)
    \/ PutDone(s)
    \/ Raise(s)
    \/ PutError(s)

-----------------------------------------------------------------------------
(* The iterator on its own: one iterator, a source that may grow while it    *)
(* runs, and a consumer that may give up on any chunk.                       *)

Grow(s) ==
    /\ source[s] < MaxRows
    /\ source' = [source EXCEPT ![s] = @ + 1]
    /\ UNCHANGED <<store, full, iterVars>>

Build == iter = "none" /\ (\E list \in Requests : Enter(list)) /\ UNCHANGED env
ConsumerResumes == Resume /\ UNCHANGED env
ConsumerLeaves == Close /\ UNCHANGED env

Iterate ==
    \/ GetRows
    \/ GetSentinel
    \/ IterEnd

(* A worker waiting for room in the queue.                                   *)
Blocked(s) == wpc[s] \in {"read", "tail", "raising"} /\ Len(queue) = QueueCap

(* The states the program stops in: the iterator is closed, and every worker *)
(* has returned or waits on a queue nobody will read again.                  *)
Finished ==
    /\ iter = "closed"
    /\ \A s \in Running : Blocked(s)
    /\ UNCHANGED <<env, iterVars>>

ExtractInit ==
    /\ source \in [Streams -> 0..MaxRows]
    /\ store \in [Streams -> 0..MaxRows]
    /\ \A s \in Streams : store[s] <= source[s]
    /\ full \in BOOLEAN
    /\ InitIter

ExtractNext ==
    \/ Build
    \/ Iterate
    \/ ConsumerResumes
    \/ ConsumerLeaves
    \/ \E s \in Streams : Worker(s)
    \/ \E s \in Streams : Grow(s)
    \/ Finished

extractVars == <<env, iterVars>>

ExtractSpec == ExtractInit /\ [][ExtractNext]_extractVars

-----------------------------------------------------------------------------
(* Properties.                                                               *)

(* The types of the iterator's state: __init__ and the values its threads    *)
(* assign.                                                                   *)
IterTypeOK ==
    /\ source \in [Streams -> 0..MaxRows]
    /\ store \in [Streams -> 0..MaxRows]
    /\ full \in BOOLEAN
    /\ streams \in Seq(Streams)
    /\ backlog \in Seq(Streams)
    /\ wpc \in [Streams -> {"idle", "get", "open", "read", "tail", "done",
                            "raising", "failed"}]
    /\ state \in [Streams -> 0..MaxRows]
    /\ last \in [Streams -> 0..MaxRows]
    /\ pos \in [Streams -> 0..MaxRows]
    /\ queue \in Seq(Items)
    /\ iter \in {"none", "running", "yielded", "exhausted", "raised", "closed"}
    /\ (iter = "yielded" => item \in Items) /\ (iter # "yielded" => item = <<>>)
    /\ remaining \in Nat
    /\ errors \subseteq Streams
    /\ delivered \in [Streams -> 0..MaxRows]

IterOver == iter \in {"exhausted", "raised"}

(* When the iteration ends, every stream that is not reported as an error    *)
(* has yielded its whole result set, and get_state returns the watermark of  *)
(* exactly those rows: what _commit_stream relies on.                        *)
EveryRowYielded ==
    IterOver =>
        \A s \in Elems(streams) \ errors :
            delivered[s] = last[s] /\ state[s] = last[s]

(* Counting anonymous sentinels is enough: once the count is reached nothing *)
(* is on the queue and no worker thread is left running.                     *)
NothingLeftBehind == IterOver => queue = <<>> /\ Running = {} /\ backlog = <<>>

(* _WorkerErrors names exactly the streams whose worker failed.              *)
ErrorsAreTheFailures ==
    IterOver => errors = {s \in Elems(streams) : wpc[s] = "failed"}

(* The chunks of a stream are yielded in cursor order, each starting at the  *)
(* row after the previous one, whatever the other workers put in between.    *)
YieldsInOrder ==
    [][item' # item /\ item' # <<>> =>
            item'.first = delivered[item'.stream] + 1]_extractVars

-----------------------------------------------------------------------------
(* The inductive invariant behind the properties above.                      *)

Ended(s) == wpc[s] \in {"done", "failed"}

HasSentinel(s) == \E i \in 1..Len(queue) : queue[i].stream = s /\ queue[i].kind # "rows"

(* The streams whose sentinel __iter__ has not received.                     *)
Outstanding == {s \in Elems(streams) : ~Ended(s) \/ HasSentinel(s)}

BacklogInv ==
    /\ \A i \in 1..Len(backlog) :
         backlog[i] \in Elems(streams) /\ wpc[backlog[i]] = "idle"
    /\ \A i, j \in 1..Len(backlog) : backlog[i] = backlog[j] => i = j
    /\ iter = "none" => streams = <<>>

(* What the place of a worker says of its stream.                            *)
PlaceInv(s) ==
    /\ store[s] <= source[s]
    /\ wpc[s] # "idle" => s \in Elems(streams)
    /\ wpc[s] \in {"idle", "get", "open"} =>
         \A i \in 1..Len(queue) : queue[i].stream # s
    /\ wpc[s] \in {"idle", "get"} => pos[s] = 0
    /\ wpc[s] \in {"idle", "get", "open"} /\ iter # "none" => delivered[s] = Base(s)
    /\ wpc[s] = "open" => state[s] = Base(s) /\ pos[s] = Base(s)
    /\ wpc[s] = "read" => state[s] = Base(s) /\ Base(s) <= pos[s] /\ pos[s] <= last[s]
    /\ wpc[s] = "tail" => state[s] = last[s] /\ Base(s) <= pos[s] /\ pos[s] <= last[s]
    /\ wpc[s] = "done" => state[s] = last[s] /\ Base(s) <= pos[s] /\ pos[s] = last[s]
    /\ wpc[s] \in {"read", "tail", "done"} => store[s] <= last[s] /\ last[s] <= source[s]

WorkerInv == \A s \in Streams : PlaceInv(s)

(* The chunks of a stream on the queue are the rows between the last one     *)
(* yielded and the last one put, in order and without a gap.                 *)
ChunkInv ==
    /\ \A i \in 1..Len(queue) : queue[i].kind = "rows" =>
         /\ delivered[queue[i].stream] < queue[i].first
         /\ queue[i].first <= queue[i].last
         /\ queue[i].last <= pos[queue[i].stream]
    /\ \A i, j \in 1..Len(queue) :
         /\ queue[i].kind = "rows" /\ queue[j].kind = "rows"
         /\ queue[i].stream = queue[j].stream /\ i < j
         => queue[i].last < queue[j].first
    /\ \A s \in Streams : \A r \in (delivered[s] + 1)..pos[s] :
         \E i \in 1..Len(queue) :
             /\ queue[i].kind = "rows" /\ queue[i].stream = s
             /\ queue[i].first <= r /\ r <= queue[i].last
    /\ \A s \in Streams : wpc[s] \in {"read", "tail", "done"} => delivered[s] <= pos[s]

(* A sentinel is the last thing its worker puts, and the error sentinels     *)
(* received are the errors kept.                                             *)
SentinelInv ==
    /\ \A i \in 1..Len(queue) : queue[i].kind # "rows" =>
         wpc[queue[i].stream] = IF queue[i].kind = "done" THEN "done" ELSE "failed"
    /\ \A i, j \in 1..Len(queue) :
         queue[i].kind # "rows" /\ queue[i].stream = queue[j].stream => j <= i
    /\ \A i \in 1..Len(queue) : Ended(queue[i].stream) => HasSentinel(queue[i].stream)
    /\ errors = {s \in Elems(streams) : wpc[s] = "failed" /\ ~HasSentinel(s)}

CountInv ==
    /\ remaining = Cardinality(Outstanding)
    /\ iter \in {"exhausted", "raised"} => remaining = 0

(* The chunk being yielded is the last one taken off the queue.              *)
ItemInv ==
    iter = "yielded" =>
        /\ item.kind = "rows" /\ item.stream \in Elems(streams)
        /\ item.first <= item.last
        /\ delivered[item.stream] = item.last

IterInv ==
    /\ BacklogInv
    /\ WorkerInv
    /\ ChunkInv
    /\ SentinelInv
    /\ CountInv
    /\ ItemInv
=============================================================================
