--------------------------- MODULE PipelineProofs ---------------------------
(* Proofs about run().                                                       *)
EXTENDS Pipeline, PipeIteratorProofs

USE DispositionAssumption DEF history

-----------------------------------------------------------------------------
(* Types.                                                                    *)

(* A state without an iterator is well typed.                                *)
LEMMA DropIterTypes ==
    ASSUME IterTypeOK, DropIter, UNCHANGED <<source, store>>, full' \in BOOLEAN
    PROVE  IterTypeOK'
<1>1. source' \in [Streams -> 0..MaxRows] /\ store' \in [Streams -> 0..MaxRows]
  BY DEF IterTypeOK
<1>2. 0 \in 0..MaxRows /\ 0 \in Nat
  BY SizesAssumption
<1>3. Zero \in [Streams -> 0..MaxRows] /\ Idle \in [Streams -> {"idle"}]
  BY <1>2 DEF Zero, Idle
<1>4. <<>> \in Seq(Streams) /\ <<>> \in Seq(Items)
  OBVIOUS
<1> QED  BY <1>1, <1>2, <1>3, <1>4 DEF DropIter, IterTypeOK

(* What the operators on buffers and tables return.                          *)
LEMMA BufferTypes ==
    ASSUME RunTypeOK
    PROVE  /\ \A S : Without(S) \in [Streams -> [RowIds -> Nat]]
           /\ \A s \in Streams : Landed(s) \in [RowIds -> Nat]
           /\ \A s \in Streams : \A it : Extended(buffer[s], it) \in [RowIds -> Nat]
           /\ \A s \in Streams : \A rows \in Undone(s) : rows \in [RowIds -> Nat]
<1>1. \A s \in Streams, r \in RowIds : buffer[s][r] \in Nat /\ target[s][r] \in Nat
  BY DEF RunTypeOK
<1>2. \A s \in Streams : buffer[s] \in [RowIds -> Nat]
  BY DEF RunTypeOK
<1>3. \A S : Without(S) \in [Streams -> [RowIds -> Nat]]
  BY <1>2 DEF Without, Nothing
<1>4. \A s \in Streams : Landed(s) \in [RowIds -> Nat]
  BY <1>1 DEF Landed, Replaced
<1>5. \A s \in Streams : \A it : Extended(buffer[s], it) \in [RowIds -> Nat]
  BY <1>1 DEF Extended
<1>6. \A s \in Streams : \A rows \in Undone(s) : rows \in [RowIds -> Nat]
  BY DEF RunTypeOK, Undone, Nothing
<1> QED  BY <1>3, <1>4, <1>5, <1>6

(* And those that count connections.                                         *)
LEMMA CountTypes ==
    ASSUME RunTypeOK
    PROVE  \A S : /\ Opened(S) \in [Streams -> Int] /\ Closed(S) \in [Streams -> Int]
                  /\ Plus(spoiled, S) \in [Streams -> Nat]
BY DEF RunTypeOK, Opened, Closed, Plus, Uses

(* The first entry of a nonempty list, and the rest.                         *)
LEMMA ListTypes ==
    ASSUME NEW list \in Seq(Streams), list # <<>>
    PROVE  Head(list) \in Streams /\ Tail(list) \in Seq(Streams)
OBVIOUS

(* The members of a list.                                                    *)
LEMMA ListElems ==
    ASSUME NEW list \in Seq(Streams)
    PROVE  Elems(list) \subseteq Streams
BY DEF Elems

(* The states steps of the commit loop lead to have their types.             *)
LEMMA CommitLoopTypes ==
    ASSUME TypeOK, CommitLoop
    PROVE  TypeOK'
<1> USE DEF TypeOK
<1>1. \A list \in Seq(Streams) : list # <<>> =>
          Head(list) \in Streams /\ Tail(list) \in Seq(Streams)
  BY ListTypes
<1>2. todo \in Seq(Streams) /\ repeats \in [Streams -> Nat]
  BY DEF RunTypeOK
<1>3. \A s \in Streams : [repeats EXCEPT ![s] = @ + 1] \in [Streams -> Nat]
  BY <1>2
<1>4. CASE SkipErrored
  BY <1>1, <1>4 DEF SkipErrored, RunTypeOK, IterTypeOK, env, iterVars
<1>5. ASSUME NEW s \in Streams, Commit(s)
      PROVE  TypeOK'
  <2>1. IterTypeOK'
    BY <1>5 DEF Commit, IterTypeOK, env, iterVars
  <2>2. /\ Without({s}) \in [Streams -> [RowIds -> Nat]]
        /\ Landed(s) \in [RowIds -> Nat]
    BY BufferTypes
  <2>3. repeats' \in [Streams -> Nat]
    BY <1>2, <1>3, <1>5 DEF Commit, Repeated
  <2>4. Base(s) \in 0..MaxRows /\ Closed({s}) \in [Streams -> Int]
    BY CountTypes, SizesAssumption DEF Base, IterTypeOK
  <2>5. from' \in [Streams -> 0..MaxRows]
    BY <1>5, <2>4 DEF Commit, RunTypeOK
  <2> QED  BY <1>5, <2>1, <2>2, <2>3, <2>4, <2>5 DEF Commit, DropBuffer, RunTypeOK
<1>6. ASSUME NEW s \in Streams, CommitFails(s)
      PROVE  TypeOK'
  <2>1. IterTypeOK'
    BY <1>6 DEF CommitFails, IterTypeOK, env, iterVars
  <2>2. Without({s}) \in [Streams -> [RowIds -> Nat]] /\ Closed({s}) \in [Streams -> Int]
    BY BufferTypes, CountTypes
  <2>3. Tail(todo) \in Seq(Streams)
    BY <1>1, <1>2, <1>6 DEF CommitFails, Committing
  <2>4. target' \in [Streams -> [RowIds -> Nat]]
    BY <1>6, BufferTypes DEF CommitFails, RunTypeOK
  <2> QED  BY <1>6, <2>1, <2>2, <2>3, <2>4
           DEF CommitFails, DropBuffer, CollectError, AfterError, RunTypeOK
<1>7. ASSUME NEW s \in Streams, CommitAckLost(s)
      PROVE  TypeOK'
  <2>1. IterTypeOK'
    BY <1>7 DEF CommitAckLost, IterTypeOK, env, iterVars
  <2>2. /\ Without({s}) \in [Streams -> [RowIds -> Nat]]
        /\ Landed(s) \in [RowIds -> Nat] /\ Closed({s}) \in [Streams -> Int]
    BY BufferTypes, CountTypes
  <2>3. Tail(todo) \in Seq(Streams) /\ repeats' \in [Streams -> Nat]
    BY <1>1, <1>2, <1>3, <1>7 DEF CommitAckLost, Committing, Repeated
  <2> QED  BY <1>7, <2>1, <2>2, <2>3
           DEF CommitAckLost, DropBuffer, CollectError, AfterError, RunTypeOK
<1>8. ASSUME NEW s \in Streams, SetState(s)
      PROVE  TypeOK'
  <2>1. IterTypeOK'
    <3>1. state[s] \in 0..MaxRows
      BY DEF IterTypeOK
    <3> QED  BY <1>8, <3>1 DEF SetState, GetPipeState, IterTypeOK, iterVars
  <2>2. Tail(todo) \in Seq(Streams)
    BY <1>1, <1>2, <1>8 DEF SetState, Persisting
  <2> QED  BY <1>8, <2>1, <2>2 DEF SetState, RunTypeOK
<1>9. ASSUME NEW s \in Streams, SetFails(s)
      PROVE  TypeOK'
  <2>1. IterTypeOK'
    BY <1>9 DEF SetFails, IterTypeOK, env, iterVars
  <2>2. Tail(todo) \in Seq(Streams) /\ repeats' \in [Streams -> Nat]
    BY <1>1, <1>2, <1>3, <1>9 DEF SetFails, Persisting, Repeated
  <2> QED  BY <1>9, <2>1, <2>2 DEF SetFails, CollectError, AfterError, RunTypeOK
<1>10. CASE CommitsDone
  <2>1. IterTypeOK'
    BY <1>10, MainTypes DEF CommitsDone
  <2> QED  BY <1>10, <2>1 DEF CommitsDone, RunTypeOK
<1> QED  BY <1>4, <1>5, <1>6, <1>7, <1>8, <1>9, <1>10 DEF CommitLoop

(* So have those the steps before the commit loop lead to.                   *)
LEMMA MainThreadTypes ==
    ASSUME TypeOK, MainThread
    PROVE  TypeOK'
<1> USE DEF TypeOK
<1>1. todo \in Seq(Streams) /\ ready \in Seq(Streams)
  BY DEF RunTypeOK
<1>2. todo # <<>> => Head(todo) \in Streams /\ Tail(todo) \in Seq(Streams)
  BY <1>1, ListTypes
<1>3. CASE PrepareStream
  <2>1. IterTypeOK'
    BY <1>3 DEF PrepareStream, IterTypeOK, env, iterVars
  <2>2. /\ Without({Head(todo)}) \in [Streams -> [RowIds -> Nat]]
        /\ Opened({Head(todo)}) \in [Streams -> Int]
    BY BufferTypes, CountTypes
  <2>3. Append(ready, Head(todo)) \in Seq(Streams)
    BY <1>1, <1>2, <1>3 DEF PrepareStream
  <2> QED  BY <1>2, <1>3, <2>1, <2>2, <2>3 DEF PrepareStream, RunTypeOK
<1>4. CASE PrepareFails
  <2>1. IterTypeOK'
    BY <1>4 DEF PrepareFails, IterTypeOK, env, iterVars
  <2>2. connections' \in [Streams -> Int] /\ spoiled' \in [Streams -> Nat]
    BY <1>4, CountTypes DEF PrepareFails, RunTypeOK
  <2> QED  BY <1>2, <1>4, <2>1, <2>2 DEF PrepareFails, RunTypeOK
<1>5. CASE SchemaClash
  <2>1. IterTypeOK'
    BY <1>5 DEF SchemaClash, IterTypeOK, env, iterVars
  <2>2. spoiled' \in [Streams -> Nat]
    BY <1>5, CountTypes DEF SchemaClash
  <2> QED  BY <1>2, <1>5, <2>1, <2>2, SMTT(20) DEF SchemaClash, RunTypeOK
<1>6. CASE NothingReady
  <2>1. IterTypeOK'
    BY <1>6 DEF NothingReady, IterTypeOK, env, iterVars
  <2> QED  BY <1>6, <2>1 DEF NothingReady, RunTypeOK
<1>7. CASE EnterPipe
  <2>1. IterTypeOK'
    BY <1>1, <1>7, EnterType DEF EnterPipe
  <2> QED  BY <1>7, <2>1 DEF EnterPipe, RunTypeOK
<1>8. CASE Extract
  <2>1. IterTypeOK'
    BY <1>8, MainTypes DEF Extract
  <2> QED  BY <1>8, <2>1 DEF Extract, RunTypeOK, runVars
<1>9. CASE WriteChunk
  <2>1. IterTypeOK'
    BY <1>9, MainTypes DEF WriteChunk
  <2>2. item.stream \in Streams
    BY <1>9 DEF WriteChunk, RunTypeOK
  <2>3. Extended(buffer[item.stream], item) \in [RowIds -> Nat]
    BY <2>2, BufferTypes
  <2>4. buffer' \in [Streams -> [RowIds -> Nat]]
    BY <1>9, <2>3 DEF WriteChunk, RunTypeOK
  <2> QED  BY <1>9, <2>1, <2>4 DEF WriteChunk, RunTypeOK
<1>10. CASE WriteFails
  <2>1. IterTypeOK'
    BY <1>10, MainTypes DEF WriteFails
  <2>2. item.stream \in Streams
    BY <1>10 DEF WriteFails, IterTypeOK, Items
  <2>3. /\ Without(Elems(ready)) \in [Streams -> [RowIds -> Nat]]
        /\ Closed(Elems(ready)) \in [Streams -> Int]
    BY BufferTypes, CountTypes
  <2> QED  BY <1>10, <2>1, <2>2, <2>3 DEF WriteFails, RunTypeOK
<1>11. CASE ExtractDone
  <2>1. IterTypeOK' /\ errors \subseteq Streams
    BY <1>11 DEF ExtractDone, IterTypeOK, env, iterVars
  <2>2. /\ Without(RolledBack) \in [Streams -> [RowIds -> Nat]]
        /\ Closed(RolledBack) \in [Streams -> Int]
    BY BufferTypes, CountTypes
  <2> QED  BY <1>11, <2>1, <2>2 DEF ExtractDone, RolledBack, RunTypeOK
<1> QED  BY <1>3, <1>4, <1>5, <1>6, <1>7, <1>8, <1>9, <1>10, <1>11,
            CommitLoopTypes DEF MainThread

(* And every step of the composed system.                                    *)
LEMMA StepTypes ==
    ASSUME TypeOK, [Next]_vars
    PROVE  TypeOK'
<1> USE DEF TypeOK
<1>0. Zero \in [Streams -> 0..MaxRows] /\ Zero \in [Streams -> Nat] /\ Zero \in [Streams -> Int]
  BY SizesAssumption DEF Zero
<1>1. ASSUME NEW list \in Requests, NEW f \in FullRefresh, BeginRun(list, f)
      PROVE  TypeOK'
  <2>1. f \in BOOLEAN /\ list \in Seq(Streams)
    BY RunAssumption, RequestsAssumption
  <2>2. IterTypeOK'
    BY <1>1, <2>1, DropIterTypes DEF BeginRun
  <2>3. Elems(list) \subseteq Streams
    BY <2>1, ListElems
  <2> QED  BY <1>0, <1>1, <2>1, <2>2, <2>3 DEF BeginRun, RunTypeOK
<1>2. ASSUME NEW list \in Requests, StartFails(list)
      PROVE  TypeOK'
  <2>1. Elems(list) \subseteq Streams
    BY RequestsAssumption, ListElems
  <2>2. IterTypeOK'
    BY <1>2 DEF StartFails, IterTypeOK, env, iterVars
  <2> QED  BY <1>0, <1>2, <2>1, <2>2 DEF StartFails, RunTypeOK
<1>3. CASE MainThread
  BY <1>3, MainThreadTypes
<1>4. ASSUME NEW s \in Streams, Extraction(s)
      PROVE  TypeOK'
  <2>1. IterTypeOK'
    BY <1>4, WorkerTypes DEF Extraction
  <2> QED  BY <1>4, <2>1 DEF Extraction, RunTypeOK, runVars
<1>5. CASE Crash
  <2>1. IterTypeOK'
    BY <1>5, DropIterTypes DEF Crash, env, IterTypeOK
  <2>2. [s \in Streams |-> Nothing] \in [Streams -> [RowIds -> Nat]]
    BY DEF Nothing
  <2>3. repeats' \in [Streams -> Nat]
    BY <1>5, SMTT(20) DEF Crash, Repeated, RunTypeOK
  <2>4. <<>> \in Seq(Streams)
    OBVIOUS
  <2>5. target' \in [Streams -> [RowIds -> Nat]]
    <3>1. UnderWay \subseteq Streams
      <4>1. todo # <<>> => Head(todo) \in Streams
        BY ListTypes DEF RunTypeOK
      <4> QED  BY <4>1 DEF UnderWay
    <3>2. ASSUME NEW s \in Streams, NEW rows \in Undone(s), target' = [target EXCEPT ![s] = rows]
          PROVE  target' \in [Streams -> [RowIds -> Nat]]
      BY <3>2, BufferTypes DEF RunTypeOK
    <3>3. UNCHANGED target => target' \in [Streams -> [RowIds -> Nat]]
      BY DEF RunTypeOK
    <3> QED  BY <1>5, <3>1, <3>2, <3>3 DEF Crash
  <2> QED  BY <1>0, <1>5, <2>1, <2>2, <2>3, <2>4, <2>5 DEF Crash, RunTypeOK
<1>6. ASSUME NEW s \in Streams, SourceGrows(s)
      PROVE  TypeOK'
  <2>1. source' \in [Streams -> 0..MaxRows]
    BY <1>6, SizesAssumption DEF SourceGrows, IterTypeOK
  <2>2. IterTypeOK'
    BY <1>6, <2>1 DEF SourceGrows, IterTypeOK, iterVars
  <2> QED  BY <1>6, <2>2 DEF SourceGrows, RunTypeOK, runVars
<1>7. CASE UNCHANGED vars
  <2>1. IterTypeOK'
    BY <1>7 DEF vars, env, iterVars, IterTypeOK
  <2> QED  BY <1>7, <2>1 DEF vars, runVars, RunTypeOK
<1> QED  BY <1>1, <1>2, <1>3, <1>4, <1>5, <1>6, <1>7 DEF Next, Stop

(* Every variable keeps its type in every run, for every fault.              *)
THEOREM TypeCorrect == Spec => []TypeOK
<1>1. Init => TypeOK
  <2> SUFFICES ASSUME Init  PROVE TypeOK
    OBVIOUS
  <2>1. Zero \in [Streams -> 0..MaxRows] /\ Zero \in [Streams -> Nat]
    BY SizesAssumption DEF Zero
  <2>2. IterTypeOK
    <3>1. Idle \in [Streams -> {"idle"}] /\ <<>> \in Seq(Streams) /\ <<>> \in Seq(Items)
      BY DEF Idle
    <3>2. source \in [Streams -> 0..MaxRows] /\ store = Zero /\ full = FALSE /\ InitIter
      BY DEF Init
    <3> QED  BY <2>1, <3>1, <3>2 DEF InitIter, IterTypeOK
  <2>3. RunTypeOK
    <3>1. Zero \in [Streams -> Int]
      BY DEF Zero
    <3> QED  BY <2>1, <3>1 DEF Init, RunTypeOK, Nothing
  <2> QED  BY <2>2, <2>3 DEF TypeOK
<1> QED  BY <1>1, StepTypes, PTL DEF Spec

-----------------------------------------------------------------------------
(* The iterator's invariant holds in every phase of run().                   *)

(* It says nothing of a state without an iterator.                           *)
LEMMA DropIterInv ==
    ASSUME TypeOK, DropIter, UNCHANGED <<source, store>>,
           \A s \in Streams : store[s] <= source[s]
    PROVE  IterInv'
<1> USE DEF DropIter
<1>1. /\ Len(queue') = 0 /\ Len(backlog') = 0 /\ Elems(streams') = {}
      /\ \A s \in Streams : /\ delivered'[s] = 0 /\ pos'[s] = 0 /\ wpc'[s] = "idle"
  BY DEF Elems, Zero, Idle
<1>2. BacklogInv'
  BY <1>1 DEF BacklogInv
<1>3. WorkerInv'
  BY <1>1 DEF WorkerInv, PlaceInv
<1>4. ChunkInv'
  <2>1. \A s \in Streams : (delivered'[s] + 1)..pos'[s] = {}
    BY <1>1
  <2> QED  BY <1>1, <2>1 DEF ChunkInv
<1>5. SentinelInv'
  <2>1. errors' = {} /\ Elems(streams)' = {}
    BY <1>1 DEF Elems
  <2> QED  BY <1>1, <2>1 DEF SentinelInv
<1>6. CountInv'
  <2>1. Outstanding' = {}
    BY <1>1 DEF Outstanding, Elems
  <2> QED  BY <2>1, FS_EmptySet DEF CountInv
<1>7. ItemInv'
  BY DEF ItemInv
<1> QED  BY <1>2, <1>3, <1>4, <1>5, <1>6, <1>7 DEF IterInv

(* Storing the watermark a finished worker left in its dict keeps it.        *)
LEMMA StoredInv ==
    ASSUME TypeOK, IterInv, NEW t \in Streams, wpc[t] = "done",
           store' = [store EXCEPT ![t] = state[t]], UNCHANGED <<source, full, iterVars>>
    PROVE  IterInv'
<1> USE DEF IterInv, iterVars
<1>1. /\ store \in [Streams -> 0..MaxRows]
      /\ \A s \in Streams : /\ source[s] \in Nat /\ last[s] \in Nat /\ state[s] \in Nat
                            /\ store[s] \in Nat /\ pos[s] \in Nat
      /\ full \in BOOLEAN
  BY DEF TypeOK, IterTypeOK
<1>2. BacklogInv' /\ ItemInv'
  BY DEF BacklogInv, ItemInv, Elems
<1>3. WorkerInv'
  <2> SUFFICES ASSUME NEW s \in Streams
               PROVE  PlaceInv(s)'
    BY DEF WorkerInv
  <2>1. PlaceInv(s) /\ Elems(streams)' = Elems(streams)
    BY DEF WorkerInv, Elems
  <2>2. CASE s = t
    <3>1. store'[s] = state[s] /\ Base(s)' = IF full THEN 0 ELSE state[s]
      BY <1>1, <2>2 DEF Base
    <3> QED  BY <1>1, <2>1, <2>2, <3>1 DEF PlaceInv
  <2>3. CASE s # t
    <3>1. store'[s] = store[s] /\ Base(s)' = Base(s)
      BY <1>1, <2>3 DEF Base
    <3> QED  BY <2>1, <3>1 DEF PlaceInv
  <2> QED  BY <2>2, <2>3
<1>4. ChunkInv'
  BY DEF ChunkInv
<1>5. SentinelInv'
  <2>1. /\ UNCHANGED <<queue, wpc, errors, streams>>
        /\ SentinelInv
    OBVIOUS
  <2> QED  BY ONLY <2>1 DEF SentinelInv, Ended, HasSentinel, Elems
<1>6. CountInv'
  BY DEF CountInv, Outstanding, Ended, HasSentinel, Elems
<1> QED  BY <1>2, <1>3, <1>4, <1>5, <1>6

(* What the commit loop knows of a stream that waits for its commit.         *)
LEMMA InCommit ==
    ASSUME TypeOK, PipelineInv, phase \in {"commit", "persist"},
           NEW s \in Elems(todo), s \notin failed
    PROVE  /\ s \in Streams /\ wpc[s] = "done"
           /\ store[s] <= state[s] /\ state[s] <= source[s]
<1>1. IterOver /\ s \in Elems(streams) /\ s \notin errors
  BY DEF PipelineInv, RunInv, CommitInv
<1>2. ErrorsAreTheFailures /\ EveryRowYielded /\ s \in Streams
  BY <1>1, AtTheEnd, ListElems DEF TypeOK, IterTypeOK, PipelineInv
<1>3. Outstanding = {}
  <2>1. Outstanding \subseteq Streams /\ IsFiniteSet(Outstanding)
    <3>1. Elems(streams) \subseteq Streams
      BY ListElems DEF TypeOK, IterTypeOK
    <3> QED  BY <3>1, StreamsAssumption, FS_Subset DEF Outstanding
  <2>2. Cardinality(Outstanding) = 0
    BY <1>1 DEF IterOver, PipelineInv, IterInv, CountInv
  <2> QED  BY <2>1, <2>2, FS_EmptySet
<1>4. wpc[s] = "done"
  BY <1>1, <1>2, <1>3 DEF Outstanding, Ended, ErrorsAreTheFailures
<1> QED  BY <1>2, <1>4 DEF PipelineInv, IterInv, WorkerInv, PlaceInv

(* While run() is in its commit loop no worker can take a step.              *)
LEMMA WorkersOver ==
    ASSUME TypeOK, PipelineInv, phase \in {"commit", "persist"}, NEW s \in Streams
    PROVE  ~Worker(s)
<1>1. Running = {} /\ backlog = <<>>
  BY AtTheEnd DEF TypeOK, PipelineInv, RunInv, CommitInv, NothingLeftBehind
<1> QED  BY <1>1 DEF Running, Worker, PickUp, GetState, OpenRead, PutChunk, Exhaust,
                     PutTail, PutDone, Raise, PutError

(* Steps of run() that leave the iterator alone.                             *)
LEMMA IterInvStep ==
    ASSUME TypeOK, PipelineInv, [Next]_vars
    PROVE  IterInv'
<1>1. /\ IterTypeOK /\ IterInv
      /\ \A s \in Streams : store[s] <= source[s]
  BY DEF TypeOK, PipelineInv, IterInv, WorkerInv, PlaceInv
<1>2. ASSUME NEW list \in Requests, NEW f \in FullRefresh, BeginRun(list, f)
      PROVE  IterInv'
  BY <1>1, <1>2, DropIterInv DEF BeginRun
<1>3. CASE EnterPipe
  <2>1. ready \in Seq(Streams)
    BY DEF TypeOK, RunTypeOK
  <2>2. Distinct(ready)
    BY <1>3 DEF EnterPipe, PipelineInv, RunInv, PrepareInv
  <2> QED  BY <1>1, <1>3, <2>1, <2>2, EnterInv DEF EnterPipe, Distinct
<1>4. CASE Extract
  BY <1>1, <1>4, IterateInv DEF Extract
<1>5. CASE WriteChunk
  BY <1>1, <1>5, ResumeInv DEF WriteChunk
<1>6. CASE WriteFails \/ CommitsDone
  BY <1>1, <1>6, CloseInv DEF WriteFails, CommitsDone
<1>7. ASSUME NEW s \in Streams, SetState(s)
      PROVE  IterInv'
  <2>1. s \in Elems(todo) /\ s \notin failed /\ phase = "persist"
    BY <1>7, SMTT(20) DEF SetState, Persisting, TypeOK, RunTypeOK, PipelineInv, RunInv, PersistInv,
                Elems
  <2>2. wpc[s] = "done"
    BY <2>1, InCommit
  <2> QED  BY <1>1, <1>7, <2>2, StoredInv DEF SetState, GetPipeState
<1>8. ASSUME NEW s \in Streams, Extraction(s)
      PROVE  IterInv'
  BY <1>1, <1>8, WorkerStepInv DEF Extraction
<1>9. CASE Crash
  BY <1>1, <1>9, DropIterInv DEF Crash, env
<1>10. ASSUME NEW s \in Streams, SourceGrows(s)
       PROVE  IterInv'
  BY <1>1, <1>10, GrowInv DEF SourceGrows
<1>11. CASE UNCHANGED <<env, iterVars>>
  BY <1>1, <1>11, SameIter
<1>12. CASE \/ \E list \in Requests : StartFails(list)
            \/ PrepareStream \/ PrepareFails \/ SchemaClash \/ NothingReady
            \/ ExtractDone \/ SkipErrored
            \/ \E s \in Streams : \/ Commit(s) \/ CommitFails(s) \/ CommitAckLost(s)
                                  \/ SetFails(s)
            \/ UNCHANGED vars
  <2>1. UNCHANGED <<env, iterVars>>
    BY <1>12 DEF StartFails, PrepareStream, PrepareFails, SchemaClash, NothingReady,
         ExtractDone, SkipErrored, Commit, CommitFails, CommitAckLost, SetFails, vars
  <2> QED  BY <1>11, <2>1
<1> QED  BY <1>2, <1>3, <1>4, <1>5, <1>6, <1>7, <1>8, <1>9, <1>10, <1>12
         DEF Next, MainThread, CommitLoop, Stop

-----------------------------------------------------------------------------
(* The parts of RunInv, step by step.                                        *)

(* Taking the first entry off a list of distinct streams.                    *)
LEMMA Rest ==
    ASSUME NEW list \in Seq(Streams), list # <<>>, Distinct(list)
    PROVE  /\ Distinct(Tail(list)) /\ Tail(list) \in Seq(Streams)
           /\ Head(list) \in Elems(list) /\ Head(list) \in Streams
           /\ Elems(Tail(list)) \subseteq Elems(list)
           /\ Head(list) \notin Elems(Tail(list))
<1>1. /\ Tail(list) \in Seq(Streams) /\ Head(list) \in Streams
      /\ Len(list) \in Nat /\ Len(list) >= 1 /\ Head(list) = list[1]
      /\ Len(Tail(list)) = Len(list) - 1
      /\ \A i \in 1..Len(Tail(list)) : Tail(list)[i] = list[i + 1]
  BY HeadTailProperties
<1>2. \A i \in 1..Len(Tail(list)) : i + 1 \in 1..Len(list) /\ i + 1 # 1
  BY <1>1
<1>3. 1 \in 1..Len(list)
  BY <1>1
<1>4. Distinct(Tail(list))
  BY <1>1, <1>2 DEF Distinct
<1>5. Elems(Tail(list)) \subseteq Elems(list) /\ Head(list) \in Elems(list)
  BY <1>1, <1>2, <1>3 DEF Elems
<1>6. Head(list) \notin Elems(Tail(list))
  BY <1>1, <1>2, <1>3 DEF Elems, Distinct
<1> QED  BY <1>1, <1>4, <1>5, <1>6

(* Steps that touch neither table nor watermark.                             *)
LEMMA CopiesKept ==
    ASSUME TypeOK, CopiesInv, NoLoss, phase # "persist", UNCHANGED <<target, store, repeats>>
    PROVE  CopiesInv' /\ NoLoss'
<1>1. \A s \in Streams, r \in RowIds : target[s][r] \in Nat /\ repeats[s] \in Nat
  BY DEF TypeOK, RunTypeOK
<1>2. CopiesInv'
  <2> SUFFICES ASSUME NEW s \in Streams, NEW r \in RowIds
               PROVE  target[s][r] <= Accounted(s, r)'
    BY DEF CopiesInv
  <2>1. target[s][r] <= IF ~Adds(s) THEN 1
                        ELSE IF r <= store[s] THEN 1 + repeats[s] ELSE repeats[s]
    BY DEF CopiesInv, Accounted
  <2> QED  BY <1>1, <2>1 DEF Accounted
<1> QED  BY <1>2 DEF NoLoss

(* Leaving run() outside the commit of a stream.                             *)
LEMMA LeaveInv ==
    ASSUME TypeOK, RunInv, phase # "persist", phase' = "idle",
           UNCHANGED <<target, store, repeats>>
    PROVE  RunInv'
BY CopiesKept DEF RunInv, PrepareInv, ExtractInv, CommitInv, PersistInv

(* Steps of the source, and no step at all.                                  *)
LEMMA RunInvSame ==
    ASSUME RunInv, UNCHANGED <<store, full, iterVars, runVars>>
    PROVE  RunInv'
<1>0. UNCHANGED <<phase, todo, ready, failed, streams, iter, item, errors,
                  state, open, buffer, target, delivered, repeats, store, full>>
  BY DEF iterVars, runVars
<1>1. PrepareInv'
  BY <1>0, SMTT(20) DEF RunInv, PrepareInv, Distinct, Elems
<1>2. ExtractInv'
  BY <1>0 DEF RunInv, ExtractInv, Distinct, Elems, Holds, Written, Base
<1>3. CommitInv'
  <2>1. Elems(Waiting)' = Elems(Waiting)
    BY <1>0 DEF Waiting, Elems
  <2>2. \A s : Holds(s, state[s])' <=> Holds(s, state[s])
    BY <1>0 DEF Holds, Base
  <2>3. Distinct(todo)' = Distinct(todo) /\ Elems(todo)' = Elems(todo)
        /\ Elems(streams)' = Elems(streams)
    BY <1>0 DEF Distinct, Elems
  <2>4. IterOver' = IterOver
    BY <1>0 DEF IterOver
  <2>5. SUFFICES ASSUME (phase \in {"commit", "persist"})'
                 PROVE  (/\ IterOver /\ errors \subseteq failed
                         /\ Distinct(todo) /\ Elems(todo) \subseteq Elems(streams)
                         /\ \A s \in Elems(Waiting) \ failed : Holds(s, state[s]))'
    BY DEF CommitInv
  <2>6. /\ IterOver /\ errors \subseteq failed
        /\ Distinct(todo) /\ Elems(todo) \subseteq Elems(streams)
        /\ \A s \in Elems(Waiting) \ failed : Holds(s, state[s])
    BY <1>0, <2>5 DEF RunInv, CommitInv
  <2>7. \A s \in (Elems(Waiting) \ failed)' : Holds(s, state[s])'
    BY <1>0, <2>1, <2>2, <2>6
  <2> QED  BY <1>0, <2>3, <2>4, <2>6, <2>7
<1>4. PersistInv'
  BY <1>0 DEF RunInv, PersistInv, Base
<1>5. CopiesInv' /\ NoLoss'
  BY <1>0 DEF RunInv, CopiesInv, Accounted, NoLoss
<1> QED  BY <1>1, <1>2, <1>3, <1>4, <1>5 DEF RunInv

(* The streams of a run are named once.                                      *)
LEMMA BeginRunInv ==
    ASSUME TypeOK, RunInv, NEW list \in Requests, NEW f, BeginRun(list, f)
    PROVE  RunInv'
<1>1. Distinct(list)
  BY RequestsAssumption DEF Distinct
<1>2. PrepareInv'
  BY <1>1 DEF BeginRun, PrepareInv, Elems, Distinct
<1>3. CopiesInv' /\ NoLoss'
  BY CopiesKept DEF BeginRun, RunInv
<1> QED  BY <1>2, <1>3 DEF BeginRun, RunInv, ExtractInv, CommitInv, PersistInv

(* A stream is prepared, or fails to be.                                     *)
LEMMA PrepareStepInv ==
    ASSUME TypeOK, RunInv, PrepareStream \/ PrepareFails
    PROVE  RunInv'
<1> DEFINE s == Head(todo)
<1>0. phase = "prepare" /\ todo # <<>> /\ todo \in Seq(Streams) /\ ready \in Seq(Streams)
  BY DEF PrepareStream, PrepareFails, TypeOK, RunTypeOK
<1>1. /\ Distinct(todo) /\ Distinct(ready)
      /\ Elems(todo) \intersect Elems(ready) = {}
      /\ Elems(ready) \subseteq open
      /\ \A u \in Elems(ready) : buffer[u] = Nothing
  BY <1>0 DEF RunInv, PrepareInv
<1>2. /\ Distinct(Tail(todo)) /\ Elems(Tail(todo)) \subseteq Elems(todo)
      /\ s \in Elems(todo) /\ s \in Streams /\ s \notin Elems(Tail(todo))
  BY <1>0, <1>1, Rest
<1>3. phase' = "prepare" /\ todo' = Tail(todo)
  BY <1>0 DEF PrepareStream, PrepareFails
<1>4. CopiesInv' /\ NoLoss'
  BY <1>0, CopiesKept DEF PrepareStream, PrepareFails, RunInv, env
<1>5. PrepareInv'
  <2>1. CASE PrepareFails
    <3>1. UNCHANGED <<ready, open, buffer>>
      BY <2>1 DEF PrepareFails
    <3>2. Elems(ready)' = Elems(ready) /\ Elems(todo)' = Elems(Tail(todo))
      BY <1>3, <3>1 DEF Elems
    <3> QED  BY <1>1, <1>2, <1>3, <3>1, <3>2 DEF PrepareInv, Distinct
  <2>2. CASE PrepareStream
    <3>1. /\ Len(ready') = Len(ready) + 1 /\ Len(ready) \in Nat
          /\ \A i \in 1..Len(ready) : ready'[i] = ready[i]
          /\ ready'[Len(ready) + 1] = s
      BY <1>0, <2>2 DEF PrepareStream
    <3>2. \A i \in 1..Len(ready') : i \in 1..Len(ready) \/ i = Len(ready) + 1
      BY <3>1
    <3>3. Elems(ready') = Elems(ready) \union {s}
      <4>1. \A i \in 1..Len(ready) : i \in 1..Len(ready')
        BY <3>1
      <4>2. Len(ready) + 1 \in 1..Len(ready')
        BY <3>1
      <4> QED  BY <3>1, <3>2, <4>1, <4>2 DEF Elems
    <3>4. s \notin Elems(ready)
      BY <1>1, <1>2
    <3>5. Distinct(ready')
      <4> SUFFICES ASSUME NEW i \in 1..Len(ready'), NEW j \in 1..Len(ready'),
                          ready'[i] = ready'[j]
                   PROVE  i = j
        BY DEF Distinct
      <4> QED  BY <1>1, <3>1, <3>2, <3>4 DEF Elems, Distinct
    <3>6. \A u \in Elems(ready') : u \in open' /\ buffer'[u] = Nothing
      <4>1. /\ open' = open \union {s}
            /\ buffer' = [u \in Streams |-> IF u \in {s} THEN Nothing ELSE buffer[u]]
        BY <2>2 DEF PrepareStream, Without
      <4>2. Elems(ready) \subseteq Streams
        BY <1>0, ListElems
      <4> QED  BY <1>1, <1>2, <3>3, <4>1, <4>2
    <3>7. Elems(todo') \intersect Elems(ready') = {}
      BY <1>1, <1>2, <1>3, <3>3
    <3>8. Elems(ready)' = Elems(ready') /\ Elems(todo)' = Elems(todo')
      BY DEF Elems
    <3> QED  BY <1>2, <1>3, <3>5, <3>6, <3>7, <3>8 DEF PrepareInv, Distinct
  <2> QED  BY <2>1, <2>2
<1> QED  BY <1>3, <1>4, <1>5 DEF RunInv, ExtractInv, CommitInv, PersistInv

(* The iterator is entered with every buffer of its streams empty.           *)
LEMMA EnterPipeInv ==
    ASSUME TypeOK, RunInv, EnterPipe
    PROVE  RunInv'
<1>1. /\ Distinct(ready) /\ Elems(ready) \subseteq open
      /\ \A s \in Elems(ready) : buffer[s] = Nothing
  BY DEF EnterPipe, RunInv, PrepareInv
<1>2. Elems(ready) \subseteq Streams
  BY ListElems DEF TypeOK, RunTypeOK
<1>3. \A s \in Streams : Base(s) \in Nat /\ Base(s)' = Base(s)
  BY DEF Base, TypeOK, IterTypeOK, EnterPipe, env
<1>4. CopiesInv' /\ NoLoss'
  BY CopiesKept DEF EnterPipe, env, RunInv
<1>5. ASSUME NEW s \in Elems(ready)
      PROVE  Holds(s, Written(s))'
  <2>1. Written(s)' = Base(s) /\ buffer'[s] = Nothing /\ s \in open'
    BY <1>1, <1>2 DEF EnterPipe, Enter, Written
  <2>2. \A r \in RowIds : ~(Base(s) < r /\ r <= Base(s))
    BY <1>2, <1>3 DEF RowIds
  <2> QED  BY <1>2, <1>3, <2>1, <2>2 DEF Holds, Nothing
<1>6. ExtractInv'
  BY <1>1, <1>5 DEF EnterPipe, Enter, ExtractInv, Distinct, Elems
<1> QED  BY <1>4, <1>6 DEF EnterPipe, RunInv, PrepareInv, CommitInv, PersistInv

(* The iterator hands over the next chunk, counts a sentinel or ends.        *)
LEMMA ExtractStepInv ==
    ASSUME TypeOK, PipelineInv, Extract
    PROVE  RunInv'
<1>1. /\ phase = "extract" /\ iter = "running" /\ phase' = "extract"
      /\ UNCHANGED <<ready, open, buffer, streams, target, store, repeats, full>>
  BY DEF Extract, runVars, Iterate, GetRows, GetSentinel, IterEnd, env
<1>2. /\ streams = ready /\ Distinct(ready)
      /\ \A s \in Elems(ready) : Holds(s, delivered[s])
  BY <1>1 DEF PipelineInv, RunInv, ExtractInv, Written
<1>3. CopiesInv' /\ NoLoss'
  BY <1>1, CopiesKept DEF PipelineInv, RunInv
<1>4. Elems(ready)' = Elems(ready) /\ Distinct(ready)' /\ streams' = ready'
  BY <1>1, <1>2 DEF Elems, Distinct
<1>5. Elems(ready) \subseteq Streams
  BY ListElems DEF TypeOK, RunTypeOK
<1>6. ASSUME GetRows  PROVE ExtractInv'
  <2>1. /\ iter' = "yielded" /\ item' = Head(queue)
        /\ delivered' = [delivered EXCEPT ![Head(queue).stream] = Head(queue).last]
        /\ queue # <<>> /\ Head(queue).kind = "rows"
    BY <1>6 DEF GetRows
  <2>2. Head(queue).first = delivered[Head(queue).stream] + 1
    BY <2>1, HeadIsNext DEF TypeOK, PipelineInv
  <2>3. Head(queue) \in Items
    BY <2>1 DEF TypeOK, IterTypeOK
  <2>4. \A s \in Streams : delivered[s] \in Nat
    BY DEF TypeOK, IterTypeOK
  <2>5. Head(queue).stream \in Streams
    BY <2>3 DEF Items
  <2>6. item'.first > 0
    BY <2>1, <2>2, <2>4, <2>5
  <2>7. \A s \in Streams : Written(s)' = delivered[s]
    <3> SUFFICES ASSUME NEW s \in Streams
                 PROVE  Written(s)' = delivered[s]
      OBVIOUS
    <3>1. CASE Head(queue).stream = s
      BY <2>1, <2>2, <2>4, <3>1 DEF Written
    <3>2. CASE Head(queue).stream # s
      <4>1. delivered'[s] = delivered[s]
        BY <2>1, <3>2 DEF TypeOK, IterTypeOK
      <4> QED  BY <2>1, <3>2, <4>1 DEF Written
    <3> QED  BY <3>1, <3>2
  <2>8. \A s \in Elems(ready) : Holds(s, Written(s))'
    BY <1>1, <1>2, <1>5, <2>7 DEF Holds, Base
  <2> QED  BY <1>4, <2>1, <2>6, <2>8 DEF ExtractInv
<1>7. ASSUME GetSentinel \/ IterEnd  PROVE ExtractInv'
  <2>1. iter' \in {"running", "exhausted", "raised"} /\ delivered' = delivered
    BY <1>1, <1>7 DEF GetSentinel, IterEnd
  <2>2. \A s \in Elems(ready) : Holds(s, Written(s))'
    BY <1>1, <1>2, <2>1 DEF Holds, Base, Written
  <2> QED  BY <1>4, <2>1, <2>2 DEF ExtractInv
<1>8. ExtractInv'
  BY <1>6, <1>7 DEF Extract, Iterate
<1> QED  BY <1>1, <1>3, <1>8 DEF RunInv, PrepareInv, CommitInv, PersistInv

(* The workers run beside the main thread and touch none of its state.       *)
LEMMA ExtractionInv ==
    ASSUME TypeOK, PipelineInv, NEW t \in Streams, Extraction(t)
    PROVE  RunInv'
<1>1. UNCHANGED <<env, runVars, streams, iter, item, delivered>>
  BY DEF Extraction, Worker, PickUp, GetState, OpenRead, PutChunk, Exhaust, PutTail,
         PutDone, Raise, PutError
<1>2. phase \notin {"commit", "persist"}
  BY WorkersOver DEF Extraction
<1>3. UNCHANGED <<phase, todo, ready, open, buffer, target, store, repeats, full>>
  BY <1>1 DEF env, runVars
<1>4. CopiesInv' /\ NoLoss'
  BY <1>2, <1>3, CopiesKept DEF PipelineInv, RunInv
<1>5. PrepareInv'
  BY <1>3 DEF PipelineInv, RunInv, PrepareInv, Distinct, Elems
<1>6. ExtractInv'
  BY <1>1, <1>3 DEF PipelineInv, RunInv, ExtractInv, Distinct, Elems, Holds, Written, Base
<1> QED  BY <1>2, <1>3, <1>4, <1>5, <1>6 DEF RunInv, CommitInv, PersistInv

(* The chunk goes into the buffer of its stream, right after the rows before.*)
LEMMA WriteChunkInv ==
    ASSUME TypeOK, PipelineInv, WriteChunk
    PROVE  RunInv'
<1>1. /\ phase = "extract" /\ iter = "yielded" /\ phase' = "extract" /\ iter' = "running"
      /\ UNCHANGED <<ready, open, streams, target, store, repeats, full, delivered>>
      /\ buffer' = [buffer EXCEPT ![item.stream] = Extended(@, item)]
  BY DEF WriteChunk, Resume, env
<1>2. /\ streams = ready /\ Distinct(ready) /\ item.first > 0
      /\ \A s \in Elems(ready) : Holds(s, Written(s))
  BY <1>1 DEF PipelineInv, RunInv, ExtractInv
<1>3. CopiesInv' /\ NoLoss'
  BY <1>1, CopiesKept DEF PipelineInv, RunInv
<1>4. Elems(ready)' = Elems(ready) /\ Distinct(ready)' /\ streams' = ready'
  BY <1>1, <1>2 DEF Elems, Distinct
<1>5. /\ item \in Items /\ item.first <= item.last
      /\ delivered[item.stream] = item.last
  BY <1>1 DEF TypeOK, IterTypeOK, PipelineInv, IterInv, ItemInv
<1>6. item.stream \in Streams /\ item.first \in Nat /\ item.last \in Nat
  BY <1>5, SizesAssumption DEF Items
<1>7. ASSUME NEW s \in Elems(ready)
      PROVE  Holds(s, Written(s))'
  <2>1. s \in Streams /\ Base(s) \in Nat /\ Base(s)' = Base(s) /\ Written(s)' = delivered[s]
    <3>1. s \in Streams
      BY ListElems DEF TypeOK, RunTypeOK
    <3> QED  BY <1>1, <3>1 DEF Base, Written, TypeOK, IterTypeOK
  <2>2. Holds(s, Written(s))
    BY <1>2
  <2>3. CASE item.stream = s
    <3>1. Written(s) = item.first - 1 /\ delivered[s] = item.last
      BY <1>1, <1>5, <2>3 DEF Written
    <3>2. buffer'[s] = Extended(buffer[s], item)
      BY <1>1, <2>1, <2>3 DEF TypeOK, RunTypeOK
    <3>3. \A r \in RowIds : r \in Nat /\ buffer[s][r] =
             IF Base(s) < r /\ r <= item.first - 1 THEN 1 ELSE 0
      BY <2>2, <3>1 DEF Holds, RowIds
    <3>4. Base(s) <= item.first - 1
      BY <2>2, <3>1 DEF Holds
    <3>5. \A r \in RowIds : buffer'[s][r] = IF Base(s) < r /\ r <= item.last THEN 1 ELSE 0
      <4> SUFFICES ASSUME NEW r \in RowIds
                   PROVE  buffer'[s][r] = IF Base(s) < r /\ r <= item.last THEN 1 ELSE 0
        OBVIOUS
      <4>1. buffer'[s][r] = IF item.first <= r /\ r <= item.last
                            THEN buffer[s][r] + 1 ELSE buffer[s][r]
        BY <3>2 DEF Extended, InItem
      <4> QED  BY <1>5, <1>6, <2>1, <3>3, <3>4, <4>1
    <3> QED  BY <1>1, <1>5, <1>6, <2>1, <2>2, <3>1, <3>4, <3>5 DEF Holds
  <2>4. CASE item.stream # s
    <3>1. buffer'[s] = buffer[s] /\ Written(s) = delivered[s]
      BY <1>1, <2>1, <2>4 DEF TypeOK, RunTypeOK, Written
    <3> QED  BY <1>1, <2>1, <2>2, <3>1 DEF Holds
  <2> QED  BY <2>3, <2>4
<1>8. ExtractInv'
  BY <1>1, <1>4, <1>7 DEF ExtractInv
<1> QED  BY <1>1, <1>3, <1>8 DEF RunInv, PrepareInv, CommitInv, PersistInv

(* The loop is over: every stream without an error has its whole batch in    *)
(* the buffer, up to the watermark in its dict.                              *)
LEMMA ExtractDoneInv ==
    ASSUME TypeOK, PipelineInv, ExtractDone
    PROVE  RunInv'
<1>1. /\ phase = "extract" /\ IterOver /\ phase' = "commit"
      /\ todo' = ready /\ failed' = failed \union errors
      /\ open' = open \ errors /\ buffer' = Without(errors)
      /\ UNCHANGED <<env, iterVars, target, repeats>>
  BY DEF ExtractDone, RolledBack
<1>2. /\ streams = ready /\ Distinct(ready) /\ Elems(ready) \subseteq Streams
      /\ \A s \in Elems(ready) : Holds(s, delivered[s])
  <2>1. Elems(ready) \subseteq Streams
    BY ListElems DEF TypeOK, RunTypeOK
  <2> QED  BY <1>1, <2>1 DEF PipelineInv, RunInv, ExtractInv, IterOver, Written
<1>3. EveryRowYielded
  BY <1>1, AtTheEnd DEF TypeOK, PipelineInv
<1>4. CopiesInv' /\ NoLoss'
  BY <1>1, CopiesKept DEF PipelineInv, RunInv, env
<1>5. /\ IterOver' /\ errors' = errors /\ state' = state
      /\ streams' = streams /\ todo' = streams
      /\ Elems(todo)' = Elems(ready) /\ Elems(streams)' = Elems(ready)
  BY <1>1, <1>2 DEF iterVars, IterOver, Elems
<1>6. ASSUME NEW s \in Elems(ready), s \notin failed'
      PROVE  Holds(s, state[s])'
  <2>1. s \notin errors /\ s \in Streams
    BY <1>1, <1>2, <1>6
  <2>2. delivered[s] = state[s]
    BY <1>1, <1>2, <1>3, <2>1 DEF EveryRowYielded
  <2>3. /\ buffer'[s] = buffer[s] /\ (s \in open' <=> s \in open)
        /\ state'[s] = state[s] /\ Base(s)' = Base(s)
    BY <1>1, <1>5, <2>1 DEF Without, Base, env
  <2>4. Holds(s, state[s])
    BY <1>2, <2>2
  <2> QED  BY <2>3, <2>4 DEF Holds
<1>7. CommitInv'
  <2>1. Elems(Waiting)' = Elems(ready)
    BY <1>1 DEF Waiting, Elems
  <2>2. \A s \in Elems(Waiting)' \ failed' : Holds(s, state[s])'
    BY <1>6, <2>1
  <2>3. Distinct(todo)'
    BY <1>1, <1>2 DEF Distinct
  <2> QED  BY <1>1, <1>5, <2>2, <2>3 DEF CommitInv
<1> QED  BY <1>1, <1>4, <1>7 DEF RunInv, PrepareInv, ExtractInv, PersistInv

(* Steps of the commit loop are done with the head of the list, and leave    *)
(* the batches that wait behind it alone.                                    *)
LEMMA NextStreamInv ==
    ASSUME TypeOK, PipelineInv, phase \in {"commit", "persist"}, todo # <<>>,
           phase' \in {"commit", "persist"},
           todo' = IF phase' = "persist" THEN todo ELSE Tail(todo),
           failed \subseteq failed', full' = full, UNCHANGED iterVars,
           \A s \in Streams \ {Head(todo)} :
               /\ s \in open => s \in open'
               /\ buffer'[s] = buffer[s] /\ store'[s] = store[s]
    PROVE  PrepareInv' /\ ExtractInv' /\ CommitInv'
<1>1. /\ IterOver /\ errors \subseteq failed
      /\ Distinct(todo) /\ Elems(todo) \subseteq Elems(streams)
      /\ \A s \in Elems(Waiting) \ failed : Holds(s, state[s])
  BY DEF PipelineInv, RunInv, CommitInv
<1>2. /\ todo \in Seq(Streams)
      /\ Distinct(Tail(todo)) /\ Elems(Tail(todo)) \subseteq Elems(todo)
      /\ Head(todo) \notin Elems(Tail(todo)) /\ Tail(todo) \in Seq(Streams)
  BY <1>1, Rest DEF TypeOK, RunTypeOK
<1>3. Waiting' = Tail(todo) /\ Elems(Waiting)' = Elems(Tail(todo))
  BY DEF Waiting, Elems
<1>4. Elems(Tail(todo)) \subseteq Elems(Waiting)
  BY <1>2 DEF Waiting
<1>5. ASSUME NEW s \in Elems(Tail(todo)), s \notin failed'
      PROVE  Holds(s, state[s])'
  <2>1. Holds(s, state[s])
    BY <1>1, <1>4, <1>5
  <2>2. s \in Streams \ {Head(todo)}
    BY <1>2, ListElems
  <2>3. state' = state /\ Base(s)' = Base(s)
    BY <2>2 DEF iterVars, Base
  <2> QED  BY <2>1, <2>2, <2>3 DEF Holds
<1>6. /\ IterOver' /\ errors' \subseteq failed'
      /\ Distinct(todo)' /\ Elems(todo)' \subseteq Elems(streams)'
  <2>1. todo' = todo \/ todo' = Tail(todo)
    OBVIOUS
  <2>2. Elems(todo)' = Elems(todo') /\ Elems(streams)' = Elems(streams)
    BY DEF Elems, iterVars
  <2>3. Distinct(todo)' /\ Elems(todo)' \subseteq Elems(streams)'
    <3>1. Distinct(todo') /\ Elems(todo') \subseteq Elems(streams)
      BY <1>1, <1>2, <2>1
    <3> QED  BY <2>2, <3>1 DEF Distinct
  <2> QED  BY <1>1, <2>3 DEF iterVars, IterOver
<1>7. CommitInv'
  BY <1>3, <1>5, <1>6 DEF CommitInv
<1> QED  BY <1>7 DEF PrepareInv, ExtractInv

(* What lands when a whole batch is committed: unless the table is replaced, *)
(* its rows are in the table and none of the others leaves it; and no row is *)
(* there more often than before but for the batch.                           *)
LEMMA Lands ==
    ASSUME TypeOK, RunInv, NEW s \in Streams, Holds(s, state[s]), phase = "commit",
           NEW r \in RowIds
    PROVE  /\ ~Replaces(s) /\ Base(s) < r /\ r <= state[s] => Landed(s)[r] > 0
           /\ ~Replaces(s) /\ target[s][r] > 0 => Landed(s)[r] > 0
           /\ ~Adds(s) => Landed(s)[r] <= 1
           /\ Adds(s) =>
                Landed(s)[r] = target[s][r] +
                               (IF Base(s) < r /\ r <= state[s] THEN 1 ELSE 0)
<1>1. target[s][r] \in Nat /\ buffer[s][r] \in Nat
  BY DEF TypeOK, RunTypeOK
<1>2. buffer[s][r] = IF Base(s) < r /\ r <= state[s] THEN 1 ELSE 0
  BY DEF Holds
<1>3. ~Adds(s) => target[s][r] <= 1
  BY DEF RunInv, CopiesInv, Accounted
<1>4. Landed(s)[r] = IF Adds(s) THEN target[s][r] + buffer[s][r]
                     ELSE IF Replaces(s) THEN Replaced(s)[r]
                     ELSE IF buffer[s][r] > 0 THEN buffer[s][r] ELSE target[s][r]
  BY DEF Landed
<1>5. CASE Adds(s)
  BY <1>1, <1>2, <1>4, <1>5 DEF Adds, Replaces
<1>6. CASE ~Adds(s) /\ Replaces(s)
  <2>1. Landed(s)[r] \in {target[s][r], buffer[s][r]}
    BY <1>4, <1>6 DEF Replaced
  <2> QED  BY <1>2, <1>3, <1>6, <2>1
<1>7. CASE ~Adds(s) /\ ~Replaces(s)
  BY <1>1, <1>2, <1>3, <1>4, <1>7
<1> QED  BY <1>5, <1>6, <1>7

(* A commit that does not come to its end takes no row from the table unless *)
(* it is replaced, and adds none.                                            *)
LEMMA Undoes ==
    ASSUME TypeOK, NEW s \in Streams, NEW rows \in Undone(s)
    PROVE  /\ ~Replaces(s) => rows = target[s]
           /\ \A r \in RowIds : rows[r] <= target[s][r]
<1>1. \A r \in RowIds : target[s][r] \in Nat
  BY DEF TypeOK, RunTypeOK
<1>2. CASE rows = target[s]
  BY <1>1, <1>2
<1>3. CASE rows # target[s]
  <2>1. Replaces(s) /\ rows = Nothing
    BY <1>3 DEF Undone
  <2>2. \A r \in RowIds : rows[r] = 0
    BY <2>1 DEF Nothing
  <2> QED  BY <1>1, <2>1, <2>2
<1> QED  BY <1>2, <1>3

(* Steps that at most empty a replaced table keep the counts.                *)
LEMMA CopiesUndone ==
    ASSUME TypeOK, CopiesInv, NoLoss, phase # "persist", phase' # "persist",
           UNCHANGED <<store, repeats>>, NEW t \in Streams, NEW rows \in Undone(t),
           target' = [target EXCEPT ![t] = rows]
    PROVE  CopiesInv' /\ NoLoss'
<1>1. \A s \in Streams, r \in RowIds : target[s][r] \in Nat /\ repeats[s] \in Nat
  BY DEF TypeOK, RunTypeOK
<1>2. \A s \in Streams : target'[s] = IF s = t THEN rows ELSE target[s]
  BY DEF TypeOK, RunTypeOK
<1>3. \A s \in Streams, r \in RowIds : target'[s][r] \in Nat /\ target'[s][r] <= target[s][r]
  <2>1. rows \in [RowIds -> Nat]
    BY BufferTypes DEF TypeOK
  <2> QED  BY <1>1, <1>2, <2>1, Undoes
<1>4. \A s \in Streams : ~Replaces(s) => target'[s] = target[s]
  BY <1>2, Undoes
<1>5. CopiesInv'
  <2> SUFFICES ASSUME NEW s \in Streams, NEW r \in RowIds
               PROVE  target'[s][r] <= Accounted(s, r)'
    BY DEF CopiesInv
  <2>1. target[s][r] <= IF ~Adds(s) THEN 1
                        ELSE IF r <= store[s] THEN 1 + repeats[s] ELSE repeats[s]
    BY DEF CopiesInv, Accounted
  <2> QED  BY <1>1, <1>3, <2>1 DEF Accounted
<1>6. NoLoss'
  BY <1>4 DEF NoLoss
<1> QED  BY <1>5, <1>6

(* Where the commit loop stands.                                             *)
LEMMA AtHead ==
    ASSUME TypeOK, PipelineInv, phase = "commit", todo # <<>>, Head(todo) \notin failed
    PROVE  /\ Head(todo) \in Streams /\ Holds(Head(todo), state[Head(todo)])
           /\ store[Head(todo)] <= state[Head(todo)]
<1>1. /\ Distinct(todo) /\ todo \in Seq(Streams)
      /\ \A s \in Elems(todo) \ failed : Holds(s, state[s])
  BY DEF PipelineInv, RunInv, CommitInv, Waiting, TypeOK, RunTypeOK
<1>2. Head(todo) \in Elems(todo)
  BY <1>1, Rest
<1> QED  BY <1>1, <1>2, InCommit

(* The buffer that is dropped is that of the head of the list.               *)
LEMMA OthersStay ==
    ASSUME TypeOK, NEW t \in Streams, DropBuffer(t), NEW s \in Streams, s # t
    PROVE  buffer'[s] = buffer[s] /\ (s \in open => s \in open')
BY DEF DropBuffer, Without

(* The commit of a stream.                                                   *)
LEMMA CommitStepInv ==
    ASSUME TypeOK, PipelineInv, NEW t \in Streams, Commit(t)
    PROVE  RunInv'
<1>1. /\ phase = "commit" /\ todo # <<>> /\ Head(todo) = t /\ t \notin failed
      /\ phase' = "persist" /\ UNCHANGED <<env, iterVars, todo, failed>>
      /\ target' = [target EXCEPT ![t] = Landed(t)] /\ DropBuffer(t)
      /\ repeats' = IF full THEN [repeats EXCEPT ![t] = @ + 1] ELSE repeats
  BY DEF Commit, Committing, Repeated
<1>2. Holds(t, state[t]) /\ store[t] <= state[t]
  BY <1>1, AtHead
<1>3. PrepareInv' /\ ExtractInv' /\ CommitInv'
  BY <1>1, OthersStay, NextStreamInv DEF env
<1>4. \A s \in Streams : target'[s] = IF s = t THEN Landed(t) ELSE target[s]
  BY <1>1 DEF TypeOK, RunTypeOK
<1>5. \A r \in RowIds :
         /\ ~Replaces(t) /\ Base(t) < r /\ r <= state[t] => Landed(t)[r] > 0
         /\ ~Replaces(t) /\ target[t][r] > 0 => Landed(t)[r] > 0
         /\ ~Adds(t) => Landed(t)[r] <= 1
         /\ Adds(t) =>
              Landed(t)[r] = target[t][r] + (IF Base(t) < r /\ r <= state[t] THEN 1 ELSE 0)
  BY <1>1, <1>2, Lands DEF PipelineInv
<1>6. \A s \in Streams : /\ Base(s)' = Base(s) /\ state'[s] = state[s] /\ store'[s] = store[s]
                         /\ store[s] \in 0..MaxRows /\ repeats[s] \in Nat /\ state[s] \in Nat
                         /\ full' = full
  BY <1>1 DEF env, iterVars, Base, TypeOK, IterTypeOK, RunTypeOK
<1>7. PersistInv'
  BY <1>1, <1>4, <1>5, <1>6 DEF PersistInv, Base
<1>8. NoLoss'
  <2> SUFFICES ASSUME NEW s \in Streams, ~Replaces(s), NEW r \in 1..store'[s]
               PROVE  target'[s][r] > 0
    BY DEF NoLoss
  <2>1. r \in 1..store[s] /\ r \in RowIds
    BY <1>6, SizesAssumption DEF RowIds
  <2>2. target[s][r] > 0
    BY <2>1 DEF PipelineInv, RunInv, NoLoss
  <2> QED  BY <1>4, <1>5, <2>1, <2>2
<1>9. CopiesInv'
  <2> SUFFICES ASSUME NEW s \in Streams, NEW r \in RowIds
               PROVE  target'[s][r] <= Accounted(s, r)'
    BY DEF CopiesInv
  <2>1. target[s][r] <= IF ~Adds(s) THEN 1
                        ELSE IF r <= store[s] THEN 1 + repeats[s] ELSE repeats[s]
    BY <1>1 DEF PipelineInv, RunInv, CopiesInv, Accounted
  <2>2. target[s][r] \in Nat /\ r \in Nat
    <3>1. target[s][r] \in Nat
      BY DEF TypeOK, RunTypeOK
    <3>2. r \in Nat
      BY SizesAssumption DEF RowIds
    <3> QED  BY <3>1, <3>2
  <2>3. CASE s # t
    <3>1. repeats'[s] = repeats[s]
      BY <1>1, <2>3 DEF TypeOK, RunTypeOK
    <3> QED  BY <1>1, <1>4, <1>6, <2>1, <2>3, <3>1 DEF Accounted
  <2>4. CASE s = t /\ ~Adds(t)
    BY <1>4, <1>5, <2>4 DEF Accounted
  <2>5. CASE s = t /\ Adds(t) /\ full
    <3>1. repeats'[t] = repeats[t] + 1
      BY <1>1, <2>5 DEF TypeOK, RunTypeOK
    <3>2. Landed(t)[r] <= target[t][r] + 1
      BY <1>5, <2>2, <2>5
    <3>3. Landed(t)[r] \in Nat /\ repeats[t] \in Nat
      <4>1. repeats[t] \in Nat /\ target[t][r] \in Nat
        BY <1>6, <2>2, <2>5
      <4> QED  BY <1>5, <2>5, <4>1
    <3>4. Landed(t)[r] <= IF r <= store[t] THEN 1 + repeats'[t] ELSE repeats'[t]
      BY <2>1, <2>2, <2>5, <3>1, <3>2, <3>3
    <3> QED  BY <1>4, <1>6, <2>5, <3>4 DEF Accounted
  <2>6. CASE s = t /\ Adds(t) /\ ~full
    <3>1. repeats'[t] = repeats[t] /\ Base(t) = store[t]
      BY <1>1, <2>6 DEF Base
    <3> QED  BY <1>1, <1>2, <1>4, <1>5, <1>6, <2>1, <2>2, <2>6, <3>1 DEF Accounted
  <2> QED  BY <2>3, <2>4, <2>5, <2>6
<1> QED  BY <1>3, <1>7, <1>8, <1>9 DEF RunInv

(* Destination.commit raises, or loses its acknowledgement.                  *)
LEMMA CommitFailsInv ==
    ASSUME TypeOK, PipelineInv, NEW t \in Streams, CommitFails(t) \/ CommitAckLost(t)
    PROVE  RunInv'
<1>1. /\ phase = "commit" /\ todo # <<>> /\ Head(todo) = t /\ t \notin failed
      /\ phase' = "commit" /\ todo' = Tail(todo) /\ failed' = failed \union {t}
      /\ UNCHANGED <<env, iterVars>> /\ DropBuffer(t)
  BY DEF CommitFails, CommitAckLost, Committing, CollectError, AfterError
<1>2. PrepareInv' /\ ExtractInv' /\ CommitInv'
  BY <1>1, OthersStay, NextStreamInv DEF env
<1>3. PersistInv'
  BY <1>1 DEF PersistInv
<1>4. CASE CommitFails(t)
  <2>1. PICK rows \in Undone(t) : target' = [target EXCEPT ![t] = rows]
    BY <1>4 DEF CommitFails
  <2>2. UNCHANGED <<store, repeats>> /\ CopiesInv /\ NoLoss
    BY <1>4 DEF CommitFails, env, PipelineInv, RunInv
  <2>3. CopiesInv' /\ NoLoss'
    BY <1>1, <2>1, <2>2, CopiesUndone
  <2> QED  BY <1>2, <1>3, <2>3 DEF RunInv
<1>5. CASE CommitAckLost(t)
  <2>1. /\ target' = [target EXCEPT ![t] = Landed(t)]
        /\ repeats' = [repeats EXCEPT ![t] = @ + 1]
    BY <1>5 DEF CommitAckLost, Repeated
  <2>2. Holds(t, state[t])
    BY <1>1, AtHead
  <2>3. \A r \in RowIds :
           /\ ~Replaces(t) /\ target[t][r] > 0 => Landed(t)[r] > 0
           /\ ~Adds(t) => Landed(t)[r] <= 1
           /\ Adds(t) =>
                Landed(t)[r] = target[t][r] + (IF Base(t) < r /\ r <= state[t] THEN 1 ELSE 0)
    BY <1>1, <2>2, Lands DEF PipelineInv
  <2>4. \A s \in Streams :
           /\ target'[s] = IF s = t THEN Landed(t) ELSE target[s]
           /\ repeats'[s] = IF s = t THEN repeats[t] + 1 ELSE repeats[s]
           /\ store'[s] = store[s] /\ store[s] \in 0..MaxRows /\ repeats[s] \in Nat
           /\ \A r \in RowIds : target[s][r] \in Nat
    BY <1>1, <2>1 DEF env, TypeOK, IterTypeOK, RunTypeOK
  <2>5. NoLoss'
    <3> SUFFICES ASSUME NEW s \in Streams, ~Replaces(s), NEW r \in 1..store'[s]
                 PROVE  target'[s][r] > 0
      BY DEF NoLoss
    <3>1. r \in 1..store[s] /\ r \in RowIds
      BY <2>4, SizesAssumption DEF RowIds
    <3>2. target[s][r] > 0
      BY <3>1 DEF PipelineInv, RunInv, NoLoss
    <3> QED  BY <2>3, <2>4, <3>1, <3>2
  <2>6. CopiesInv'
    <3> SUFFICES ASSUME NEW s \in Streams, NEW r \in RowIds
                 PROVE  target'[s][r] <= Accounted(s, r)'
      BY DEF CopiesInv
    <3>1. target[s][r] <= IF ~Adds(s) THEN 1
                          ELSE IF r <= store[s] THEN 1 + repeats[s] ELSE repeats[s]
      BY <1>1 DEF PipelineInv, RunInv, CopiesInv, Accounted
    <3>2. CASE s # t
      BY <1>1, <2>4, <3>1, <3>2 DEF Accounted
    <3>3. CASE s = t /\ ~Adds(t)
      BY <2>3, <2>4, <3>3 DEF Accounted
    <3>4. CASE s = t /\ Adds(t)
      <4>1. Landed(t)[r] \in Nat /\ Landed(t)[r] <= target[t][r] + 1
        BY <2>3, <2>4, <3>4
      <4>2. Landed(t)[r] <= IF r <= store[t] THEN 1 + repeats'[t] ELSE repeats'[t]
        BY <2>4, <3>1, <3>4, <4>1
      <4> QED  BY <1>1, <2>4, <3>4, <4>2 DEF Accounted
    <3> QED  BY <3>2, <3>3, <3>4
  <2> QED  BY <1>2, <1>3, <2>5, <2>6 DEF RunInv
<1> QED  BY <1>4, <1>5

(* StateStore.set, after the rows have landed.                               *)
LEMMA SetStateInv ==
    ASSUME TypeOK, PipelineInv, NEW t \in Streams, SetState(t)
    PROVE  RunInv'
<1>1. /\ phase = "persist" /\ todo # <<>> /\ Head(todo) = t /\ t \notin failed
      /\ phase' = "commit" /\ todo' = Tail(todo) /\ full' = full
      /\ store' = [store EXCEPT ![t] = state[t]]
      /\ UNCHANGED <<iterVars, failed, open, buffer, target, repeats>>
  BY DEF SetState, Persisting, GetPipeState, PipelineInv, RunInv, PersistInv
<1>2. \A s \in Streams : /\ store'[s] = IF s = t THEN state[t] ELSE store[s]
                         /\ store[s] \in 0..MaxRows /\ state[s] \in 0..MaxRows
                         /\ repeats[s] \in Nat
                         /\ \A r \in RowIds : target[s][r] \in Nat
  BY <1>1 DEF TypeOK, IterTypeOK, RunTypeOK
<1>3. PrepareInv' /\ ExtractInv' /\ CommitInv'
  BY <1>1, <1>2, NextStreamInv
<1>4. store[t] <= state[t]
  <2>1. t \in Elems(todo)
    BY <1>1, SMTT(20) DEF Elems, TypeOK, RunTypeOK
  <2> QED  BY <1>1, <2>1, InCommit
<1>5. ~Replaces(t) => \A r \in RowIds : Base(t) < r /\ r <= state[t] => target[t][r] > 0
  BY <1>1 DEF PipelineInv, RunInv, PersistInv
<1>6. NoLoss'
  <2> SUFFICES ASSUME NEW s \in Streams, ~Replaces(s), NEW r \in 1..store'[s]
               PROVE  target'[s][r] > 0
    BY DEF NoLoss
  <2>1. \A q \in 1..store[s] : target[s][q] > 0
    BY DEF PipelineInv, RunInv, NoLoss
  <2>2. CASE s # t
    BY <1>1, <1>2, <2>1, <2>2
  <2>3. CASE s = t
    <3>1. r \in RowIds /\ r \in Nat /\ r > 0 /\ r <= state[t]
      BY <1>2, <2>3, SizesAssumption DEF RowIds
    <3>2. r \in 1..store[t] \/ Base(t) < r
      BY <1>2, <3>1 DEF Base
    <3> QED  BY <1>1, <1>5, <2>1, <2>3, <3>1, <3>2
  <2> QED  BY <2>2, <2>3
<1>7. CopiesInv'
  <2> SUFFICES ASSUME NEW s \in Streams, NEW r \in RowIds
               PROVE  target'[s][r] <= Accounted(s, r)'
    BY DEF CopiesInv
  <2>1. target[s][r] <= Accounted(s, r)
    BY DEF PipelineInv, RunInv, CopiesInv
  <2>2. r \in Nat
    BY SizesAssumption DEF RowIds
  <2> QED  BY <1>1, <1>2, <1>4, <2>1, <2>2 DEF Accounted
<1> QED  BY <1>1, <1>3, <1>6, <1>7 DEF RunInv, PersistInv

(* StateStore.set raises: the rows are in the table and will come again.     *)
LEMMA SetFailsInv ==
    ASSUME TypeOK, PipelineInv, NEW t \in Streams, SetFails(t)
    PROVE  RunInv'
<1>1. /\ phase = "persist" /\ todo # <<>> /\ Head(todo) = t
      /\ phase' = "commit" /\ todo' = Tail(todo) /\ failed' = failed \union {t}
      /\ repeats' = IF full THEN repeats ELSE [repeats EXCEPT ![t] = @ + 1]
      /\ UNCHANGED <<env, iterVars, open, buffer, target>>
  BY DEF SetFails, Persisting, CollectError, AfterError, Repeated
<1>2. PrepareInv' /\ ExtractInv' /\ CommitInv'
  BY <1>1, NextStreamInv DEF env
<1>3. \A s \in Streams :
         /\ repeats'[s] = IF s = t /\ ~full THEN repeats[s] + 1 ELSE repeats[s]
         /\ repeats[s] \in Nat /\ \A r \in RowIds : target[s][r] \in Nat
  BY <1>1 DEF TypeOK, RunTypeOK
<1>4. NoLoss'
  BY <1>1 DEF env, NoLoss, PipelineInv, RunInv
<1>5. CopiesInv'
  <2> SUFFICES ASSUME NEW s \in Streams, NEW r \in RowIds
               PROVE  target'[s][r] <= Accounted(s, r)'
    BY DEF CopiesInv
  <2>1. target[s][r] <= Accounted(s, r)
    BY DEF PipelineInv, RunInv, CopiesInv
  <2> QED  BY <1>1, <1>3, <2>1 DEF Accounted, env
<1> QED  BY <1>1, <1>2, <1>4, <1>5 DEF RunInv, PersistInv

(* The process dies: what it held in memory is gone, and the rows of a batch *)
(* whose watermark was not stored will come again.                           *)
LEMMA CrashInv ==
    ASSUME TypeOK, PipelineInv, Crash
    PROVE  RunInv'
<1>1. /\ phase' = "idle" /\ UNCHANGED env
      /\ IF phase = "persist" /\ ~full
         THEN repeats' = [repeats EXCEPT ![Head(todo)] = @ + 1] ELSE repeats' = repeats
      /\ \/ UNCHANGED target
         \/ \E s \in UnderWay : \E rows \in Undone(s) : target' = [target EXCEPT ![s] = rows]
  BY DEF Crash, Repeated
<1>2. todo # <<>> => Head(todo) \in Streams
  BY ListTypes DEF TypeOK, RunTypeOK
<1>3. CASE UNCHANGED target
  <2>0. phase = "persist" => todo # <<>>
    BY DEF PipelineInv, RunInv, PersistInv
  <2>1. \A s \in Streams :
           /\ repeats'[s] = IF phase = "persist" /\ ~full /\ Head(todo) = s
                            THEN repeats[s] + 1 ELSE repeats[s]
           /\ repeats[s] \in Nat /\ \A r \in RowIds : target[s][r] \in Nat
    <3>1. IF phase = "persist" /\ ~full
          THEN repeats' = [repeats EXCEPT ![Head(todo)] = @ + 1] ELSE repeats' = repeats
      BY <1>1
    <3>2. repeats \in [Streams -> Nat] /\ target \in [Streams -> [RowIds -> Nat]]
      BY DEF TypeOK, RunTypeOK
    <3> QED  BY <1>2, <2>0, <3>1, <3>2
  <2>2. NoLoss'
    BY <1>1, <1>3 DEF env, NoLoss, PipelineInv, RunInv
  <2>3. CopiesInv'
    <3> SUFFICES ASSUME NEW s \in Streams, NEW r \in RowIds
                 PROVE  target'[s][r] <= Accounted(s, r)'
      BY DEF CopiesInv
    <3>1. target[s][r] <= Accounted(s, r)
      BY DEF PipelineInv, RunInv, CopiesInv
    <3> QED  BY <1>1, <1>3, <2>1, <3>1 DEF Accounted, env
  <2> QED  BY <1>1, <2>2, <2>3
           DEF RunInv, PrepareInv, ExtractInv, CommitInv, PersistInv
<1>4. ASSUME NEW s \in UnderWay, NEW rows \in Undone(s), target' = [target EXCEPT ![s] = rows]
      PROVE  RunInv'
  <2>1. phase = "commit" /\ s \in Streams
    BY <1>2 DEF UnderWay
  <2>2. CopiesInv' /\ NoLoss'
    BY <1>1, <1>4, <2>1, CopiesUndone DEF env, PipelineInv, RunInv
  <2> QED  BY <1>1, <2>2 DEF RunInv, PrepareInv, ExtractInv, CommitInv, PersistInv
<1> QED  BY <1>1, <1>3, <1>4

(* A stream that failed in the loop is passed over.                          *)
LEMMA SkipInv ==
    ASSUME TypeOK, PipelineInv, SkipErrored
    PROVE  RunInv'
<1>1. /\ phase = "commit" /\ todo # <<>> /\ phase' = "commit" /\ todo' = Tail(todo)
      /\ UNCHANGED <<env, iterVars, failed, open, buffer, target, repeats>>
  BY DEF SkipErrored
<1>2. PrepareInv' /\ ExtractInv' /\ CommitInv'
  BY <1>1, NextStreamInv DEF env
<1>3. CopiesInv' /\ NoLoss'
  BY <1>1, CopiesKept DEF env, PipelineInv, RunInv
<1> QED  BY <1>1, <1>2, <1>3 DEF RunInv, PersistInv

(* Each step of the composed system keeps the invariant.                     *)
LEMMA PipelineStepInv ==
    ASSUME TypeOK, PipelineInv, [Next]_vars
    PROVE  PipelineInv'
<1>1. IterInv'
  BY IterInvStep
<1>2. RunInv
  BY DEF PipelineInv
<1>3. RunInv'
  <2>1. ASSUME NEW list \in Requests, NEW f \in FullRefresh, BeginRun(list, f)
        PROVE  RunInv'
    BY <1>2, <2>1, BeginRunInv
  <2>2. CASE \/ SchemaClash \/ NothingReady \/ WriteFails \/ CommitsDone
             \/ \E list \in Requests : StartFails(list)
    <3>1. /\ phase # "persist" /\ phase' = "idle"
          /\ UNCHANGED <<target, store, repeats>>
      BY <2>2 DEF SchemaClash, NothingReady, WriteFails, CommitsDone, StartFails, env
    <3> QED  BY <1>2, <3>1, LeaveInv
  <2>3. CASE PrepareStream \/ PrepareFails
    BY <1>2, <2>3, PrepareStepInv
  <2>4. CASE EnterPipe
    BY <1>2, <2>4, EnterPipeInv
  <2>5. CASE Extract
    BY <2>5, ExtractStepInv
  <2>6. CASE WriteChunk
    BY <2>6, WriteChunkInv
  <2>7. CASE ExtractDone
    BY <2>7, ExtractDoneInv
  <2>8. CASE SkipErrored
    BY <2>8, SkipInv
  <2>9. ASSUME NEW s \in Streams,
               \/ Commit(s) \/ CommitFails(s) \/ CommitAckLost(s)
               \/ SetState(s) \/ SetFails(s) \/ Extraction(s)
        PROVE  RunInv'
    BY <2>9, CommitStepInv, CommitFailsInv, SetStateInv, SetFailsInv, ExtractionInv
  <2>10. CASE Crash
    BY <2>10, CrashInv
  <2>11. CASE UNCHANGED vars \/ \E s \in Streams : SourceGrows(s)
    <3>1. UNCHANGED <<store, full, iterVars, runVars>>
      BY <2>11 DEF SourceGrows, vars, env
    <3> QED  BY <1>2, <3>1, RunInvSame
  <2> QED  BY <2>1, <2>2, <2>3, <2>4, <2>5, <2>6, <2>7, <2>8, <2>9, <2>10, <2>11
           DEF Next, MainThread, CommitLoop, Stop
<1> QED  BY <1>1, <1>3 DEF PipelineInv

(* And it holds before the first run.                                        *)
LEMMA PipelineInitInv ==
    ASSUME Init
    PROVE  PipelineInv
<1>1. /\ source \in [Streams -> 0..MaxRows] /\ store = Zero /\ InitIter
      /\ phase = "idle" /\ target = [s \in Streams |-> Nothing] /\ repeats = Zero
  BY DEF Init
<1>2. IterInv
  <2>1. ExtractInit
    <3>1. full \in BOOLEAN /\ store \in [Streams -> 0..MaxRows]
      <4>1. 0 \in 0..MaxRows
        BY SizesAssumption
      <4>2. full = FALSE
        BY DEF Init
      <4> QED  BY <1>1, <4>1, <4>2 DEF Zero
    <3>2. \A s \in Streams : store[s] <= source[s]
      BY <1>1, SizesAssumption DEF Zero
    <3> QED  BY <1>1, <3>1, <3>2 DEF ExtractInit
  <2> QED  BY <2>1, InitInv
<1>3. NoLoss
  BY <1>1 DEF NoLoss, Zero
<1>4. CopiesInv
  BY <1>1 DEF CopiesInv, Accounted, Nothing, Zero
<1> QED  BY <1>1, <1>2, <1>3, <1>4
         DEF PipelineInv, RunInv, PrepareInv, ExtractInv, CommitInv, PersistInv

-----------------------------------------------------------------------------
(* Theorems about run().                                                     *)

(* Buffers, tables, watermarks and workers agree in every state of every run.*)
THEOREM PipelineInvariant == Spec => []PipelineInv
<1>1. TypeOK /\ PipelineInv /\ [Next]_vars => PipelineInv'
  BY PipelineStepInv
<1> QED  BY <1>1, PipelineInitInv, TypeCorrect, PTL DEF Spec

(* A stored watermark never covers a row that is not in the table.           *)
THEOREM NothingLost == Spec => []NoLoss
<1>1. PipelineInv => NoLoss
  BY DEF PipelineInv, RunInv
<1> QED  BY <1>1, PipelineInvariant, PTL

(* No stream is committed before all of its batch has been written to the    *)
(* destination, and none with rows its watermark does not cover.             *)
THEOREM WholeBatches == Spec => []CommitsWholeBatch
<1>1. PipelineInv => CommitsWholeBatch
  BY DEF PipelineInv, RunInv, CommitInv, Waiting, Holds, CommitsWholeBatch, GetPipeState
<1> QED  BY <1>1, PipelineInvariant, PTL

(* Each copy of a row beyond the first is accounted for.                     *)
THEOREM DuplicatesCounted == Spec => []DuplicatesExplained
<1>1. TypeOK /\ PipelineInv => DuplicatesExplained
  <2> SUFFICES ASSUME TypeOK, PipelineInv, NEW s \in Streams, NEW r \in RowIds
               PROVE  target[s][r] <= IF Adds(s)
                                      THEN 1 + repeats[s] ELSE 1
    BY DEF DuplicatesExplained
  <2>1. target[s][r] <= Accounted(s, r)
    BY DEF PipelineInv, RunInv, CopiesInv
  <2>2. target[s][r] \in Nat /\ repeats[s] \in Nat
    BY DEF TypeOK, RunTypeOK
  <2> QED  BY <2>1, <2>2 DEF Accounted
<1> QED  BY <1>1, TypeCorrect, PipelineInvariant, PTL

(* No step moves a stored watermark back.                                    *)
THEOREM WatermarksAdvance == Spec => WatermarkNeverRegresses
<1> DEFINE Step == \A s \in Streams : store'[s] >= store[s]
<1>1. ASSUME TypeOK, PipelineInv, [Next]_vars
      PROVE  [Step]_vars
  <2>1. ASSUME NEW t \in Streams, SetState(t)
        PROVE  Step
    <3>1. /\ phase = "persist" /\ todo # <<>> /\ Head(todo) = t /\ t \notin failed
          /\ store' = [store EXCEPT ![t] = state[t]]
      BY <1>1, <2>1 DEF SetState, Persisting, GetPipeState, PipelineInv, RunInv, PersistInv
    <3>2. t \in Elems(todo)
      BY <3>1 DEF Elems, TypeOK, RunTypeOK
    <3>3. store[t] <= state[t]
      BY <1>1, <3>1, <3>2, InCommit
    <3>4. \A s \in Streams : store[s] \in Nat /\ state[s] \in Nat
      BY <1>1 DEF TypeOK, IterTypeOK
    <3> QED  BY <1>1, <3>1, <3>3, <3>4, SMTT(20) DEF TypeOK, IterTypeOK
  <2>2. CASE UNCHANGED store
    BY <1>1, <2>2 DEF TypeOK, IterTypeOK
  <2>3. (\E t \in Streams : SetState(t)) \/ UNCHANGED store
    BY <1>1 DEF Next, BeginRun, StartFails, MainThread, PrepareStream, PrepareFails,
       SchemaClash, NothingReady, EnterPipe, Extract, Iterate, GetRows, GetSentinel,
       IterEnd, WriteChunk, WriteFails, ExtractDone, CommitLoop, SkipErrored, Commit,
       CommitFails, CommitAckLost, SetFails, CommitsDone, Extraction, Worker, PickUp,
       GetState, OpenRead, PutChunk, Exhaust, PutTail, PutDone, Raise, PutError, Crash,
       SourceGrows, Stop, vars, env
  <2> QED  BY <2>1, <2>2, <2>3
<1>2. TypeOK /\ PipelineInv /\ [Next]_vars => [Step]_vars
  BY <1>1
<1> HIDE DEF Step
<1>3. Spec => [][Step]_vars
  BY <1>2, TypeCorrect, PipelineInvariant, PTL DEF Spec
<1> QED  BY <1>3 DEF WatermarkNeverRegresses, Step

-----------------------------------------------------------------------------
(* Pipeline implements AtLeastOnce.                                          *)

(* Landing a whole batch is one abstract step.                               *)
LEMMA LandStep ==
    ASSUME TypeOK, PipelineInv, NEW t \in Streams, ~Replaces(t),
           Committing(t), target' = [target EXCEPT ![t] = Landed(t)],
           UNCHANGED <<source, store>>
    PROVE  Promise!Next
<1> DEFINE a == Base(t)
           b == state[t]
           A == {s \in Streams : Adds(s)}
<1>1. phase = "commit" /\ todo # <<>> /\ Head(todo) = t /\ t \notin failed
  BY DEF Committing
<1>2. Holds(t, b) /\ t \in Elems(todo)
  <2>1. t \in Elems(todo)
    BY <1>1 DEF Elems, TypeOK, RunTypeOK
  <2> QED  BY <1>1, <2>1, AtHead
<1>3. b <= source[t]
  BY <1>1, <1>2, InCommit
<1>4. /\ a \in 0..MaxRows /\ b \in 0..MaxRows /\ a \in {0, store[t]}
      /\ source[t] \in Nat
  <2>1. /\ store[t] \in 0..MaxRows /\ state[t] \in 0..MaxRows /\ source[t] \in 0..MaxRows
        /\ full \in BOOLEAN
    BY DEF TypeOK, IterTypeOK
  <2>2. 0 \in 0..MaxRows /\ \A n \in 0..MaxRows : n \in Nat
    BY SizesAssumption
  <2> QED  BY <2>1, <2>2 DEF Base
<1>5. b \in a..source[t]
  BY <1>2, <1>3, <1>4 DEF Holds
<1>7. \A r \in RowIds :
         /\ target[t][r] \in Nat
         /\ buffer[t][r] = IF a < r /\ r <= b THEN 1 ELSE 0
  BY <1>2 DEF TypeOK, RunTypeOK, Holds
<1> HIDE DEF a, b
<1>8. Landed(t) = [r \in 1..MaxRows |->
         IF a < r /\ r <= b THEN (IF t \in A THEN target[t][r] + 1 ELSE 1) ELSE target[t][r]]
  <2>1. CASE Adds(t)
    BY <1>7, <2>1 DEF Landed, RowIds
  <2>2. CASE ~Adds(t)
    BY <1>7, <2>2 DEF Landed, RowIds
  <2> QED  BY <2>1, <2>2
<1>9. Promise!Land(t, a, b)
  <2>1. target \in [Streams -> [RowIds -> Nat]]
    BY DEF TypeOK, RunTypeOK
  <2> QED  BY <1>4, <1>5, <1>8, <2>1 DEF Promise!Land
<1> QED  BY <1>4, <1>9 DEF Promise!Next

(* Storing the watermark of a batch that has landed is one abstract step.    *)
LEMMA AdvanceStep ==
    ASSUME TypeOK, PipelineInv, NEW t \in Streams, ~Replaces(t), SetState(t)
    PROVE  Promise!Next
<1>1. /\ phase = "persist" /\ todo # <<>> /\ Head(todo) = t /\ t \notin failed
      /\ store' = [store EXCEPT ![t] = state[t]] /\ UNCHANGED <<source, target>>
  BY DEF SetState, Persisting, GetPipeState, PipelineInv, RunInv, PersistInv
<1>2. t \in Elems(todo)
  BY <1>1 DEF Elems, TypeOK, RunTypeOK
<1>3. store[t] <= state[t] /\ state[t] <= source[t]
  BY <1>1, <1>2, InCommit
<1>4. state[t] \in 0..MaxRows /\ store[t] \in 0..MaxRows /\ source[t] \in 0..MaxRows
  BY DEF TypeOK, IterTypeOK
<1>5. \A r \in RowIds : Base(t) < r /\ r <= state[t] => target[t][r] > 0
  BY <1>1 DEF PipelineInv, RunInv, PersistInv
<1>6. \A r \in 1..state[t] : target[t][r] > 0
  <2> SUFFICES ASSUME NEW r \in 1..state[t]  PROVE target[t][r] > 0
    OBVIOUS
  <2>1. r \in RowIds /\ r \in Nat /\ r > 0 /\ r <= state[t]
    BY <1>4, SizesAssumption DEF RowIds
  <2>2. r \in 1..store[t] \/ Base(t) < r
    BY <1>4, <2>1 DEF Base
  <2>3. \A q \in 1..store[t] : target[t][q] > 0
    BY DEF PipelineInv, RunInv, NoLoss
  <2> QED  BY <1>5, <2>1, <2>2, <2>3
<1>7. state[t] \in store[t]..source[t]
  BY <1>3, <1>4
<1>8. Promise!Advance(t, state[t])
  BY <1>1, <1>6, <1>7 DEF Promise!Advance
<1> QED  BY <1>4, <1>8 DEF Promise!Next

(* Every step of run(), of its workers and of the source is a step of        *)
(* AtLeastOnce or leaves its variables alone.                                *)
LEMMA StepSimulation ==
    ASSUME TypeOK, PipelineInv, [Next]_vars, \A s \in Streams : ~Replaces(s)
    PROVE  [Promise!Next]_(Promise!vars)
<1>1. ASSUME NEW t \in Streams, Commit(t) \/ CommitAckLost(t)
      PROVE  Promise!Next
  BY <1>1, LandStep DEF Commit, CommitAckLost, env, Committing
<1>2. ASSUME NEW t \in Streams, SetState(t)
      PROVE  Promise!Next
  BY <1>2, AdvanceStep
<1>3. ASSUME NEW t \in Streams, SourceGrows(t)
      PROVE  Promise!Next
  BY <1>3 DEF SourceGrows, runVars, Promise!Grow, Promise!Next
<1>4. ASSUME NEW t \in Streams, NEW rows \in Undone(t), target' = [target EXCEPT ![t] = rows]
      PROVE  target' = target
  BY <1>4, Undoes DEF TypeOK, RunTypeOK
<1>5. ASSUME (\E t \in Streams : CommitFails(t)) \/ Crash
      PROVE  UNCHANGED <<source, target, store>>
  <2>1. UnderWay \subseteq Streams
    <3>1. todo # <<>> => Head(todo) \in Streams
      BY ListTypes DEF TypeOK, RunTypeOK
    <3> QED  BY <3>1 DEF UnderWay
  <2> QED  BY <1>4, <1>5, <2>1 DEF CommitFails, Crash, env
<1>6. \/ \E t \in Streams : Commit(t) \/ CommitAckLost(t) \/ SetState(t) \/ SourceGrows(t)
      \/ (\E t \in Streams : CommitFails(t)) \/ Crash
      \/ UNCHANGED <<source, target, store>>
  BY DEF Next, BeginRun, StartFails, MainThread, PrepareStream, PrepareFails,
     SchemaClash, NothingReady, EnterPipe, Extract, Iterate, GetRows, GetSentinel,
     IterEnd, WriteChunk, WriteFails, ExtractDone, CommitLoop, SkipErrored,
     SetFails, CommitsDone, Extraction, Worker, PickUp,
     GetState, OpenRead, PutChunk, Exhaust, PutTail, PutDone, Raise, PutError,
     Stop, vars, env, runVars
<1> QED  BY <1>1, <1>2, <1>3, <1>5, <1>6 DEF Promise!vars

(* A pipeline that replaces no table keeps the promise of AtLeastOnce,       *)
(* whatever fails in it.                                                     *)
THEOREM Refinement ==
    ASSUME \A s \in Streams : ~Replaces(s)
    PROVE  Spec => ImplementsAtLeastOnce
<1>1. Init => Promise!Init
  BY DEF Init, Promise!Init, Zero, Nothing, RowIds
<1>2. TypeOK /\ PipelineInv /\ [Next]_vars => [Promise!Next]_(Promise!vars)
  BY StepSimulation
<1> QED  BY <1>1, <1>2, TypeCorrect, PipelineInvariant, PTL
         DEF Spec, ImplementsAtLeastOnce, Promise!Spec

-----------------------------------------------------------------------------
(* How run() ends.                                                           *)

(* The members of a list are its first entry and those of the rest.          *)
LEMMA FirstAndRest ==
    ASSUME NEW list \in Seq(Streams), list # <<>>
    PROVE  Elems(list) = {Head(list)} \union Elems(Tail(list))
<1>1. /\ Len(list) \in Nat /\ Len(list) >= 1 /\ Head(list) = list[1]
      /\ Len(Tail(list)) = Len(list) - 1
      /\ \A i \in 1..Len(Tail(list)) : Tail(list)[i] = list[i + 1]
  BY HeadTailProperties
<1>2. \A i \in 1..Len(list) : i = 1 \/ i - 1 \in 1..Len(Tail(list))
  BY <1>1
<1>3. \A i \in 1..Len(Tail(list)) : i + 1 \in 1..Len(list)
  BY <1>1
<1>4. 1 \in 1..Len(list)
  BY <1>1
<1>5. ASSUME NEW i \in 1..Len(list)
      PROVE  list[i] \in {Head(list)} \union Elems(Tail(list))
  <2>1. CASE i = 1
    BY <1>1, <2>1
  <2>2. CASE i - 1 \in 1..Len(Tail(list))
    <3>1. Tail(list)[i - 1] = list[i]
      BY <1>1, <2>2
    <3> QED  BY <2>2, <3>1 DEF Elems
  <2> QED  BY <1>2, <2>1, <2>2
<1>6. Elems(list) \subseteq {Head(list)} \union Elems(Tail(list))
  BY <1>5 DEF Elems
<1>7. Head(list) \in Elems(list)
  BY <1>1, <1>4 DEF Elems
<1>8. Elems(Tail(list)) \subseteq Elems(list)
  BY <1>1, <1>3 DEF Elems
<1> QED  BY <1>6, <1>7, <1>8

(* And those of a longer list.                                               *)
LEMMA AppendedElems ==
    ASSUME NEW list \in Seq(Streams), NEW s \in Streams
    PROVE  Elems(Append(list, s)) = Elems(list) \union {s}
<1>1. /\ Len(Append(list, s)) = Len(list) + 1 /\ Len(list) \in Nat
      /\ \A i \in 1..Len(list) : Append(list, s)[i] = list[i]
      /\ Append(list, s)[Len(list) + 1] = s
  OBVIOUS
<1>2. \A i \in 1..Len(Append(list, s)) : i \in 1..Len(list) \/ i = Len(list) + 1
  BY <1>1
<1>3. /\ \A i \in 1..Len(list) : i \in 1..Len(Append(list, s))
      /\ Len(list) + 1 \in 1..Len(Append(list, s))
  BY <1>1
<1> QED  BY <1>1, <1>2, <1>3 DEF Elems

(* An empty list names no stream, and any other one does.                    *)
LEMMA NoElems ==
    /\ Elems(<<>>) = {}
    /\ \A list \in Seq(Streams) : list # <<>> => Elems(list) # {}
<1>1. Elems(<<>>) = {}
  BY DEF Elems
<1>2. \A list \in Seq(Streams) : list # <<>> => Elems(list) # {}
  BY FirstAndRest
<1> QED  BY <1>1, <1>2

(* Steps before the iterator.                                                *)
LEMMA AttemptPrepare ==
    ASSUME TypeOK, AttemptInv, PrepareStream \/ PrepareFails \/ NothingReady \/ EnterPipe
    PROVE  AttemptInv'
<1>1. /\ phase = "prepare" /\ todo \in Seq(Streams) /\ ready \in Seq(Streams)
      /\ outcome = "running" /\ failed = faulty /\ requested # {} /\ requested' = requested
      /\ requested \subseteq Elems(todo) \union Elems(ready) \union failed
  BY DEF PrepareStream, PrepareFails, NothingReady, EnterPipe, AttemptInv, TypeOK, RunTypeOK
<1>2. Elems(todo)' = Elems(todo') /\ Elems(ready)' = Elems(ready')
  BY DEF Elems
<1>3. todo # <<>> => Elems(todo) = {Head(todo)} \union Elems(Tail(todo)) /\ Head(todo) \in Streams
  BY <1>1, FirstAndRest, ListTypes
<1>4. CASE PrepareStream
  <2>1. /\ phase' = "prepare" /\ todo' = Tail(todo) /\ ready' = Append(ready, Head(todo))
        /\ todo # <<>> /\ UNCHANGED <<outcome, failed, faulty>>
    BY <1>4 DEF PrepareStream
  <2>2. Elems(ready') = Elems(ready) \union {Head(todo)}
    BY <1>1, <1>3, <2>1, AppendedElems
  <2>3. requested' \subseteq Elems(todo)' \union Elems(ready)' \union failed'
    BY <1>1, <1>2, <1>3, <2>1, <2>2
  <2> QED  BY <1>1, <2>1, <2>3 DEF AttemptInv, Over, FailuresReported
<1>5. CASE PrepareFails
  <2>1. /\ phase' = "prepare" /\ todo' = Tail(todo) /\ ready' = ready
        /\ failed' = failed \union {Head(todo)} /\ faulty' = faulty \union {Head(todo)}
        /\ todo # <<>> /\ UNCHANGED outcome
    BY <1>5 DEF PrepareFails
  <2>2. requested' \subseteq Elems(todo)' \union Elems(ready)' \union failed'
    BY <1>1, <1>2, <1>3, <2>1
  <2> QED  BY <1>1, <2>1, <2>2 DEF AttemptInv, Over, FailuresReported
<1>6. CASE NothingReady
  <2>1. /\ phase' = "idle" /\ outcome' = "errors" /\ todo = <<>> /\ ready = <<>>
        /\ UNCHANGED <<failed, faulty, persisted>>
    BY <1>6 DEF NothingReady
  <2>2. requested \subseteq failed
    BY <1>1, <2>1, NoElems
  <2> QED  BY <1>1, <2>1, <2>2 DEF AttemptInv, Over, FailuresReported
<1>7. CASE EnterPipe
  <2>1. /\ phase' = "extract" /\ todo = <<>> /\ ready' = ready
        /\ UNCHANGED <<failed, faulty, outcome>>
    BY <1>7 DEF EnterPipe
  <2>2. requested' \subseteq Elems(ready)' \union failed'
    BY <1>1, <1>2, <2>1, NoElems
  <2> QED  BY <1>1, <2>1, <2>2 DEF AttemptInv, Over, FailuresReported
<1> QED  BY <1>4, <1>5, <1>6, <1>7

(* Steps of the commit loop.                                                 *)
LEMMA AttemptCommit ==
    ASSUME TypeOK, AttemptInv, CommitLoop
    PROVE  AttemptInv'
<1>1. /\ phase \in {"commit", "persist"} /\ todo \in Seq(Streams)
      /\ outcome = "running" /\ failed = faulty /\ requested # {} /\ requested' = requested
      /\ requested \subseteq Elems(todo) \union persisted \union failed
  <2>1. phase \in {"commit", "persist"} /\ requested' = requested
    BY DEF CommitLoop, SkipErrored, Commit, CommitFails, CommitAckLost, SetState, SetFails,
           CommitsDone, Committing, Persisting
  <2> QED  BY <2>1 DEF AttemptInv, TypeOK, RunTypeOK
<1>2. Elems(todo)' = Elems(todo')
  BY DEF Elems
<1>3. todo # <<>> => Elems(todo) = {Head(todo)} \union Elems(Tail(todo))
  BY <1>1, FirstAndRest
<1>4. CASE CommitsDone
  <2>1. /\ phase' = "idle" /\ todo = <<>> /\ UNCHANGED <<failed, faulty, persisted>>
        /\ outcome' = IF failed = {} THEN "ok" ELSE "errors"
    BY <1>4 DEF CommitsDone
  <2>2. requested \subseteq persisted \union faulty
    BY <1>1, <2>1, NoElems
  <2> QED  BY <1>1, <2>1, <2>2 DEF AttemptInv, Over, FailuresReported
<1>5. ASSUME phase' \in {"commit", "persist"}, outcome' = "running", failed' = faulty',
             requested' \subseteq Elems(todo') \union persisted' \union failed'
      PROVE  AttemptInv'
  BY <1>1, <1>2, <1>5 DEF AttemptInv, Over, FailuresReported
<1>6. CASE SkipErrored
  <2>1. /\ phase' = "commit" /\ todo # <<>> /\ Head(todo) \in failed /\ todo' = Tail(todo)
        /\ UNCHANGED <<failed, faulty, persisted, outcome>>
    BY <1>6 DEF SkipErrored
  <2>2. requested' \subseteq Elems(todo') \union persisted' \union failed'
    BY <1>1, <1>3, <2>1
  <2> QED  BY <1>1, <1>5, <2>1, <2>2
<1>7. ASSUME NEW s \in Streams, Commit(s)  PROVE  AttemptInv'
  BY <1>1, <1>5, <1>7 DEF Commit
<1>8. ASSUME NEW s \in Streams, CommitFails(s) \/ CommitAckLost(s) \/ SetFails(s)
      PROVE  AttemptInv'
  <2>1. /\ phase' = "commit" /\ todo # <<>> /\ Head(todo) = s /\ todo' = Tail(todo)
        /\ failed' = failed \union {s} /\ faulty' = faulty \union {s}
        /\ UNCHANGED <<persisted, outcome>>
    BY <1>8 DEF CommitFails, CommitAckLost, SetFails, Committing, Persisting, CollectError,
                AfterError
  <2>2. requested' \subseteq Elems(todo') \union persisted' \union failed'
    BY <1>1, <1>3, <2>1
  <2> QED  BY <1>1, <1>5, <2>1, <2>2
<1>9. ASSUME NEW s \in Streams, SetState(s)  PROVE  AttemptInv'
  <2>1. /\ phase' = "commit" /\ todo # <<>> /\ Head(todo) = s /\ todo' = Tail(todo)
        /\ persisted' = persisted \union {s} /\ UNCHANGED <<failed, faulty, outcome>>
    BY <1>9 DEF SetState, Persisting
  <2>2. requested' \subseteq Elems(todo') \union persisted' \union failed'
    BY <1>1, <1>3, <2>1
  <2> QED  BY <1>1, <1>5, <2>1, <2>2
<1> QED  BY <1>4, <1>6, <1>7, <1>8, <1>9 DEF CommitLoop

(* The list of a run is worked off stream by stream.                         *)
LEMMA AttemptStep ==
    ASSUME TypeOK, AttemptInv, [Next]_vars
    PROVE  AttemptInv'
<1>1. ASSUME NEW list \in Requests, NEW f, BeginRun(list, f)  PROVE  AttemptInv'
  <2>1. /\ requested' = Elems(list) /\ todo' = list /\ failed' = {} /\ faulty' = {}
        /\ list = <<>> => phase' = "idle" /\ outcome' = "ok"
        /\ list # <<>> => phase' = "prepare" /\ outcome' = "running"
    BY <1>1 DEF BeginRun
  <2>2. list = <<>> => requested' = {}
    BY <2>1, NoElems
  <2>3. list # <<>> => requested' # {}
    BY <2>1, NoElems, RequestsAssumption
  <2>4. Elems(todo)' = requested'
    BY <2>1 DEF Elems
  <2> QED  BY <2>1, <2>2, <2>3, <2>4 DEF AttemptInv, Over, FailuresReported
<1>2. CASE \/ \E list \in Requests : StartFails(list)
           \/ SchemaClash \/ WriteFails \/ Crash
  <2>1. phase' = "idle" /\ outcome' \in {"aborted", "crashed"}
    BY <1>2 DEF StartFails, SchemaClash, WriteFails, Crash
  <2> QED  BY <2>1 DEF AttemptInv, Over, FailuresReported
<1>3. CASE PrepareStream \/ PrepareFails \/ NothingReady \/ EnterPipe
  BY <1>3, AttemptPrepare
<1>4. CASE \/ Extract \/ WriteChunk \/ UNCHANGED vars
           \/ \E s \in Streams : Extraction(s) \/ SourceGrows(s)
  <2>1. UNCHANGED <<phase, requested, todo, ready, failed, outcome, faulty, persisted>>
    BY <1>4 DEF Extract, WriteChunk, Extraction, SourceGrows, vars, runVars
  <2> QED  BY <2>1 DEF AttemptInv, Over, FailuresReported, Elems
<1>5. CASE ExtractDone
  <2>1. /\ phase = "extract" /\ phase' = "commit" /\ todo' = ready
        /\ failed' = failed \union errors /\ faulty' = faulty \union errors
        /\ UNCHANGED <<requested, outcome, persisted>>
    BY <1>5 DEF ExtractDone, RolledBack
  <2>2. Elems(todo)' = Elems(ready)
    BY <2>1 DEF Elems
  <2> QED  BY <2>1, <2>2 DEF AttemptInv, Over, FailuresReported
<1>6. CASE CommitLoop
  BY <1>6, AttemptCommit
<1> QED  BY <1>1, <1>2, <1>3, <1>4, <1>5, <1>6 DEF Next, MainThread, Stop

(* Steps before the iterator.                                                *)
LEMMA OpenPrepare ==
    ASSUME TypeOK, RunInv, OpenInv,
           PrepareStream \/ PrepareFails \/ SchemaClash \/ NothingReady \/ EnterPipe
    PROVE  OpenInv'
<1>1. /\ phase = "prepare" /\ todo \in Seq(Streams) /\ ready \in Seq(Streams)
      /\ failed \intersect (Elems(todo) \union Elems(ready)) = {}
      /\ Distinct(todo) /\ Elems(todo) \intersect Elems(ready) = {}
  BY DEF PrepareStream, PrepareFails, SchemaClash, NothingReady, EnterPipe, OpenInv, TypeOK,
         RunTypeOK, RunInv, PrepareInv
<1>2. Elems(todo)' = Elems(todo') /\ Elems(ready)' = Elems(ready')
  BY DEF Elems
<1>3. todo # <<>> =>
          /\ Elems(todo) = {Head(todo)} \union Elems(Tail(todo)) /\ Head(todo) \in Streams
          /\ Head(todo) \notin Elems(Tail(todo))
  BY <1>1, FirstAndRest, Rest
<1>4. /\ Holding = Elems(ready) /\ Uses \in Nat
      /\ \A s \in Streams : /\ connections[s] = spoiled[s] + IF s \in Elems(ready) THEN Uses ELSE 0
                            /\ spoiled[s] \in Nat /\ connections[s] \in Int
  BY <1>1 DEF Holding, Uses, OpenInv, TypeOK, RunTypeOK
<1>5. CASE PrepareStream
  <2>1. /\ phase' = "prepare" /\ todo' = Tail(todo) /\ ready' = Append(ready, Head(todo))
        /\ todo # <<>> /\ failed' = failed /\ spoiled' = spoiled
        /\ connections' = Opened({Head(todo)})
    BY <1>5 DEF PrepareStream
  <2>2. Elems(ready') = Elems(ready) \union {Head(todo)} /\ Holding' = Elems(ready)'
    BY <1>1, <1>3, <2>1, AppendedElems DEF Holding
  <2>3. failed' \intersect (Elems(todo)' \union Elems(ready)') = {}
    BY <1>1, <1>2, <1>3, <2>1, <2>2
  <2>4. ASSUME NEW s \in Streams
        PROVE  connections'[s] = spoiled'[s] + IF s \in Holding' THEN Uses ELSE 0
    <3>1. connections'[s] = IF s = Head(todo) THEN connections[s] + Uses ELSE connections[s]
      BY <2>1 DEF Opened, Plus
    <3>2. Head(todo) \notin Elems(ready)
      BY <1>1, <1>3, <2>1
    <3> QED  BY <1>2, <1>4, <2>1, <2>2, <3>1, <3>2
  <2> QED  BY <2>1, <2>3, <2>4 DEF OpenInv, Uses
<1>6. CASE PrepareFails
  <2>1. /\ phase' = "prepare" /\ todo' = Tail(todo) /\ ready' = ready
        /\ failed' = failed \union {Head(todo)} /\ todo # <<>>
        /\ \/ UNCHANGED <<connections, spoiled>>
           \/ connections' = Opened({Head(todo)}) /\ spoiled' = Plus(spoiled, {Head(todo)})
    BY <1>6 DEF PrepareFails
  <2>2. failed' \intersect (Elems(todo)' \union Elems(ready)') = {}
    BY <1>1, <1>2, <1>3, <2>1
  <2>3. Holding' = Elems(ready)
    BY <1>2, <2>1 DEF Holding
  <2>4. ASSUME NEW s \in Streams
        PROVE  connections'[s] = spoiled'[s] + IF s \in Holding' THEN Uses ELSE 0
    BY <1>4, <2>1, <2>3 DEF Opened, Plus
  <2> QED  BY <2>1, <2>2, <2>4 DEF OpenInv, Uses
<1>7. CASE SchemaClash
  <2>1. phase' = "idle" /\ connections' = connections /\ spoiled' = Plus(spoiled, Elems(ready))
    BY <1>7 DEF SchemaClash
  <2>2. Holding' = {}
    BY <2>1 DEF Holding
  <2>3. \A s \in Streams : connections'[s] = spoiled'[s] + 0
    BY <1>4, <2>1 DEF Plus
  <2> QED  BY <2>1, <2>2, <2>3 DEF OpenInv
<1>8. CASE NothingReady
  <2>1. phase' = "idle" /\ ready = <<>> /\ UNCHANGED <<connections, spoiled>>
    BY <1>8 DEF NothingReady
  <2>2. Holding' = {} /\ Elems(ready) = {}
    BY <2>1, NoElems DEF Holding
  <2> QED  BY <1>4, <2>1, <2>2 DEF OpenInv
<1>9. CASE EnterPipe
  <2>1. phase' = "extract" /\ ready' = ready /\ failed' = failed
        /\ UNCHANGED <<connections, spoiled>>
    BY <1>9 DEF EnterPipe
  <2>2. Holding' = Elems(ready)
    BY <1>2, <2>1 DEF Holding
  <2> QED  BY <1>1, <1>2, <1>4, <2>1, <2>2 DEF OpenInv, Uses
<1> QED  BY <1>5, <1>6, <1>7, <1>8, <1>9

(* Steps of the commit loop.                                                 *)
LEMMA OpenCommit ==
    ASSUME TypeOK, RunInv, OpenInv, CommitLoop
    PROVE  OpenInv'
<1>1. /\ phase \in {"commit", "persist"} /\ todo \in Seq(Streams) /\ Distinct(todo)
      /\ \A s \in Elems(Waiting) \ failed : s \in open
  <2>1. phase \in {"commit", "persist"}
    BY DEF CommitLoop, SkipErrored, Commit, CommitFails, CommitAckLost, SetState, SetFails,
           CommitsDone, Committing, Persisting
  <2> QED  BY <2>1 DEF OpenInv, TypeOK, RunTypeOK, RunInv, CommitInv, Holds
<1>2. todo # <<>> =>
          /\ Elems(todo) = {Head(todo)} \union Elems(Tail(todo))
          /\ Head(todo) \notin Elems(Tail(todo))
  BY <1>1, FirstAndRest, Rest
<1>3. /\ Uses \in Nat /\ Uses' = Uses /\ Holding = Elems(Waiting) \ failed
      /\ \A s \in Streams : /\ connections[s] = spoiled[s] + IF s \in Holding THEN Uses ELSE 0
                            /\ spoiled[s] \in Nat /\ connections[s] \in Int
  BY <1>1 DEF Holding, Uses, OpenInv, TypeOK, RunTypeOK
<1>4. ASSUME phase' \in {"commit", "persist"}, Waiting' = Tail(todo), spoiled' = spoiled,
             \A s \in Streams : connections'[s] = spoiled[s] +
                 IF s \in Elems(Tail(todo)) \ failed' THEN Uses ELSE 0
      PROVE  OpenInv'
  <2>1. Elems(Waiting)' = Elems(Tail(todo))
    BY <1>4 DEF Elems
  <2>2. Holding' = Elems(Tail(todo)) \ failed'
    BY <1>4, <2>1 DEF Holding
  <2> QED  BY <1>3, <1>4, <2>2 DEF OpenInv
<1>5. CASE SkipErrored
  <2>1. /\ phase = "commit" /\ phase' = "commit" /\ todo # <<>> /\ Head(todo) \in failed
        /\ todo' = Tail(todo) /\ UNCHANGED <<failed, connections, spoiled>>
    BY <1>5 DEF SkipErrored
  <2>2. Waiting' = Tail(todo) /\ Waiting = todo
    BY <2>1 DEF Waiting
  <2>3. Holding = Elems(Tail(todo)) \ failed'
    BY <1>2, <1>3, <2>1, <2>2
  <2> QED  BY <1>3, <1>4, <2>1, <2>2, <2>3
<1>6. ASSUME NEW t \in Streams, Commit(t) \/ CommitFails(t) \/ CommitAckLost(t)
      PROVE  OpenInv'
  <2>1. /\ phase = "commit" /\ phase' \in {"commit", "persist"} /\ spoiled' = spoiled
        /\ todo # <<>> /\ Head(todo) = t /\ t \notin failed /\ connections' = Closed({t})
        /\ todo' = IF phase' = "commit" THEN Tail(todo) ELSE todo
        /\ failed \subseteq failed' /\ failed' \subseteq failed \union {t}
    BY <1>6 DEF Commit, CommitFails, CommitAckLost, Committing, CollectError, AfterError,
                DropBuffer
  <2>2. Waiting' = Tail(todo) /\ Waiting = todo
    BY <2>1 DEF Waiting
  <2>3. /\ t \in Holding /\ t \in open
        /\ Elems(Tail(todo)) \ failed' = Holding \ {t}
    BY <1>1, <1>2, <1>3, <2>1, <2>2
  <2>4. \A s \in Streams : connections'[s] = IF s = t THEN connections[s] - Uses
                                             ELSE connections[s]
    BY <2>1, <2>3 DEF Closed
  <2>5. \A s \in Streams : connections'[s] = spoiled[s] +
            IF s \in Elems(Tail(todo)) \ failed' THEN Uses ELSE 0
    BY <1>3, <2>3, <2>4
  <2> QED  BY <1>4, <2>1, <2>2, <2>5
<1>7. ASSUME NEW t \in Streams, SetState(t) \/ SetFails(t)
      PROVE  OpenInv'
  <2>1. /\ phase = "persist" /\ phase' = "commit" /\ todo # <<>> /\ Head(todo) = t
        /\ todo' = Tail(todo) /\ UNCHANGED <<connections, spoiled>>
        /\ failed \subseteq failed' /\ failed' \subseteq failed \union {t}
    BY <1>7 DEF SetState, SetFails, Persisting, CollectError, AfterError
  <2>2. Waiting' = Tail(todo) /\ Waiting = Tail(todo)
    BY <2>1 DEF Waiting
  <2>3. Holding = Elems(Tail(todo)) \ failed'
    BY <1>2, <1>3, <2>1, <2>2
  <2> QED  BY <1>3, <1>4, <2>1, <2>2, <2>3
<1>8. CASE CommitsDone
  <2>1. phase = "commit" /\ todo = <<>> /\ phase' = "idle" /\ UNCHANGED <<connections, spoiled>>
    BY <1>8 DEF CommitsDone
  <2>2. Holding = {} /\ Holding' = {}
    BY <1>3, <2>1, NoElems DEF Holding, Waiting
  <2> QED  BY <1>3, <2>1, <2>2 DEF OpenInv
<1> QED  BY <1>5, <1>6, <1>7, <1>8 DEF CommitLoop

(* The chunk loop ends by closing what it rolls back.                        *)
LEMMA OpenExtract ==
    ASSUME TypeOK, PipelineInv, OpenInv, WriteFails \/ ExtractDone
    PROVE  OpenInv'
<1>1. /\ phase = "extract" /\ failed \intersect Elems(ready) = {}
      /\ Elems(ready) \subseteq open /\ streams = ready
  BY DEF WriteFails, ExtractDone, OpenInv, PipelineInv, RunInv, ExtractInv, Holds
<1>2. /\ Uses \in Nat /\ Uses' = Uses /\ Holding = Elems(ready)
      /\ \A s \in Streams : /\ connections[s] = spoiled[s] + IF s \in Elems(ready) THEN Uses ELSE 0
                            /\ spoiled[s] \in Nat /\ connections[s] \in Int
  BY <1>1 DEF Holding, Uses, OpenInv, TypeOK, RunTypeOK
<1>3. CASE WriteFails
  <2>1. phase' = "idle" /\ spoiled' = spoiled /\ connections' = Closed(Elems(ready))
    BY <1>3 DEF WriteFails
  <2>2. Holding' = {}
    BY <2>1 DEF Holding
  <2>3. \A s \in Streams : connections'[s] = spoiled'[s] + 0
    BY <1>1, <1>2, <2>1 DEF Closed
  <2> QED  BY <2>1, <2>2, <2>3 DEF OpenInv
<1>4. CASE ExtractDone
  <2>1. /\ phase' = "commit" /\ todo' = ready /\ spoiled' = spoiled
        /\ failed' = failed \union errors /\ connections' = Closed(errors) /\ IterOver
    BY <1>4 DEF ExtractDone, RolledBack
  <2>2. errors \subseteq Elems(ready)
    <3>1. ErrorsAreTheFailures
      BY <2>1, AtTheEnd DEF TypeOK, PipelineInv
    <3> QED  BY <1>1, <2>1, <3>1 DEF ErrorsAreTheFailures
  <2>3. Elems(Waiting)' = Elems(ready)
    BY <2>1 DEF Elems, Waiting
  <2>4. Holding' = Elems(ready) \ errors
    BY <1>1, <2>1, <2>3 DEF Holding
  <2>5. \A s \in Streams : connections'[s] = IF s \in errors THEN connections[s] - Uses
                                             ELSE connections[s]
    BY <1>1, <2>1, <2>2 DEF Closed
  <2>6. \A s \in Streams : connections'[s] = spoiled'[s] + IF s \in Holding' THEN Uses' ELSE 0
    BY <1>2, <2>1, <2>2, <2>4, <2>5
  <2> QED  BY <2>1, <2>6 DEF OpenInv
<1> QED  BY <1>3, <1>4

(* Connections belong to streams that wait for their commit, but for the     *)
(* abandoned ones.                                                           *)
LEMMA OpenStep ==
    ASSUME TypeOK, PipelineInv, OpenInv, [Next]_vars
    PROVE  OpenInv'
<1>0. RunInv
  BY DEF PipelineInv
<1>1. ASSUME NEW list \in Requests, NEW f, BeginRun(list, f)  PROVE  OpenInv'
  <2>1. /\ phase = "idle" /\ failed' = {} /\ ready' = <<>>
        /\ phase' \in {"idle", "prepare"} /\ UNCHANGED <<connections, spoiled>>
    BY <1>1 DEF BeginRun
  <2>2. Elems(ready)' = {}
    BY <2>1 DEF Elems
  <2>3. Holding = {} /\ Holding' = {}
    BY <2>1, <2>2 DEF Holding
  <2> QED  BY <2>1, <2>3 DEF OpenInv
<1>2. CASE \E list \in Requests : StartFails(list)
  <2>1. phase = "idle" /\ phase' = phase /\ UNCHANGED <<connections, spoiled>>
    BY <1>2 DEF StartFails
  <2>2. Holding = {} /\ Holding' = {}
    BY <2>1 DEF Holding
  <2> QED  BY <2>1, <2>2 DEF OpenInv
<1>3. CASE PrepareStream \/ PrepareFails \/ SchemaClash \/ NothingReady \/ EnterPipe
  BY <1>0, <1>3, OpenPrepare
<1>4. CASE \/ Extract \/ WriteChunk \/ UNCHANGED vars
           \/ \E s \in Streams : Extraction(s) \/ SourceGrows(s)
  <2>1. UNCHANGED <<phase, todo, ready, failed, connections, spoiled>>
    BY <1>4 DEF Extract, WriteChunk, Extraction, SourceGrows, vars, runVars
  <2>2. Waiting' = Waiting
    BY <2>1 DEF Waiting
  <2>3. Elems(Waiting)' = Elems(Waiting) /\ Elems(todo)' = Elems(todo)
        /\ Elems(ready)' = Elems(ready)
    BY <2>1, <2>2 DEF Elems
  <2>4. Holding' = Holding
    BY <2>1, <2>3 DEF Holding
  <2> QED  BY <2>1, <2>3, <2>4 DEF OpenInv, Uses
<1>5. CASE WriteFails \/ ExtractDone
  BY <1>5, OpenExtract
<1>6. CASE CommitLoop
  BY <1>0, <1>6, OpenCommit
<1>7. CASE Crash
  <2>1. phase' = "idle" /\ connections' = Zero /\ spoiled' = Zero
    BY <1>7 DEF Crash
  <2>2. Holding' = {}
    BY <2>1 DEF Holding
  <2>3. \A s \in Streams : connections'[s] = spoiled'[s] + 0
    BY <2>1 DEF Zero
  <2> QED  BY <2>1, <2>2, <2>3 DEF OpenInv
<1> QED  BY <1>1, <1>2, <1>3, <1>4, <1>5, <1>6, <1>7 DEF Next, MainThread, Stop

(* What lands when a stream is replaced in place.                            *)
LEMMA LandsBatch ==
    ASSUME TypeOK, PipelineInv, phase = "commit", todo # <<>>, Head(todo) \notin failed,
           NEW t \in Streams, t = Head(todo), InPlace(t), NEW r \in RowIds
    PROVE  Landed(t)[r] = IF Base(t) < r /\ r <= state[t] THEN 1 ELSE 0
<1>1. Holds(t, state[t])
  BY AtHead
<1>2. ~Adds(t) /\ Replaces(t)
  BY DEF InPlace, Adds, Replaces
<1>3. Landed(t)[r] = buffer[t][r]
  BY <1>2 DEF Landed, Replaced
<1> QED  BY <1>1, <1>3 DEF Holds

(* Nothing touches the table of a stream between SetState and the next run.  *)
LEMMA ReplaceStep ==
    ASSUME TypeOK, PipelineInv, ReplaceInv, [Next]_vars
    PROVE  ReplaceInv'
<1>0. /\ todo \in Seq(Streams) /\ persisted \subseteq Streams
      /\ target \in [Streams -> [RowIds -> Nat]] /\ from \in [Streams -> 0..MaxRows]
      /\ store \in [Streams -> 0..MaxRows]
  BY DEF TypeOK, IterTypeOK, RunTypeOK
<1>1. ASSUME persisted' \subseteq persisted, full' = full,
             \A s \in persisted : UNCHANGED <<store[s], from[s], target[s]>>
      PROVE  ReplacedHoldsBatch'
  BY <1>1 DEF ReplaceInv, ReplacedHoldsBatch, HoldsBatch
<1>2. phase \in {"commit", "persist"} /\ todo # <<>> =>
          /\ Elems(todo) = {Head(todo)} \union Elems(Tail(todo)) /\ Head(todo) \in Streams
          /\ Head(todo) \notin Elems(Tail(todo)) /\ Head(todo) \notin persisted
          /\ Elems(Tail(todo)) \intersect persisted = {}
  <2> SUFFICES ASSUME phase \in {"commit", "persist"}, todo # <<>>
               PROVE  /\ Elems(todo) = {Head(todo)} \union Elems(Tail(todo)) /\ Head(todo) \in Streams
                      /\ Head(todo) \notin Elems(Tail(todo)) /\ Head(todo) \notin persisted
                      /\ Elems(Tail(todo)) \intersect persisted = {}
    OBVIOUS
  <2>1. Distinct(todo)
    BY DEF PipelineInv, RunInv, CommitInv
  <2>2. Elems(todo) = {Head(todo)} \union Elems(Tail(todo))
    BY <1>0, FirstAndRest
  <2>3. Head(todo) \in Streams /\ Head(todo) \notin Elems(Tail(todo))
    BY <1>0, <2>1, Rest
  <2>4. Elems(todo) \intersect persisted = {}
    BY DEF ReplaceInv
  <2> QED  BY <2>2, <2>3, <2>4
<1>3. Elems(todo)' = Elems(todo')
  BY DEF Elems
<1>4. CASE \/ \E list \in Requests, f \in FullRefresh : BeginRun(list, f)
           \/ \E list \in Requests : StartFails(list)
  <2>1. persisted' = {} /\ phase' \in {"idle", "prepare"}
    BY <1>4 DEF BeginRun, StartFails
  <2> QED  BY <2>1 DEF ReplaceInv, ReplacedHoldsBatch
<1>5. CASE PrepareStream \/ PrepareFails \/ SchemaClash \/ NothingReady \/ EnterPipe
           \/ Extract \/ WriteChunk \/ WriteFails \/ ExtractDone
  <2>1. /\ persisted = {} /\ persisted' = persisted /\ phase' # "persist"
    BY <1>5 DEF PrepareStream, PrepareFails, SchemaClash, NothingReady, EnterPipe,
       Extract, WriteChunk, WriteFails, ExtractDone, ReplaceInv, runVars
  <2> QED  BY <2>1 DEF ReplaceInv, ReplacedHoldsBatch
<1>6. CASE SkipErrored \/ CommitsDone \/ \E s \in Streams : SetFails(s)
  <2>1. /\ phase' \in {"idle", "commit"} /\ phase \in {"commit", "persist"}
        /\ UNCHANGED <<persisted, full, store, from, target>>
        /\ phase' = "commit" => todo # <<>> /\ todo' = Tail(todo)
    BY <1>6 DEF SkipErrored, CommitsDone, SetFails, Persisting, CollectError, AfterError, env
  <2>2. ReplacedHoldsBatch'
    BY <1>1, <2>1
  <2>3. phase' = "commit" => Elems(todo)' \intersect persisted' = {}
    BY <1>2, <1>3, <2>1
  <2> QED  BY <2>1, <2>2, <2>3 DEF ReplaceInv
<1>7. ASSUME NEW t \in Streams, CommitFails(t) \/ CommitAckLost(t)  PROVE  ReplaceInv'
  <2>1. /\ phase' = "commit" /\ phase = "commit" /\ todo # <<>> /\ Head(todo) = t
        /\ todo' = Tail(todo) /\ UNCHANGED <<persisted, full, store, from>>
        /\ \E rows : target' = [target EXCEPT ![t] = rows]
    BY <1>7 DEF CommitFails, CommitAckLost, Committing, CollectError, AfterError, env
  <2>2. \A s \in persisted : target'[s] = target[s]
    BY <1>0, <1>2, <2>1
  <2>3. ReplacedHoldsBatch'
    BY <1>1, <2>1, <2>2
  <2>4. Elems(todo)' \intersect persisted' = {}
    BY <1>2, <1>3, <2>1
  <2> QED  BY <2>1, <2>3, <2>4 DEF ReplaceInv
<1>8. ASSUME NEW t \in Streams, Commit(t)  PROVE  ReplaceInv'
  <2>1. /\ phase = "commit" /\ phase' = "persist" /\ todo # <<>> /\ Head(todo) = t
        /\ t \notin failed /\ todo' = todo /\ UNCHANGED <<persisted, full, store, state>>
        /\ target' = [target EXCEPT ![t] = Landed(t)]
        /\ from' = [from EXCEPT ![t] = Base(t)]
    BY <1>8 DEF Commit, Committing, env, iterVars
  <2>2. \A s \in persisted : UNCHANGED <<store[s], from[s], target[s]>>
    BY <1>0, <1>2, <2>1
  <2>3. ReplacedHoldsBatch'
    BY <1>1, <2>1, <2>2
  <2>4. Elems(todo)' \intersect persisted' = {}
    BY <1>3, <2>1 DEF ReplaceInv
  <2>5. target'[t] = Landed(t) /\ from'[t] = Base(t)
    BY <1>0, <2>1
  <2>6. InPlace(t) => HoldsBatch(t, state[t])'
    BY <2>1, <2>5, LandsBatch DEF HoldsBatch
  <2>7. full => from'[t] = 0
    BY <2>5 DEF Base
  <2> QED  BY <2>1, <2>3, <2>4, <2>6, <2>7 DEF ReplaceInv
<1>9. ASSUME NEW t \in Streams, SetState(t)  PROVE  ReplaceInv'
  <2>1. /\ phase = "persist" /\ phase' = "commit" /\ todo # <<>> /\ Head(todo) = t
        /\ todo' = Tail(todo) /\ UNCHANGED <<target, full, from>>
        /\ persisted' = persisted \union {t} /\ store' = [store EXCEPT ![t] = state[t]]
    BY <1>9 DEF SetState, Persisting, GetPipeState, PipelineInv, RunInv, PersistInv
  <2>2. store'[t] = state[t] /\ \A s \in Streams \ {t} : store'[s] = store[s]
    BY <1>0, <2>1
  <2>3. InPlace(t) => HoldsBatch(t, state[t]) /\ (full => from[t] = 0)
    BY <2>1 DEF ReplaceInv
  <2>4. ASSUME NEW s \in persisted', InPlace(s)
        PROVE  HoldsBatch(s, store[s])' /\ (full' => from'[s] = 0)
    <3>1. CASE s = t
      BY <2>1, <2>2, <2>3, <2>4, <3>1 DEF HoldsBatch
    <3>2. CASE s # t
      <4>1. s \in persisted /\ store'[s] = store[s]
        BY <1>0, <2>1, <2>2, <3>2
      <4> QED  BY <2>1, <2>4, <4>1 DEF HoldsBatch, ReplaceInv, ReplacedHoldsBatch
    <3> QED  BY <3>1, <3>2
  <2>5. ReplacedHoldsBatch'
    BY <2>4 DEF ReplacedHoldsBatch
  <2>6. Elems(todo)' \intersect persisted' = {}
    BY <1>2, <1>3, <2>1
  <2> QED  BY <2>1, <2>5, <2>6 DEF ReplaceInv
<1>10. CASE Crash
  <2>1. /\ phase' = "idle" /\ UNCHANGED <<persisted, full, store, from>>
        /\ \/ UNCHANGED target
           \/ \E s \in UnderWay : \E rows : target' = [target EXCEPT ![s] = rows]
    BY <1>10 DEF Crash, env
  <2>2. UnderWay \intersect persisted = {}
    BY <1>2 DEF UnderWay
  <2>3. \A s \in persisted : target'[s] = target[s]
    BY <1>0, <2>1, <2>2
  <2>4. ReplacedHoldsBatch'
    BY <1>1, <2>1, <2>3
  <2> QED  BY <2>1, <2>4 DEF ReplaceInv
<1>11. ASSUME NEW s \in Streams, Extraction(s)  PROVE  ReplaceInv'
  <2>1. phase \notin {"commit", "persist"}
    BY <1>11, WorkersOver DEF Extraction
  <2>2. UNCHANGED <<store, full, phase, target, from, persisted>>
    BY <1>11 DEF Extraction, runVars, Worker, PickUp, GetState, OpenRead, PutChunk, Exhaust,
                 PutTail, PutDone, Raise, PutError, env
  <2> QED  BY <1>1, <2>1, <2>2 DEF ReplaceInv
<1>12. CASE UNCHANGED vars \/ \E s \in Streams : SourceGrows(s)
  <2>1. UNCHANGED <<store, full, phase, todo, state, target, from, persisted>>
    BY <1>12 DEF vars, SourceGrows, env, iterVars, runVars
  <2> QED  BY <1>1, <1>3, <2>1 DEF ReplaceInv, HoldsBatch
<1> QED  BY <1>4, <1>5, <1>6, <1>7, <1>8, <1>9, <1>10, <1>11, <1>12
         DEF Next, MainThread, CommitLoop, Stop

(* run() accounts for each stream it was asked for: when it returns normally *)
(* or raises PipelineRunError, each one has its watermark stored or failed.  *)
THEOREM AttemptsCounted == Spec => []AttemptInv
<1>1. Init => AttemptInv
  BY DEF Init, AttemptInv, Over, FailuresReported
<1>2. TypeOK /\ AttemptInv /\ [Next]_vars => AttemptInv'
  BY AttemptStep
<1> QED  BY <1>1, <1>2, TypeCorrect, PTL DEF Spec

(* PipelineRunError names every stream that failed and no other.             *)
THEOREM FailuresAreReported == Spec => []FailuresReported
<1>1. AttemptInv => FailuresReported
  BY DEF AttemptInv
<1> QED  BY <1>1, AttemptsCounted, PTL

(* What goes wrong in a run is collected, and does not leave run() at once.  *)
Collected == Faults \intersect {"start", "clash", "write"} = {}

(* Every stream of a run is attempted whatever happens to the others, as far *)
(* as what goes wrong is collected: see the run that refutes the rest.       *)
THEOREM EachStreamAttempted ==
    ASSUME Collected
    PROVE  Spec => []ContinueOnStreamError
<1>1. Init => outcome # "aborted"
  BY DEF Init
<1>2. outcome # "aborted" /\ [Next]_vars => (outcome # "aborted")'
  <2> SUFFICES ASSUME outcome # "aborted", [Next]_vars  PROVE  outcome' # "aborted"
    OBVIOUS
  <2>1. /\ \A list \in Requests : ~StartFails(list)
        /\ ~SchemaClash /\ ~WriteFails
    BY DEF Collected, StartFails, SchemaClash, WriteFails
  <2>2. CASE \/ \E list \in Requests, f \in FullRefresh : BeginRun(list, f)
             \/ NothingReady \/ CommitsDone \/ Crash
    BY <2>2 DEF BeginRun, NothingReady, CommitsDone, Crash
  <2>3. CASE \/ PrepareStream \/ PrepareFails \/ EnterPipe \/ Extract \/ WriteChunk
             \/ ExtractDone \/ SkipErrored
             \/ \E s \in Streams : \/ Commit(s) \/ CommitFails(s) \/ CommitAckLost(s)
                                   \/ SetState(s) \/ SetFails(s) \/ Extraction(s)
                                   \/ SourceGrows(s)
             \/ UNCHANGED vars
    <3>1. outcome' = outcome
      BY <2>3 DEF PrepareStream, PrepareFails, EnterPipe, Extract, WriteChunk, ExtractDone,
         SkipErrored, Commit, CommitFails, CommitAckLost, SetState, SetFails, Extraction,
         SourceGrows, vars, runVars
    <3> QED  BY <3>1
  <2> QED  BY <2>1, <2>2, <2>3 DEF Next, MainThread, CommitLoop, Stop
<1>3. TypeOK /\ AttemptInv /\ outcome # "aborted" => ContinueOnStreamError
  <2> SUFFICES ASSUME TypeOK, AttemptInv, outcome # "aborted", Over
               PROVE  requested \subseteq persisted \union faulty
    BY DEF ContinueOnStreamError
  <2>1. outcome \in {"ok", "errors"}
    BY DEF AttemptInv, Over, TypeOK, RunTypeOK
  <2> QED  BY <2>1 DEF AttemptInv
<1> QED  BY <1>1, <1>2, <1>3, TypeCorrect, AttemptsCounted, PTL DEF Spec

(* When run() is over it holds no connection: what is left open was opened   *)
(* by a prepare_stream that raised, or before a schema clash.                *)
THEOREM ConnectionsAreReleased == Spec => []ConnectionsReleased
<1>1. Init => OpenInv
  BY DEF Init, OpenInv, Holding, Zero
<1>2. TypeOK /\ PipelineInv /\ OpenInv /\ [Next]_vars => OpenInv'
  BY OpenStep
<1>3. TypeOK /\ OpenInv => ConnectionsReleased
  <2> SUFFICES ASSUME TypeOK, OpenInv, phase = "idle"  PROVE connections = spoiled
    BY DEF ConnectionsReleased, Over
  <2>1. \A s \in Streams : connections[s] = spoiled[s] + 0 /\ spoiled[s] \in Nat
    BY DEF OpenInv, Holding, TypeOK, RunTypeOK
  <2>2. \A s \in Streams : connections[s] = spoiled[s]
    BY <2>1
  <2>3. connections \in [Streams -> Int] /\ spoiled \in [Streams -> Nat]
    BY DEF TypeOK, RunTypeOK
  <2> QED  BY <2>2, <2>3
<1> QED  BY <1>1, <1>2, <1>3, TypeCorrect, PipelineInvariant, PTL DEF Spec

(* Once run() has stored the watermark of a stream it replaces in place, the *)
(* table is what it has read, whatever failed before and besides.            *)
THEOREM ReplacedTablesHoldBatch == Spec => []ReplacedHoldsBatch
<1>1. Init => ReplaceInv
  BY DEF Init, ReplaceInv, ReplacedHoldsBatch
<1>2. TypeOK /\ PipelineInv /\ ReplaceInv /\ [Next]_vars => ReplaceInv'
  BY ReplaceStep
<1>3. ReplaceInv => ReplacedHoldsBatch
  BY DEF ReplaceInv
<1> QED  BY <1>1, <1>2, <1>3, TypeCorrect, PipelineInvariant, PTL DEF Spec
=============================================================================
