------------------------- MODULE PipeIteratorProofs -------------------------
(* Proofs about the iterator.  The step lemmas are stated for the actions    *)
(* alone, so that Pipeline, which composes them, can use them too.           *)
EXTENDS PipeIterator, FiniteSetTheorems, SequenceTheorems, TLAPS

USE SizesAssumption

-----------------------------------------------------------------------------
(* Types.                                                                    *)

(* The items workers put are items.                                          *)
LEMMA ItemTypes ==
    ASSUME NEW s \in Streams
    PROVE  /\ StreamDone(s) \in Items
           /\ StreamError(s) \in Items
           /\ \A a \in Nat, b \in 0..MaxRows : Rows(s, a, b) \in Items
BY DEF StreamDone, StreamError, Rows, Items

(* A fresh iterator is well typed.                                           *)
LEMMA EnterType ==
    ASSUME IterTypeOK, NEW list \in Seq(Streams), Enter(list), UNCHANGED env
    PROVE  IterTypeOK'
BY DEF IterTypeOK, Enter, Idle, Zero, Expected, Base, env

(* So are the states the main thread's steps on the iterator lead to.        *)
LEMMA MainTypes ==
    ASSUME IterTypeOK,
           Iterate \/ (Resume /\ UNCHANGED env) \/ (Close /\ UNCHANGED env)
    PROVE  IterTypeOK'
<1>1. CASE GetRows
  <2>1. Head(queue) \in Items /\ Tail(queue) \in Seq(Items)
    BY <1>1 DEF GetRows, IterTypeOK
  <2>2. Head(queue).stream \in Streams /\ Head(queue).last \in 0..MaxRows
    BY <2>1 DEF Items
  <2> QED  BY <1>1, <2>1, <2>2 DEF GetRows, IterTypeOK, env
<1>2. CASE GetSentinel
  <2>1. Head(queue) \in Items /\ Tail(queue) \in Seq(Items)
    BY <1>2 DEF GetSentinel, IterTypeOK
  <2>2. Head(queue).stream \in Streams
    BY <2>1 DEF Items
  <2> QED  BY <1>2, <2>1, <2>2, SMTT(20) DEF GetSentinel, IterTypeOK, env, Counted, Kept
<1>3. CASE IterEnd
  BY <1>3 DEF IterEnd, IterTypeOK, env
<1>4. CASE Resume /\ UNCHANGED env
  BY <1>4 DEF Resume, IterTypeOK, env
<1>5. CASE Close /\ UNCHANGED env
  BY <1>5 DEF Close, IterTypeOK, env, AfterShutdown
<1> QED  BY <1>1, <1>2, <1>3, <1>4, <1>5 DEF Iterate

(* And those a worker's steps lead to.                                       *)
LEMMA WorkerTypes ==
    ASSUME IterTypeOK, NEW s \in Streams, Worker(s)
    PROVE  IterTypeOK'
<1>1. CASE PickUp(s)
  <2>1. backlog' \in Seq(Streams)
    BY <1>1 DEF PickUp, IterTypeOK
  <2>2. wpc' = [wpc EXCEPT ![s] = "get"]
    BY <1>1 DEF PickUp
  <2> QED  BY <1>1, <2>1, <2>2 DEF PickUp, IterTypeOK, env
<1>2. CASE GetState(s)
  <2>1. Base(s) \in 0..MaxRows
    BY DEF Base, IterTypeOK
  <2>2. state' \in [Streams -> 0..MaxRows] /\ pos' \in [Streams -> 0..MaxRows]
    BY <1>2, <2>1 DEF GetState, IterTypeOK
  <2> QED  BY <1>2, <2>2 DEF GetState, IterTypeOK, env
<1>3. CASE OpenRead(s)
  BY <1>3 DEF OpenRead, IterTypeOK, env
<1>4. CASE PutChunk(s)
  <2>1. pos[s] + ChunkSize \in 0..MaxRows /\ pos[s] + 1 \in Nat
    BY <1>4, SMTT(20) DEF PutChunk, IterTypeOK
  <2>2. Rows(s, pos[s] + 1, pos[s] + ChunkSize) \in Items
    BY <2>1, ItemTypes
  <2>3. queue' \in Seq(Items)
    BY <1>4, <2>2 DEF PutChunk, IterTypeOK
  <2>4. pos' \in [Streams -> 0..MaxRows]
    BY <1>4, <2>1 DEF PutChunk, IterTypeOK
  <2> QED  BY <1>4, <2>3, <2>4 DEF PutChunk, IterTypeOK, env
<1>5. CASE Exhaust(s)
  BY <1>5 DEF Exhaust, IterTypeOK, env
<1>6. CASE PutTail(s)
  <2>1. pos[s] + 1 \in Nat /\ last[s] \in 0..MaxRows
    BY DEF IterTypeOK
  <2>2. TailOf(s) \in Items
    BY <2>1, ItemTypes DEF TailOf
  <2>3. queue' \in Seq(Items)
    BY <1>6, <2>2 DEF PutTail, IterTypeOK
  <2> QED  BY <1>6, <2>1, <2>3 DEF PutTail, IterTypeOK, env
<1>7. CASE PutDone(s)
  BY <1>7, ItemTypes, SMTT(20) DEF PutDone, IterTypeOK, env
<1>8. CASE Raise(s)
  BY <1>8 DEF Raise, IterTypeOK, env
<1>9. CASE PutError(s)
  BY <1>9, ItemTypes, SMTT(20) DEF PutError, IterTypeOK, env
<1> QED  BY <1>1, <1>2, <1>3, <1>4, <1>5, <1>6, <1>7, <1>8, <1>9 DEF Worker
-----------------------------------------------------------------------------
(* Lists, and what putting and taking an item does to the queue.             *)

(* A list of distinct streams has as many members as entries.                *)
LEMMA DistinctList ==
    ASSUME NEW list \in Seq(Streams),
           \A i, j \in 1..Len(list) : list[i] = list[j] => i = j
    PROVE  IsFiniteSet(Elems(list)) /\ Cardinality(Elems(list)) = Len(list)
<1>1. Len(list) \in Nat /\ DOMAIN list = 1..Len(list)
  OBVIOUS
<1>2. IsFiniteSet(1..Len(list)) /\ Cardinality(1..Len(list)) = Len(list)
  <2>1. Cardinality(1..Len(list)) = IF 1 > Len(list) THEN 0 ELSE Len(list) - 1 + 1
    BY <1>1, FS_Interval
  <2> QED  BY SMTT(20), <1>1, <2>1, FS_Interval
<1>3. list \in Bijection(1..Len(list), Elems(list))
  <2>1. list \in [1..Len(list) -> Elems(list)]
    BY <1>1 DEF Elems
  <2>2. \A t \in Elems(list) : \E i \in 1..Len(list) : list[i] = t
    BY DEF Elems
  <2> QED  BY <2>1, <2>2 DEF Bijection, Injection, Surjection, IsInjective
<1>4. ExistsBijection(1..Len(list), Elems(list))
  BY <1>3 DEF ExistsBijection
<1> QED  BY <1>2, <1>4, FS_Bijection

(* The items after one is put.                                               *)
LEMMA Put ==
    ASSUME IterTypeOK, NEW x \in Items, queue' = Append(queue, x)
    PROVE  /\ Len(queue') = Len(queue) + 1
           /\ \A i \in 1..Len(queue) : queue'[i] = queue[i] /\ i \in 1..Len(queue')
           /\ queue'[Len(queue) + 1] = x
           /\ \A i \in 1..Len(queue') : i \in 1..Len(queue) \/ i = Len(queue) + 1
BY DEF IterTypeOK

(* The items after the first is taken.                                       *)
LEMMA Take ==
    ASSUME IterTypeOK, queue # <<>>, queue' = Tail(queue)
    PROVE  /\ Len(queue') = Len(queue) - 1
           /\ Head(queue) = queue[1] /\ 1 \in 1..Len(queue)
           /\ \A i \in 1..Len(queue') : queue'[i] = queue[i + 1] /\ i + 1 \in 1..Len(queue)
           /\ \A i \in 1..Len(queue) :
                i = 1 \/ (i - 1 \in 1..Len(queue') /\ queue'[i - 1] = queue[i])
<1>1. queue \in Seq(Items) /\ Len(queue) \in Nat
  BY DEF IterTypeOK
<1>2. /\ Len(queue') = Len(queue) - 1
      /\ \A i \in 1..Len(queue') : queue'[i] = queue[i + 1]
  BY <1>1, HeadTailProperties
<1>3. Head(queue) = queue[1] /\ Len(queue) >= 1
  BY <1>1
<1>4. \A i \in 1..Len(queue) : i = 1 \/ (i - 1 \in 1..Len(queue') /\ queue'[i - 1] = queue[i])
  <2> SUFFICES ASSUME NEW i \in 1..Len(queue), i # 1
               PROVE  i - 1 \in 1..Len(queue') /\ queue'[i - 1] = queue[i]
    OBVIOUS
  <2>1. i - 1 \in 1..Len(queue') /\ (i - 1) + 1 = i
    BY <1>1, <1>2
  <2> QED  BY <1>2, <2>1
<1>5. \A i \in 1..Len(queue') : i + 1 \in 1..Len(queue)
  BY <1>1, <1>2
<1> QED  BY <1>1, <1>2, <1>3, <1>4, <1>5

(* Every item on the queue is an item.                                       *)
LEMMA QueueItems ==
    ASSUME IterTypeOK, NEW i \in 1..Len(queue)
    PROVE  /\ queue[i].kind \in {"rows", "done", "error"}
           /\ queue[i].stream \in Streams
           /\ queue[i].first \in Nat /\ queue[i].last \in 0..MaxRows
<1>1. queue[i] \in Items
  BY DEF IterTypeOK
<1> QED  BY <1>1 DEF Items
-----------------------------------------------------------------------------
(* The invariant, action by action.                                          *)

(* A fresh iterator satisfies it.                                            *)
LEMMA EnterInv ==
    ASSUME IterTypeOK, NEW list \in Seq(Streams), Enter(list), UNCHANGED env,
           \A i, j \in 1..Len(list) : list[i] = list[j] => i = j,
           \A s \in Streams : store[s] <= source[s]
    PROVE  IterInv'
<1> USE DEF Enter, env
<1>1. /\ list \in Seq(Streams)
      /\ \A i, j \in 1..Len(list) : list[i] = list[j] => i = j
      /\ Len(list) \in Nat
  OBVIOUS
<1>2. Len(queue') = 0 /\ 1..Len(queue') = {}
  OBVIOUS
<1>3. \A i \in 1..Len(list) : list[i] \in Elems(list) /\ list[i] \in Streams
  BY <1>1 DEF Elems
<1>4. BacklogInv'
  BY <1>1, <1>3 DEF BacklogInv, Elems, Idle
<1>5. WorkerInv'
  BY <1>2 DEF WorkerInv, PlaceInv, Idle, Zero, Base, IterTypeOK
<1>6. ChunkInv'
  <2>1. \A s \in Streams : Base(s) \in Nat
    BY DEF Base, IterTypeOK
  <2>2. \A s \in Streams : delivered'[s] \in Nat /\ pos'[s] = 0 /\ wpc'[s] = "idle"
    BY <2>1 DEF Zero, Idle
  <2>3. \A s \in Streams : (delivered'[s] + 1)..pos'[s] = {}
    BY <2>2
  <2> QED  BY <1>2, <2>2, <2>3 DEF ChunkInv
<1>7. SentinelInv'
  BY <1>2, <1>3 DEF SentinelInv, Idle, Elems
<1>8. CountInv'
  <2>1. Outstanding' = Elems(list)
    BY <1>3 DEF Outstanding, Ended, Idle, Elems
  <2> QED  BY <1>1, <2>1, DistinctList DEF CountInv, Expected
<1>9. ItemInv'
  BY DEF ItemInv
<1> QED  BY <1>4, <1>5, <1>6, <1>7, <1>8, <1>9 DEF IterInv

(* Steps that leave the queue and the workers alone.                         *)
LEMMA IterEndInv ==
    ASSUME IterTypeOK, IterInv, IterEnd
    PROVE  IterInv'
<1> USE DEF IterInv, IterEnd, env
<1>1. BacklogInv'
  BY DEF BacklogInv
<1>2. WorkerInv'
  BY DEF WorkerInv, PlaceInv, Base
<1>3. ChunkInv'
  BY DEF ChunkInv
<1>4. SentinelInv'
  BY DEF SentinelInv, Ended, HasSentinel
<1>5. CountInv'
  BY DEF CountInv, Outstanding, Ended, HasSentinel
<1>6. ItemInv'
  BY DEF ItemInv
<1> QED  BY <1>1, <1>2, <1>3, <1>4, <1>5, <1>6

(* The consumer comes back for the next chunk.                               *)
LEMMA ResumeInv ==
    ASSUME IterTypeOK, IterInv, Resume, UNCHANGED env
    PROVE  IterInv'
<1> USE DEF IterInv, Resume, env
<1>1. BacklogInv'
  BY DEF BacklogInv
<1>2. WorkerInv'
  BY DEF WorkerInv, PlaceInv, Base
<1>3. ChunkInv'
  BY DEF ChunkInv
<1>4. SentinelInv'
  BY DEF SentinelInv, Ended, HasSentinel
<1>5. CountInv'
  BY DEF CountInv, Outstanding, Ended, HasSentinel
<1>6. ItemInv'
  BY DEF ItemInv
<1> QED  BY <1>1, <1>2, <1>3, <1>4, <1>5, <1>6

(* __exit__ drops the submissions and nothing else.                          *)
LEMMA CloseInv ==
    ASSUME IterTypeOK, IterInv, Close, UNCHANGED env
    PROVE  IterInv'
<1> USE DEF IterInv, Close, env
<1>1. BacklogInv'
  BY DEF BacklogInv, AfterShutdown
<1>2. WorkerInv'
  BY DEF WorkerInv, PlaceInv, Base
<1>3. ChunkInv'
  BY DEF ChunkInv
<1>4. SentinelInv'
  BY DEF SentinelInv, Ended, HasSentinel
<1>5. CountInv'
  BY DEF CountInv, Outstanding, Ended, HasSentinel
<1>6. ItemInv'
  BY DEF ItemInv
<1> QED  BY <1>1, <1>2, <1>3, <1>4, <1>5, <1>6

(* A result set is not affected by rows the source adds later.               *)
LEMMA GrowInv ==
    ASSUME IterTypeOK, IterInv, NEW t \in Streams,
           source' = [source EXCEPT ![t] = @ + 1], UNCHANGED <<store, full, iterVars>>
    PROVE  IterInv'
<1> USE DEF IterInv, iterVars
<1>1. BacklogInv'
  BY DEF BacklogInv
<1>2. WorkerInv'
  <2>1. \A s \in Streams : /\ source[s] <= source'[s]
                            /\ Base(s)' = Base(s) /\ Base(s) \in Nat
    BY SMTT(20) DEF IterTypeOK, Base
  <2>2. \A s \in Streams : /\ last[s] \in Nat /\ source[s] \in Nat /\ source'[s] \in Nat
                            /\ store[s] \in Nat
    BY DEF IterTypeOK
  <2> QED  BY <2>1, <2>2 DEF WorkerInv, PlaceInv
<1>3. ChunkInv'
  BY DEF ChunkInv
<1>4. SentinelInv'
  BY DEF SentinelInv, Ended, HasSentinel
<1>5. CountInv'
  BY DEF CountInv, Outstanding, Ended, HasSentinel
<1>6. ItemInv'
  BY DEF ItemInv
<1> QED  BY <1>1, <1>2, <1>3, <1>4, <1>5, <1>6
(* A step that neither touches the queue nor ends a worker keeps the         *)
(* sentinels and their count.                                                *)
LEMMA SameEnds ==
    ASSUME IterTypeOK, IterInv,
           UNCHANGED <<queue, streams, errors, remaining, iter>>,
           \A s \in Streams : /\ wpc'[s] = "done" <=> wpc[s] = "done"
                              /\ wpc'[s] = "failed" <=> wpc[s] = "failed"
    PROVE  SentinelInv' /\ CountInv'
<1>1. \A s \in Streams : Ended(s)' <=> Ended(s)
  BY DEF Ended
<1>2. \A s : HasSentinel(s)' <=> HasSentinel(s)
  BY DEF HasSentinel
<1>3. \A i \in 1..Len(queue) : queue[i].stream \in Streams
  BY QueueItems
<1>4. Elems(streams)' = Elems(streams) /\ Elems(streams) \subseteq Streams
  <2>1. streams \in Seq(Streams)
    BY DEF IterTypeOK
  <2> QED  BY <2>1 DEF Elems
<1>5. SentinelInv'
  <2>1. errors' = {s \in Elems(streams) : wpc'[s] = "failed" /\ ~HasSentinel(s)'}
    BY <1>2, <1>4 DEF IterInv, SentinelInv
  <2>2. \A i \in 1..Len(queue) : queue[i].kind # "rows" =>
           wpc'[queue[i].stream] = IF queue[i].kind = "done" THEN "done" ELSE "failed"
    BY <1>3 DEF IterInv, SentinelInv
  <2>3. \A i \in 1..Len(queue) : Ended(queue[i].stream)' => HasSentinel(queue[i].stream)'
    BY <1>1, <1>2, <1>3 DEF IterInv, SentinelInv
  <2> QED  BY <1>4, <2>1, <2>2, <2>3 DEF IterInv, SentinelInv, Ended, HasSentinel
<1>6. CountInv'
  <2>1. Outstanding' = Outstanding
    BY <1>1, <1>2, <1>4 DEF Outstanding
  <2> QED  BY <2>1 DEF IterInv, CountInv
<1> QED  BY <1>5, <1>6

(* A stream is picked up once: it is idle, and not submitted again.          *)
LEMMA PickUpInv ==
    ASSUME IterTypeOK, IterInv, NEW t \in Streams, PickUp(t)
    PROVE  IterInv'
<1> USE DEF PickUp, env
<1>1. /\ backlog \in Seq(Streams)
      /\ wpc \in [Streams -> {"idle", "get", "open", "read", "tail", "done",
                              "raising", "failed"}]
  BY DEF IterTypeOK
<1>2. wpc[t] = "idle" /\ t \in Elems(streams)
  BY <1>1 DEF IterInv, BacklogInv
<1>3. \A s \in Streams : wpc'[s] = IF s = t THEN "get" ELSE wpc[s]
  BY <1>1
<1>4. BacklogInv'
  <2>1. /\ Len(backlog') = Len(backlog) - 1
        /\ \A i \in 1..Len(backlog') : /\ backlog'[i] = backlog[i + 1]
                                       /\ i + 1 \in 1..Len(backlog)
    BY <1>1, HeadTailProperties
  <2>2. \A i \in 1..Len(backlog') : backlog'[i] # t /\ backlog'[i] \in Streams
    BY <1>1, <2>1 DEF IterInv, BacklogInv
  <2>3. \A i \in 1..Len(backlog') :
           backlog'[i] \in Elems(streams) /\ wpc'[backlog'[i]] = "idle"
    BY <1>3, <2>1, <2>2 DEF IterInv, BacklogInv
  <2>4. \A i, j \in 1..Len(backlog') : backlog'[i] = backlog'[j] => i = j
    BY <1>1, <2>1 DEF IterInv, BacklogInv
  <2> QED  BY <2>3, <2>4 DEF IterInv, BacklogInv, Elems
<1>5. WorkerInv'
  BY <1>2, <1>3 DEF IterInv, WorkerInv, PlaceInv, Base, Elems
<1>6. ChunkInv'
  BY <1>3 DEF IterInv, ChunkInv
<1>7. SentinelInv' /\ CountInv'
  BY <1>2, <1>3, SameEnds
<1>8. ItemInv'
  BY DEF IterInv, ItemInv, Elems
<1> QED  BY <1>4, <1>5, <1>6, <1>7, <1>8 DEF IterInv

(* The worker starts from the stored watermark, with nothing put.            *)
LEMMA GetStateInv ==
    ASSUME IterTypeOK, IterInv, NEW t \in Streams, GetState(t)
    PROVE  IterInv'
<1> USE DEF GetState, env
<1>1. /\ state \in [Streams -> 0..MaxRows] /\ pos \in [Streams -> 0..MaxRows]
      /\ last \in [Streams -> 0..MaxRows] /\ source \in [Streams -> 0..MaxRows]
      /\ wpc \in [Streams -> {"idle", "get", "open", "read", "tail", "done",
                              "raising", "failed"}]
      /\ \A s \in Streams : Base(s) \in 0..MaxRows /\ Base(s)' = Base(s)
      /\ delivered \in [Streams -> 0..MaxRows] /\ ChunkSize \in Nat
  BY DEF IterTypeOK, Base
<1>2. /\ wpc[t] = "get" /\ wpc'[t] = "open"
      /\ \A s \in Streams : s # t => wpc'[s] = wpc[s]
  BY <1>1
<1>3. \A s \in Streams : /\ state'[s] = (IF s = t THEN Base(t) ELSE state[s])
                           /\ pos'[s] = (IF s = t THEN Base(t) ELSE pos[s])
  BY <1>1
<1>4. BacklogInv'
  <2>1. \A i \in 1..Len(backlog) : backlog[i] \in Streams
    BY DEF IterTypeOK
  <2>2. \A i \in 1..Len(backlog) : wpc[backlog[i]] = "idle"
    BY DEF IterInv, BacklogInv
  <2>3. \A i \in 1..Len(backlog) : backlog[i] # t /\ wpc'[backlog[i]] = "idle"
    BY <1>2, <2>1, <2>2
  <2> QED  BY <2>3 DEF IterInv, BacklogInv, Elems
<1>5. WorkerInv'
  <2> SUFFICES ASSUME NEW s \in Streams
               PROVE  PlaceInv(s)'
    BY DEF WorkerInv
  <2>1. PlaceInv(s) /\ Elems(streams)' = Elems(streams)
    BY DEF IterInv, WorkerInv, Elems
  <2>2. CASE s = t
    BY <1>1, <1>2, <1>3, <2>1, <2>2 DEF PlaceInv
  <2>3. CASE s # t
    BY <1>1, <1>2, <1>3, <2>1, <2>3 DEF PlaceInv
  <2> QED  BY <2>2, <2>3
<1>6. ChunkInv'
  <2>1. PlaceInv(t) /\ t \in Elems(streams)
    BY <1>2 DEF IterInv, WorkerInv, PlaceInv
  <2>2. iter # "none"
    BY <2>1 DEF IterInv, BacklogInv, Elems
  <2>3. /\ \A i \in 1..Len(queue) : queue[i].stream # t /\ queue[i].stream \in Streams
        /\ delivered[t] = Base(t)
    BY <1>2, <2>1, <2>2, QueueItems DEF PlaceInv
  <2>4. (delivered'[t] + 1)..pos'[t] = {}
    BY <1>1, <1>3, <2>3
  <2>5. \A s \in Streams : wpc'[s] \in {"read", "tail", "done"} => delivered[s] <= pos'[s]
    BY <1>1, <1>2, <1>3 DEF IterInv, ChunkInv
  <2> QED  BY <1>1, <1>2, <1>3, <2>3, <2>4, <2>5, SMTT(20) DEF IterInv, ChunkInv
<1>7. SentinelInv' /\ CountInv'
  BY <1>1, <1>2, SameEnds
<1>8. ItemInv'
  BY DEF IterInv, ItemInv, Elems
<1> QED  BY <1>4, <1>5, <1>6, <1>7, <1>8 DEF IterInv

(* The result set is fixed.                                                  *)
LEMMA OpenReadInv ==
    ASSUME IterTypeOK, IterInv, NEW t \in Streams, OpenRead(t)
    PROVE  IterInv'
<1> USE DEF OpenRead, env
<1>1. /\ state \in [Streams -> 0..MaxRows] /\ pos \in [Streams -> 0..MaxRows]
      /\ last \in [Streams -> 0..MaxRows] /\ source \in [Streams -> 0..MaxRows]
      /\ wpc \in [Streams -> {"idle", "get", "open", "read", "tail", "done",
                              "raising", "failed"}]
      /\ \A s \in Streams : Base(s) \in 0..MaxRows /\ Base(s)' = Base(s)
      /\ delivered \in [Streams -> 0..MaxRows] /\ ChunkSize \in Nat
  BY DEF IterTypeOK, Base
<1>2. /\ wpc[t] = "open" /\ wpc'[t] = "read"
      /\ \A s \in Streams : s # t => wpc'[s] = wpc[s]
  BY <1>1
<1>3. \A s \in Streams : last'[s] = (IF s = t THEN source[t] ELSE last[s])
  BY <1>1
<1>4. BacklogInv'
  <2>1. \A i \in 1..Len(backlog) : backlog[i] \in Streams
    BY DEF IterTypeOK
  <2>2. \A i \in 1..Len(backlog) : wpc[backlog[i]] = "idle"
    BY DEF IterInv, BacklogInv
  <2>3. \A i \in 1..Len(backlog) : backlog[i] # t /\ wpc'[backlog[i]] = "idle"
    BY <1>2, <2>1, <2>2
  <2> QED  BY <2>3 DEF IterInv, BacklogInv, Elems
<1>5. WorkerInv'
  <2> SUFFICES ASSUME NEW s \in Streams
               PROVE  PlaceInv(s)'
    BY DEF WorkerInv
  <2>1. PlaceInv(s) /\ Elems(streams)' = Elems(streams)
    BY DEF IterInv, WorkerInv, Elems
  <2>2. CASE s = t
    <3>1. Base(t) <= source[t]
      BY <2>1, <2>2 DEF PlaceInv, Base, IterTypeOK
    <3> QED  BY <1>1, <1>2, <1>3, <2>1, <2>2, <3>1 DEF PlaceInv
  <2>3. CASE s # t
    BY <1>1, <1>2, <1>3, <2>1, <2>3 DEF PlaceInv
  <2> QED  BY <2>2, <2>3
<1>6. ChunkInv'
  <2>1. PlaceInv(t) /\ t \in Elems(streams)
    BY <1>2 DEF IterInv, WorkerInv, PlaceInv
  <2>2. iter # "none"
    BY <2>1 DEF IterInv, BacklogInv, Elems
  <2>3. delivered[t] <= pos[t]
    BY <1>1, <1>2, <2>1, <2>2 DEF PlaceInv
  <2> QED  BY <1>1, <1>2, <2>3 DEF IterInv, ChunkInv
<1>7. SentinelInv' /\ CountInv'
  BY <1>1, <1>2, SameEnds
<1>8. ItemInv'
  BY DEF IterInv, ItemInv, Elems
<1> QED  BY <1>4, <1>5, <1>6, <1>7, <1>8 DEF IterInv

(* The watermark moves to the last row of the result set.                    *)
LEMMA ExhaustInv ==
    ASSUME IterTypeOK, IterInv, NEW t \in Streams, Exhaust(t)
    PROVE  IterInv'
<1> USE DEF Exhaust, env
<1>1. /\ state \in [Streams -> 0..MaxRows] /\ pos \in [Streams -> 0..MaxRows]
      /\ last \in [Streams -> 0..MaxRows] /\ source \in [Streams -> 0..MaxRows]
      /\ wpc \in [Streams -> {"idle", "get", "open", "read", "tail", "done",
                              "raising", "failed"}]
      /\ \A s \in Streams : Base(s) \in 0..MaxRows /\ Base(s)' = Base(s)
      /\ delivered \in [Streams -> 0..MaxRows] /\ ChunkSize \in Nat
  BY SMTT(20) DEF IterTypeOK, Base
<1>2. /\ wpc[t] = "read" /\ wpc'[t] = "tail"
      /\ \A s \in Streams : s # t => wpc'[s] = wpc[s]
  BY <1>1
<1>3. \A s \in Streams : state'[s] = (IF s = t THEN last[t] ELSE state[s])
  BY <1>1
<1>4. BacklogInv'
  <2>1. \A i \in 1..Len(backlog) : backlog[i] \in Streams
    BY DEF IterTypeOK
  <2>2. \A i \in 1..Len(backlog) : wpc[backlog[i]] = "idle"
    BY DEF IterInv, BacklogInv
  <2>3. \A i \in 1..Len(backlog) : backlog[i] # t /\ wpc'[backlog[i]] = "idle"
    BY <1>2, <2>1, <2>2
  <2> QED  BY <2>3 DEF IterInv, BacklogInv, Elems
<1>5. WorkerInv'
  <2> SUFFICES ASSUME NEW s \in Streams
               PROVE  PlaceInv(s)'
    BY DEF WorkerInv
  <2>1. PlaceInv(s) /\ Elems(streams)' = Elems(streams)
    BY DEF IterInv, WorkerInv, Elems
  <2>2. CASE s = t
    BY <1>1, <1>2, <1>3, <2>1, <2>2 DEF PlaceInv
  <2>3. CASE s # t
    BY <1>1, <1>2, <1>3, <2>1, <2>3 DEF PlaceInv
  <2> QED  BY <2>2, <2>3
<1>6. ChunkInv'
  BY <1>1, <1>2, <1>3 DEF IterInv, ChunkInv
<1>7. SentinelInv' /\ CountInv'
  BY <1>1, <1>2, SameEnds
<1>8. ItemInv'
  BY DEF IterInv, ItemInv, Elems
<1> QED  BY <1>4, <1>5, <1>6, <1>7, <1>8 DEF IterInv

(* A failing read puts nothing.                                              *)
LEMMA RaiseInv ==
    ASSUME IterTypeOK, IterInv, NEW t \in Streams, Raise(t)
    PROVE  IterInv'
<1> USE DEF Raise, env
<1>1. /\ state \in [Streams -> 0..MaxRows] /\ pos \in [Streams -> 0..MaxRows]
      /\ last \in [Streams -> 0..MaxRows] /\ source \in [Streams -> 0..MaxRows]
      /\ wpc \in [Streams -> {"idle", "get", "open", "read", "tail", "done",
                              "raising", "failed"}]
      /\ \A s \in Streams : Base(s) \in 0..MaxRows /\ Base(s)' = Base(s)
      /\ delivered \in [Streams -> 0..MaxRows] /\ ChunkSize \in Nat
  BY DEF IterTypeOK, Base
<1>2. /\ wpc[t] \in {"get", "open", "read"} /\ wpc'[t] = "raising"
      /\ \A s \in Streams : s # t => wpc'[s] = wpc[s]
  BY <1>1
<1>3. \A s \in Streams : pos'[s] = pos[s]
  BY <1>1
<1>4. BacklogInv'
  <2>1. \A i \in 1..Len(backlog) : backlog[i] \in Streams
    BY DEF IterTypeOK
  <2>2. \A i \in 1..Len(backlog) : wpc[backlog[i]] = "idle"
    BY DEF IterInv, BacklogInv
  <2>3. \A i \in 1..Len(backlog) : backlog[i] # t /\ wpc'[backlog[i]] = "idle"
    BY <1>2, <2>1, <2>2
  <2> QED  BY <2>3 DEF IterInv, BacklogInv, Elems
<1>5. WorkerInv'
  <2> SUFFICES ASSUME NEW s \in Streams
               PROVE  PlaceInv(s)'
    BY DEF WorkerInv
  <2>1. PlaceInv(s) /\ Elems(streams)' = Elems(streams)
    BY DEF IterInv, WorkerInv, Elems
  <2>2. CASE s = t
    BY <1>1, <1>2, <1>3, <2>1, <2>2 DEF PlaceInv
  <2>3. CASE s # t
    BY <1>1, <1>2, <1>3, <2>1, <2>3 DEF PlaceInv
  <2> QED  BY <2>2, <2>3
<1>6. ChunkInv'
  BY <1>1, <1>2, <1>3 DEF IterInv, ChunkInv
<1>7. SentinelInv' /\ CountInv'
  BY <1>1, <1>2, SameEnds
<1>8. ItemInv'
  BY DEF IterInv, ItemInv, Elems
<1> QED  BY <1>4, <1>5, <1>6, <1>7, <1>8 DEF IterInv
(* A worker that reads puts the rows up to b, the next ones of its result    *)
(* set.                                                                      *)
LEMMA PutRowsInv ==
    ASSUME IterTypeOK, IterInv, NEW t \in Streams, NEW b \in 0..MaxRows,
           wpc[t] \in {"read", "tail"}, pos[t] < b, b <= last[t],
           queue' = Append(queue, Rows(t, pos[t] + 1, b)),
           pos' = [pos EXCEPT ![t] = b],
           UNCHANGED <<env, streams, backlog, wpc, state, last, iter, item,
                       remaining, errors, delivered>>
    PROVE  IterInv'
<1> USE DEF env
<1> DEFINE x == Rows(t, pos[t] + 1, b)
           n == Len(queue)
<1>1. /\ pos \in [Streams -> 0..MaxRows] /\ last \in [Streams -> 0..MaxRows]
      /\ delivered \in [Streams -> 0..MaxRows] /\ source \in [Streams -> 0..MaxRows]
      /\ n \in Nat
      /\ \A s \in Streams : Base(s) \in 0..MaxRows /\ Base(s)' = Base(s)
  BY SMTT(20) DEF IterTypeOK, Base
<1>2. x \in Items
  BY <1>1, ItemTypes
<1>3. /\ Len(queue') = n + 1
      /\ \A i \in 1..n : queue'[i] = queue[i] /\ i \in 1..Len(queue')
      /\ queue'[n + 1] = x /\ n + 1 \in 1..Len(queue')
      /\ \A i \in 1..Len(queue') : i \in 1..n \/ i = n + 1
  <2>1. queue' = Append(queue, x)
    OBVIOUS
  <2> HIDE DEF x
  <2> QED  BY <1>1, <1>2, <2>1, Put
<1>4. /\ x.kind = "rows" /\ x.stream = t /\ x.first = pos[t] + 1 /\ x.last = b
  BY DEF Rows
<1> HIDE DEF x, n
<1>5. /\ \A s \in Streams : pos'[s] = IF s = t THEN b ELSE pos[s]
      /\ \A s \in Streams : pos[s] <= pos'[s]
  BY <1>1
<1>6. BacklogInv'
  BY DEF IterInv, BacklogInv, Elems
<1>7. WorkerInv'
  <2> SUFFICES ASSUME NEW s \in Streams
               PROVE  PlaceInv(s)'
    BY DEF WorkerInv
  <2>1. PlaceInv(s) /\ Elems(streams)' = Elems(streams)
    BY DEF IterInv, WorkerInv, Elems
  <2>2. wpc[s] \in {"idle", "get", "open"} =>
           \A i \in 1..Len(queue') : queue'[i].stream # s
    BY <1>3, <1>4, <2>1 DEF PlaceInv, n
  <2>3. CASE s = t
    BY <1>1, <1>5, <2>1, <2>2, <2>3 DEF PlaceInv
  <2>4. CASE s # t
    BY <1>1, <1>5, <2>1, <2>2, <2>4 DEF PlaceInv
  <2> QED  BY <2>3, <2>4
<1>8. /\ \A i \in 1..n : queue[i].stream \in Streams /\ queue[i].last \in 0..MaxRows
      /\ delivered[t] <= pos[t]
  BY QueueItems DEF IterInv, ChunkInv, n
<1>9. ChunkInv'
  <2>1. \A i \in 1..Len(queue') : queue'[i].kind = "rows" =>
           /\ delivered'[queue'[i].stream] < queue'[i].first
           /\ queue'[i].first <= queue'[i].last
           /\ queue'[i].last <= pos'[queue'[i].stream]
    <3> SUFFICES ASSUME NEW i \in 1..Len(queue'), queue'[i].kind = "rows"
                 PROVE  /\ delivered[queue'[i].stream] < queue'[i].first
                        /\ queue'[i].first <= queue'[i].last
                        /\ queue'[i].last <= pos'[queue'[i].stream]
      OBVIOUS
    <3>1. CASE i \in 1..n
      <4>1. /\ delivered[queue[i].stream] < queue[i].first
            /\ queue[i].first <= queue[i].last
            /\ queue[i].last <= pos[queue[i].stream]
        BY <1>3, <3>1 DEF IterInv, ChunkInv, n
      <4> QED  BY SMTT(20), <1>1, <1>3, <1>5, <1>8, <3>1, <4>1
    <3>2. CASE i = n + 1
      BY <1>1, <1>3, <1>4, <1>5, <1>8, <3>2
    <3> QED  BY <1>3, <3>1, <3>2
  <2>2. \A i, j \in 1..Len(queue') :
           /\ queue'[i].kind = "rows" /\ queue'[j].kind = "rows"
           /\ queue'[i].stream = queue'[j].stream /\ i < j
           => queue'[i].last < queue'[j].first
    <3> SUFFICES ASSUME NEW i \in 1..Len(queue'), NEW j \in 1..Len(queue'),
                        queue'[i].kind = "rows", queue'[j].kind = "rows",
                        queue'[i].stream = queue'[j].stream, i < j
                 PROVE  queue'[i].last < queue'[j].first
      OBVIOUS
    <3>1. i \in 1..n /\ queue'[i] = queue[i]
      BY <1>1, <1>3
    <3>2. CASE j \in 1..n
      BY <1>3, <3>1, <3>2 DEF IterInv, ChunkInv, n
    <3>3. CASE j = n + 1
      <4>1. queue[i].last <= pos[t] /\ queue[i].last \in Nat
        BY <1>3, <1>4, <1>8, <3>1, <3>3 DEF IterInv, ChunkInv, n
      <4> QED  BY SMTT(20), <1>1, <1>3, <1>4, <3>1, <3>3, <4>1
    <3> QED  BY <1>3, <3>2, <3>3
  <2>3. ASSUME NEW s \in Streams, NEW r \in (delivered[s] + 1)..pos'[s]
        PROVE  \E i \in 1..Len(queue') :
                   /\ queue'[i].kind = "rows" /\ queue'[i].stream = s
                   /\ queue'[i].first <= r /\ r <= queue'[i].last
    <3>1. CASE r \in (delivered[s] + 1)..pos[s]
      <4>1. PICK i \in 1..n :
                   /\ queue[i].kind = "rows" /\ queue[i].stream = s
                   /\ queue[i].first <= r /\ r <= queue[i].last
        BY <3>1 DEF IterInv, ChunkInv, n
      <4> QED  BY <1>3, <4>1
    <3>2. CASE r \notin (delivered[s] + 1)..pos[s]
      <4>1. s = t /\ pos[t] + 1 <= r /\ r <= b
        BY <1>1, <1>5, <2>3, <3>2
      <4> QED  BY <1>3, <1>4, <4>1
    <3> QED  BY <3>1, <3>2
  <2>4. \A s \in Streams : wpc'[s] \in {"read", "tail", "done"} => delivered[s] <= pos'[s]
    <3>1. \A s \in Streams : wpc[s] \in {"read", "tail", "done"} => delivered[s] <= pos[s]
      BY DEF IterInv, ChunkInv
    <3> QED  BY <1>1, <1>5, <3>1
  <2> QED  BY <2>1, <2>2, <2>3, <2>4 DEF ChunkInv
<1>10. \A s : HasSentinel(s)' <=> HasSentinel(s)
  BY <1>3, <1>4 DEF HasSentinel, n
<1>11. SentinelInv'
  <2>1. \A i \in 1..Len(queue') : queue'[i].kind # "rows" =>
           wpc'[queue'[i].stream] = IF queue'[i].kind = "done" THEN "done" ELSE "failed"
    BY <1>3, <1>4 DEF IterInv, SentinelInv, n
  <2>2. \A i, j \in 1..Len(queue') :
           queue'[i].kind # "rows" /\ queue'[i].stream = queue'[j].stream => j <= i
    <3> SUFFICES ASSUME NEW i \in 1..Len(queue'), NEW j \in 1..Len(queue'),
                        queue'[i].kind # "rows", queue'[i].stream = queue'[j].stream
                 PROVE  j <= i
      OBVIOUS
    <3>1. i \in 1..n /\ queue'[i] = queue[i]
      BY <1>3, <1>4
    <3>2. CASE j \in 1..n
      BY <1>3, <3>1, <3>2 DEF IterInv, SentinelInv, n
    <3>3. j # n + 1
      <4>1. wpc[queue[i].stream] \in {"done", "failed"}
        BY <3>1 DEF IterInv, SentinelInv, n
      <4> QED  BY <1>3, <1>4, <3>1, <4>1
    <3> QED  BY <1>3, <3>2, <3>3
  <2>3. \A i \in 1..Len(queue') : (Ended(queue[i].stream) => HasSentinel(queue[i].stream))'
    <3>1. \A i \in 1..n : Ended(queue[i].stream) => HasSentinel(queue[i].stream)
      BY DEF IterInv, SentinelInv, n
    <3>2. ~Ended(t)
      BY DEF Ended
    <3>3. \A s : Ended(s)' <=> Ended(s)
      BY DEF Ended
    <3> QED  BY <1>3, <1>4, <1>10, <3>1, <3>2, <3>3
  <2>4. errors' = {s \in Elems(streams)' : wpc'[s] = "failed" /\ ~HasSentinel(s)'}
    BY <1>10 DEF IterInv, SentinelInv, Elems
  <2> QED  BY <2>1, <2>2, <2>3, <2>4 DEF SentinelInv
<1>12. CountInv'
  <2>1. Outstanding' = Outstanding
    BY <1>10 DEF Outstanding, Ended, Elems
  <2> QED  BY <2>1 DEF IterInv, CountInv
<1>13. ItemInv'
  BY DEF IterInv, ItemInv, Elems
<1> QED  BY <1>6, <1>7, <1>9, <1>11, <1>12, <1>13 DEF IterInv
(* A worker's last step puts its sentinel and ends it.                       *)
LEMMA PutSentinelInv ==
    ASSUME IterTypeOK, IterInv, NEW t \in Streams, NEW x \in Items,
           x.stream = t, x.kind # "rows",
           x.kind = "done" => wpc[t] = "tail" /\ pos[t] = last[t],
           x.kind = "error" => wpc[t] = "raising",
           queue' = Append(queue, x),
           wpc' = [wpc EXCEPT ![t] = IF x.kind = "done" THEN "done" ELSE "failed"],
           UNCHANGED <<env, streams, backlog, state, last, pos, iter, item,
                       remaining, errors, delivered>>
    PROVE  IterInv'
<1> USE DEF env
<1> DEFINE n == Len(queue)
<1>1. /\ wpc \in [Streams -> {"idle", "get", "open", "read", "tail", "done",
                              "raising", "failed"}]
      /\ n \in Nat
      /\ \A s \in Streams : Base(s)' = Base(s)
      /\ x.kind = "done" \/ x.kind = "error"
  <2>1. x.kind = "done" \/ x.kind = "error"
    BY DEF Items
  <2> QED  BY <2>1 DEF IterTypeOK, Base
<1>2. /\ Len(queue') = n + 1
      /\ \A i \in 1..n : queue'[i] = queue[i] /\ i \in 1..Len(queue')
      /\ queue'[n + 1] = x /\ n + 1 \in 1..Len(queue')
      /\ \A i \in 1..Len(queue') : i \in 1..n \/ i = n + 1
  BY <1>1, Put
<1> HIDE DEF n
<1>3. /\ \A s \in Streams : s # t => wpc'[s] = wpc[s]
      /\ wpc'[t] = IF x.kind = "done" THEN "done" ELSE "failed"
      /\ ~Ended(t) /\ wpc[t] # "idle"
  BY <1>1 DEF Ended
<1>4. \A i \in 1..n : queue[i].stream \in Streams
  BY QueueItems DEF n
<1>5. \A i \in 1..n : queue[i].stream = t => queue[i].kind = "rows"
  <2>1. \A i \in 1..n : queue[i].kind # "rows" => Ended(queue[i].stream)
    BY DEF IterInv, SentinelInv, Ended, n
  <2> QED  BY <1>3, <2>1
<1>6. /\ HasSentinel(t)' /\ ~HasSentinel(t)
      /\ \A s : s # t => (HasSentinel(s)' <=> HasSentinel(s))
  BY <1>2, <1>5 DEF HasSentinel, n
<1>7. t \in Elems(streams) /\ Elems(streams)' = Elems(streams)
  BY <1>3 DEF IterInv, WorkerInv, PlaceInv, Elems
<1>8. BacklogInv'
  <2>1. \A i \in 1..Len(backlog) : backlog[i] \in Streams
    BY DEF IterTypeOK
  <2>2. \A i \in 1..Len(backlog) : wpc[backlog[i]] = "idle"
    BY DEF IterInv, BacklogInv
  <2>3. \A i \in 1..Len(backlog) : wpc'[backlog[i]] = "idle"
    BY <1>3, <2>1, <2>2
  <2> QED  BY <2>3 DEF IterInv, BacklogInv, Elems
<1>9. WorkerInv'
  <2> SUFFICES ASSUME NEW s \in Streams
               PROVE  PlaceInv(s)'
    BY DEF WorkerInv
  <2>1. PlaceInv(s)
    BY DEF IterInv, WorkerInv
  <2>2. CASE s = t
    BY <1>1, <1>3, <1>7, <2>1, <2>2 DEF PlaceInv
  <2>3. CASE s # t
    <3>1. wpc'[s] \in {"idle", "get", "open"} =>
             \A i \in 1..Len(queue') : queue'[i].stream # s
      BY <1>2, <1>3, <2>1, <2>3 DEF PlaceInv, n
    <3> QED  BY <1>1, <1>3, <1>7, <2>1, <2>3, <3>1 DEF PlaceInv
  <2> QED  BY <2>2, <2>3
<1>10. ChunkInv'
  <2>1. \A i \in 1..Len(queue') : queue'[i].kind = "rows" => i \in 1..n
    BY <1>2
  <2>2. \A s \in Streams : wpc'[s] \in {"read", "tail", "done"} =>
           wpc[s] \in {"read", "tail", "done"}
    BY <1>1, <1>3
  <2>3. \A s \in Streams : \A r \in (delivered[s] + 1)..pos[s] :
           \E i \in 1..Len(queue') :
               /\ queue'[i].kind = "rows" /\ queue'[i].stream = s
               /\ queue'[i].first <= r /\ r <= queue'[i].last
    BY <1>2 DEF IterInv, ChunkInv, n
  <2> QED  BY <1>2, <2>1, <2>2, <2>3 DEF IterInv, ChunkInv, n
<1>11. SentinelInv'
  <2>1. \A i \in 1..Len(queue') : queue'[i].kind # "rows" =>
           wpc'[queue'[i].stream] = IF queue'[i].kind = "done" THEN "done" ELSE "failed"
    BY <1>2, <1>3, <1>4, <1>5 DEF IterInv, SentinelInv, n
  <2>2. \A i, j \in 1..Len(queue') :
           queue'[i].kind # "rows" /\ queue'[i].stream = queue'[j].stream => j <= i
    <3> SUFFICES ASSUME NEW i \in 1..Len(queue'), NEW j \in 1..Len(queue'),
                        queue'[i].kind # "rows", queue'[i].stream = queue'[j].stream
                 PROVE  j <= i
      OBVIOUS
    <3>1. CASE i \in 1..n
      BY <1>2, <1>5, <3>1 DEF IterInv, SentinelInv, n
    <3>2. CASE i = n + 1
      BY <1>1, <1>2, <3>2
    <3> QED  BY <1>2, <3>1, <3>2
  <2>3. \A i \in 1..Len(queue') : (Ended(queue[i].stream) => HasSentinel(queue[i].stream))'
    <3>1. \A i \in 1..n : Ended(queue[i].stream) => HasSentinel(queue[i].stream)
      BY DEF IterInv, SentinelInv, n
    <3>2. \A s \in Streams : s # t => (Ended(s)' <=> Ended(s))
      BY <1>3 DEF Ended
    <3> QED  BY <1>2, <1>4, <1>6, <3>1, <3>2
  <2>4. errors' = {s \in Elems(streams)' : wpc'[s] = "failed" /\ ~HasSentinel(s)'}
    <3>1. Elems(streams) \subseteq Streams
      <4>1. streams \in Seq(Streams)
        BY DEF IterTypeOK
      <4> QED  BY <4>1 DEF Elems
    <3>2. \A s \in Elems(streams) : wpc'[s] = "failed" /\ ~HasSentinel(s)' <=>
                                    wpc[s] = "failed" /\ ~HasSentinel(s)
      BY <1>3, <1>6, <3>1 DEF Ended
    <3> QED  BY <1>7, <3>2 DEF IterInv, SentinelInv
  <2> QED  BY <2>1, <2>2, <2>3, <2>4 DEF SentinelInv
<1>12. CountInv'
  <2>1. \A s \in Elems(streams) : (~Ended(s) \/ HasSentinel(s))' <=> (~Ended(s) \/ HasSentinel(s))
    <3>1. \A s \in Elems(streams) : s \in Streams
      <4>1. streams \in Seq(Streams)
        BY DEF IterTypeOK
      <4> QED  BY <4>1 DEF Elems
    <3>2. \A s \in Streams : s # t => (Ended(s)' <=> Ended(s))
      BY <1>3 DEF Ended
    <3> QED  BY <1>3, <1>6, <3>1, <3>2
  <2>2. Outstanding' = Outstanding
    BY <1>7, <2>1 DEF Outstanding
  <2> QED  BY <2>2 DEF IterInv, CountInv
<1>13. ItemInv'
  BY <1>7 DEF IterInv, ItemInv
<1> QED  BY <1>8, <1>9, <1>10, <1>11, <1>12, <1>13 DEF IterInv
(* What is left on the queue once its first item is taken, and what that     *)
(* does to the sentinels.                                                    *)
LEMMA Taken ==
    ASSUME IterTypeOK, IterInv, queue # <<>>, queue' = Tail(queue), UNCHANGED wpc
    PROVE  /\ Head(queue) = queue[1] /\ 1 \in 1..Len(queue)
           /\ Head(queue).stream \in Streams /\ Head(queue).stream \in Elems(streams)
           /\ \A i \in 1..Len(queue') : /\ queue'[i] = queue[i + 1]
                                        /\ i + 1 \in 1..Len(queue)
                                        /\ queue'[i].stream \in Streams
                                        /\ queue'[i].first \in Nat
                                        /\ queue'[i].last \in Nat
           /\ \A i \in 1..Len(queue) :
                i = 1 \/ (i - 1 \in 1..Len(queue') /\ queue'[i - 1] = queue[i])
           /\ \A s \in Streams : s # Head(queue).stream \/ Head(queue).kind = "rows" =>
                (HasSentinel(s)' <=> HasSentinel(s))
           /\ Head(queue).kind # "rows" =>
                \A i \in 1..Len(queue') : queue'[i].stream # Head(queue).stream
<1> DEFINE h == Head(queue)
<1>1. /\ Len(queue') = Len(queue) - 1
      /\ h = queue[1] /\ 1 \in 1..Len(queue)
      /\ \A i \in 1..Len(queue') : queue'[i] = queue[i + 1] /\ i + 1 \in 1..Len(queue)
      /\ \A i \in 1..Len(queue) : i = 1 \/ (i - 1 \in 1..Len(queue') /\ queue'[i - 1] = queue[i])
  BY Take
<1> HIDE DEF h
<1>2. h.stream \in Streams /\ h.stream \in Elems(streams)
  <2>1. h.stream \in Streams
    BY <1>1, QueueItems
  <2> QED  BY <1>1, <2>1 DEF IterInv, WorkerInv, PlaceInv
<1>3. \A i \in 1..Len(queue') : /\ queue'[i].stream \in Streams
                                /\ queue'[i].first \in Nat
                                /\ queue'[i].last \in Nat
  BY <1>1, QueueItems
<1>4. \A s \in Streams : s # h.stream \/ h.kind = "rows" =>
          (HasSentinel(s)' <=> HasSentinel(s))
  <2> SUFFICES ASSUME NEW s \in Streams, s # h.stream \/ h.kind = "rows"
               PROVE  HasSentinel(s)' <=> HasSentinel(s)
    OBVIOUS
  <2>1. ASSUME HasSentinel(s)  PROVE HasSentinel(s)'
    <3>1. PICK i \in 1..Len(queue) : queue[i].stream = s /\ queue[i].kind # "rows"
      BY <2>1 DEF HasSentinel
    <3>2. i # 1
      BY <1>1, <3>1
    <3>3. i - 1 \in 1..Len(queue') /\ queue'[i - 1] = queue[i]
      BY <1>1, <3>2
    <3> QED  BY <3>1, <3>3 DEF HasSentinel
  <2>2. ASSUME HasSentinel(s)'  PROVE HasSentinel(s)
    BY <1>1, <2>2 DEF HasSentinel
  <2> QED  BY <2>1, <2>2
<1>5. ASSUME h.kind # "rows", NEW i \in 1..Len(queue')
      PROVE  queue'[i].stream # h.stream
  <2>1. i + 1 \in 1..Len(queue) /\ queue'[i] = queue[i + 1] /\ ~(i + 1 <= 1)
    BY <1>1
  <2>2. queue[1].stream = queue[i + 1].stream => i + 1 <= 1
    BY <1>1, <1>5, <2>1 DEF IterInv, SentinelInv
  <2> QED  BY <1>1, <2>1, <2>2
<1> QED  BY <1>1, <1>2, <1>3, <1>4, <1>5 DEF h

(* A chunk taken is the next one of its stream.                              *)
LEMMA HeadIsNext ==
    ASSUME IterTypeOK, IterInv, queue # <<>>, Head(queue).kind = "rows"
    PROVE  Head(queue).first = delivered[Head(queue).stream] + 1
<1> DEFINE h == Head(queue)
           s == h.stream
<1>1. h = queue[1] /\ 1 \in 1..Len(queue)
  BY DEF IterTypeOK
<1> HIDE DEF h
<1>2. s \in Streams /\ h.first \in Nat /\ h.last \in Nat
  BY <1>1, QueueItems
<1>3. delivered[s] \in Nat /\ pos[s] \in Nat
  BY <1>2 DEF IterTypeOK
<1>4. delivered[s] < h.first /\ h.first <= h.last /\ h.last <= pos[s]
  BY <1>1 DEF IterInv, ChunkInv, h
<1>5. delivered[s] + 1 \in (delivered[s] + 1)..pos[s]
  BY <1>2, <1>3, <1>4
<1>6. PICK i \in 1..Len(queue) : /\ queue[i].kind = "rows" /\ queue[i].stream = s
                                 /\ queue[i].first <= delivered[s] + 1
  BY <1>2, <1>5 DEF IterInv, ChunkInv
<1>7. queue[i].first \in Nat
  BY QueueItems
<1>8. CASE i = 1
  BY <1>1, <1>2, <1>3, <1>4, <1>6, <1>8
<1>9. CASE i # 1
  <2>1. h.last < queue[i].first
    BY <1>1, <1>6, <1>9 DEF IterInv, ChunkInv, h
  <2> QED  BY <1>2, <1>3, <1>4, <1>6, <1>7, <2>1
<1> QED  BY <1>8, <1>9 DEF h
(* Yielding a chunk.                                                         *)
LEMMA GetRowsInv ==
    ASSUME IterTypeOK, IterInv, GetRows
    PROVE  IterInv'
<1> USE DEF GetRows, env
<1> DEFINE h == Head(queue)
           t == h.stream
<1>1. /\ h = queue[1] /\ 1 \in 1..Len(queue)
      /\ t \in Streams /\ t \in Elems(streams) /\ h.kind = "rows"
      /\ \A i \in 1..Len(queue') : /\ queue'[i] = queue[i + 1]
                                   /\ i + 1 \in 1..Len(queue)
                                   /\ queue'[i].stream \in Streams
                                   /\ queue'[i].first \in Nat
                                   /\ queue'[i].last \in Nat
      /\ \A i \in 1..Len(queue) :
           i = 1 \/ (i - 1 \in 1..Len(queue') /\ queue'[i - 1] = queue[i])
      /\ \A s \in Streams : HasSentinel(s)' <=> HasSentinel(s)
  BY Taken
<1>2. /\ delivered' = [delivered EXCEPT ![t] = h.last]
      /\ item' = h
  OBVIOUS
<1> HIDE DEF h
<1>3. /\ delivered \in [Streams -> 0..MaxRows] /\ pos \in [Streams -> 0..MaxRows]
      /\ h.first \in Nat /\ h.last \in Nat
      /\ \A s \in Streams : Base(s)' = Base(s)
  <2>1. h.first \in Nat /\ h.last \in Nat
    BY <1>1, QueueItems
  <2> QED  BY <2>1 DEF IterTypeOK, Base
<1>4. delivered[t] < h.first /\ h.first <= h.last /\ h.last <= pos[t]
  BY <1>1 DEF IterInv, ChunkInv
<1>5. \A s \in Streams : delivered'[s] = IF s = t THEN h.last ELSE delivered[s]
  BY <1>2, <1>3
<1>6. \A s : Ended(s)' <=> Ended(s)
  BY DEF Ended
<1>7. BacklogInv'
  BY DEF IterInv, BacklogInv, Elems
<1>8. WorkerInv'
  <2> SUFFICES ASSUME NEW s \in Streams
               PROVE  PlaceInv(s)'
    BY DEF WorkerInv
  <2>1. PlaceInv(s) /\ Elems(streams)' = Elems(streams)
    BY DEF IterInv, WorkerInv, Elems
  <2>2. wpc[s] \in {"idle", "get", "open"} =>
           s # t /\ \A i \in 1..Len(queue') : queue'[i].stream # s
    BY <1>1, <2>1 DEF PlaceInv
  <2> QED  BY <1>3, <1>5, <2>1, <2>2 DEF PlaceInv
<1>9. ChunkInv'
  <2>1. ASSUME NEW i \in 1..Len(queue'), queue'[i].kind = "rows"
        PROVE  /\ delivered'[queue'[i].stream] < queue'[i].first
               /\ queue'[i].first <= queue'[i].last
               /\ queue'[i].last <= pos[queue'[i].stream]
    <3>1. /\ delivered[queue'[i].stream] < queue'[i].first
          /\ queue'[i].first <= queue'[i].last
          /\ queue'[i].last <= pos[queue'[i].stream]
      BY <1>1, <2>1 DEF IterInv, ChunkInv
    <3>2. CASE queue'[i].stream = t
      <4>1. 1 < i + 1 /\ queue[i + 1].kind = "rows" /\ queue[1].stream = queue[i + 1].stream
        BY <1>1, <2>1, <3>2
      <4>2. h.last < queue'[i].first
        BY <1>1, <4>1 DEF IterInv, ChunkInv
      <4> QED  BY <1>5, <1>1, <3>1, <3>2, <4>2
    <3>3. CASE queue'[i].stream # t
      BY <1>1, <1>5, <3>1, <3>3
    <3> QED  BY <3>2, <3>3
  <2>2. ASSUME NEW i \in 1..Len(queue'), NEW j \in 1..Len(queue'),
               queue'[i].kind = "rows", queue'[j].kind = "rows",
               queue'[i].stream = queue'[j].stream, i < j
        PROVE  queue'[i].last < queue'[j].first
    <3>1. i + 1 < j + 1
      BY <2>2
    <3> QED  BY <1>1, <2>2, <3>1 DEF IterInv, ChunkInv
  <2>3. ASSUME NEW s \in Streams, NEW r \in (delivered'[s] + 1)..pos[s]
        PROVE  \E i \in 1..Len(queue') :
                   /\ queue'[i].kind = "rows" /\ queue'[i].stream = s
                   /\ queue'[i].first <= r /\ r <= queue'[i].last
    <3>1. r \in (delivered[s] + 1)..pos[s] /\ (s = t => ~(r <= h.last))
      BY <1>3, <1>4, <1>5, <2>3
    <3>2. PICK i \in 1..Len(queue) : /\ queue[i].kind = "rows" /\ queue[i].stream = s
                                     /\ queue[i].first <= r /\ r <= queue[i].last
      BY <3>1 DEF IterInv, ChunkInv
    <3>3. i # 1
      BY <1>1, <3>1, <3>2
    <3>4. i - 1 \in 1..Len(queue') /\ queue'[i - 1] = queue[i]
      BY <1>1, <3>3
    <3> QED  BY <3>2, <3>4
  <2>4. \A s \in Streams : wpc[s] \in {"read", "tail", "done"} => delivered'[s] <= pos[s]
    <3>1. \A s \in Streams : wpc[s] \in {"read", "tail", "done"} => delivered[s] <= pos[s]
      BY DEF IterInv, ChunkInv
    <3> QED  BY <1>3, <1>4, <1>5, <3>1
  <2>5. pos' = pos /\ wpc' = wpc
    OBVIOUS
  <2>6. \A s \in Streams : \A r \in (delivered'[s] + 1)..pos'[s] :
           \E i \in 1..Len(queue') :
               /\ queue'[i].kind = "rows" /\ queue'[i].stream = s
               /\ queue'[i].first <= r /\ r <= queue'[i].last
    BY <2>3, <2>5
  <2> HIDE DEF GetRows
  <2> QED  BY <2>1, <2>2, <2>4, <2>5, <2>6 DEF ChunkInv
<1>10. SentinelInv'
  <2>1. \A i \in 1..Len(queue') : queue'[i].kind # "rows" =>
           wpc'[queue'[i].stream] = IF queue'[i].kind = "done" THEN "done" ELSE "failed"
    BY <1>1 DEF IterInv, SentinelInv
  <2>2. ASSUME NEW i \in 1..Len(queue'), NEW j \in 1..Len(queue'),
               queue'[i].kind # "rows", queue'[i].stream = queue'[j].stream
        PROVE  j <= i
    <3>1. j + 1 <= i + 1
      BY <1>1, <2>2 DEF IterInv, SentinelInv
    <3> QED  BY <3>1
  <2>3. \A i \in 1..Len(queue') : (Ended(queue[i].stream) => HasSentinel(queue[i].stream))'
    BY <1>1, <1>6 DEF IterInv, SentinelInv
  <2>4. errors' = {s \in Elems(streams)' : wpc'[s] = "failed" /\ ~HasSentinel(s)'}
    <3>1. \A s \in Elems(streams) : s \in Streams
      <4>1. streams \in Seq(Streams)
        BY DEF IterTypeOK
      <4> QED  BY <4>1 DEF Elems
    <3>2. errors = {s \in Elems(streams) : wpc[s] = "failed" /\ ~HasSentinel(s)}
      BY DEF IterInv, SentinelInv
    <3> QED  BY <1>1, <3>1, <3>2, SMTT(20) DEF Elems
  <2> QED  BY <2>1, <2>2, <2>3, <2>4 DEF SentinelInv
<1>11. CountInv'
  <2>1. \A s \in Elems(streams) : s \in Streams
    <3>1. streams \in Seq(Streams)
      BY DEF IterTypeOK
    <3> QED  BY <3>1 DEF Elems
  <2>2. Outstanding' = Outstanding
    BY <1>1, <1>6, <2>1 DEF Outstanding, Elems
  <2> QED  BY <2>2 DEF IterInv, CountInv
<1>12. ItemInv'
  BY <1>1, <1>2, <1>4, <1>5 DEF ItemInv, Elems
<1> QED  BY <1>7, <1>8, <1>9, <1>10, <1>11, <1>12 DEF IterInv
(* Counting a sentinel: its stream is no longer outstanding, and an error is *)
(* kept under its name.                                                      *)
LEMMA GetSentinelInv ==
    ASSUME IterTypeOK, IterInv, GetSentinel
    PROVE  IterInv'
<1> USE DEF GetSentinel, env
<1> DEFINE h == Head(queue)
<1>0. PICK t \in Streams : t = h.stream
  BY Taken
<1>1. /\ h = queue[1] /\ 1 \in 1..Len(queue)
      /\ t \in Streams /\ t \in Elems(streams) /\ h.kind # "rows"
      /\ \A i \in 1..Len(queue') : /\ queue'[i] = queue[i + 1]
                                   /\ i + 1 \in 1..Len(queue)
                                   /\ queue'[i].stream \in Streams
                                   /\ queue'[i].stream # t
      /\ \A i \in 1..Len(queue) :
           i = 1 \/ (i - 1 \in 1..Len(queue') /\ queue'[i - 1] = queue[i])
      /\ \A s \in Streams : s # t => (HasSentinel(s)' <=> HasSentinel(s))
  BY Taken, <1>0
<1>2. errors' = IF h.kind = "error" THEN errors \union {t} ELSE errors
  BY <1>0 DEF Kept
<1> HIDE DEF h
<1>3. HasSentinel(t) /\ ~HasSentinel(t)'
  <2>1. HasSentinel(t)
    BY <1>0, <1>1 DEF HasSentinel
  <2>2. ~HasSentinel(t)'
    BY <1>1 DEF HasSentinel
  <2> QED  BY <2>1, <2>2
<1>4. /\ wpc[t] = IF h.kind = "done" THEN "done" ELSE "failed"
      /\ h.kind = "done" \/ h.kind = "error"
  BY <1>0, <1>1, QueueItems DEF IterInv, SentinelInv
<1>5. \A s : Ended(s)' <=> Ended(s)
  BY DEF Ended
<1>6. /\ Elems(streams)' = Elems(streams)
      /\ \A s \in Elems(streams) : s \in Streams
  <2>1. streams \in Seq(Streams)
    BY DEF IterTypeOK
  <2> QED  BY <2>1 DEF Elems
<1>7. BacklogInv'
  BY DEF IterInv, BacklogInv, Elems
<1>8. WorkerInv'
  <2> SUFFICES ASSUME NEW s \in Streams
               PROVE  PlaceInv(s)'
    BY DEF WorkerInv
  <2>1. PlaceInv(s) /\ Base(s)' = Base(s)
    BY DEF IterInv, WorkerInv, Base
  <2>2. wpc[s] \in {"idle", "get", "open"} =>
           \A i \in 1..Len(queue') : queue'[i].stream # s
    BY <1>1, <2>1 DEF PlaceInv
  <2> QED  BY <1>6, <2>1, <2>2 DEF PlaceInv
<1>9. ChunkInv'
  <2>1. ASSUME NEW i \in 1..Len(queue'), queue'[i].kind = "rows"
        PROVE  /\ delivered[queue'[i].stream] < queue'[i].first
               /\ queue'[i].first <= queue'[i].last
               /\ queue'[i].last <= pos[queue'[i].stream]
    BY <1>1, <2>1 DEF IterInv, ChunkInv
  <2>2. ASSUME NEW i \in 1..Len(queue'), NEW j \in 1..Len(queue'),
               queue'[i].kind = "rows", queue'[j].kind = "rows",
               queue'[i].stream = queue'[j].stream, i < j
        PROVE  queue'[i].last < queue'[j].first
    <3>1. i + 1 < j + 1
      BY <2>2
    <3> QED  BY <1>1, <2>2, <3>1 DEF IterInv, ChunkInv
  <2>3. ASSUME NEW s \in Streams, NEW r \in (delivered[s] + 1)..pos[s]
        PROVE  \E i \in 1..Len(queue') :
                   /\ queue'[i].kind = "rows" /\ queue'[i].stream = s
                   /\ queue'[i].first <= r /\ r <= queue'[i].last
    <3>1. PICK i \in 1..Len(queue) : /\ queue[i].kind = "rows" /\ queue[i].stream = s
                                     /\ queue[i].first <= r /\ r <= queue[i].last
      BY DEF IterInv, ChunkInv
    <3>2. i # 1
      BY <1>1, <3>1
    <3>3. i - 1 \in 1..Len(queue') /\ queue'[i - 1] = queue[i]
      BY <1>1, <3>2
    <3> QED  BY <3>1, <3>3
  <2>4. \A s \in Streams : wpc[s] \in {"read", "tail", "done"} => delivered[s] <= pos[s]
    BY DEF IterInv, ChunkInv
  <2>5. pos' = pos /\ wpc' = wpc /\ delivered' = delivered
    OBVIOUS
  <2> HIDE DEF GetSentinel
  <2> QED  BY <2>1, <2>2, <2>3, <2>4, <2>5 DEF ChunkInv
<1>10. SentinelInv'
  <2>1. \A i \in 1..Len(queue') : queue'[i].kind # "rows" =>
           wpc'[queue'[i].stream] = IF queue'[i].kind = "done" THEN "done" ELSE "failed"
    BY <1>1 DEF IterInv, SentinelInv
  <2>2. ASSUME NEW i \in 1..Len(queue'), NEW j \in 1..Len(queue'),
               queue'[i].kind # "rows", queue'[i].stream = queue'[j].stream
        PROVE  j <= i
    <3>1. j + 1 <= i + 1
      BY <1>1, <2>2 DEF IterInv, SentinelInv
    <3> QED  BY <3>1
  <2>3. \A i \in 1..Len(queue') : (Ended(queue[i].stream) => HasSentinel(queue[i].stream))'
    BY <1>1, <1>5 DEF IterInv, SentinelInv
  <2>4. errors' = {s \in Elems(streams) : wpc[s] = "failed" /\ ~HasSentinel(s)'}
    <3>1. errors = {s \in Elems(streams) : wpc[s] = "failed" /\ ~HasSentinel(s)}
      BY DEF IterInv, SentinelInv
    <3>2. \A s \in Elems(streams) : s \in errors' <=> wpc[s] = "failed" /\ ~HasSentinel(s)'
      <4> SUFFICES ASSUME NEW s \in Elems(streams)
                   PROVE  s \in errors' <=> wpc[s] = "failed" /\ ~HasSentinel(s)'
        OBVIOUS
      <4>1. CASE s = t
        BY <1>2, <1>3, <1>4, <3>1, <4>1
      <4>2. CASE s # t
        BY <1>1, <1>2, <1>6, <3>1, <4>2
      <4> QED  BY <4>1, <4>2
    <3>3. errors' \subseteq Elems(streams)
      BY <1>1, <1>2, <3>1
    <3> QED  BY <3>2, <3>3
  <2>5. wpc' = wpc
    OBVIOUS
  <2> HIDE DEF GetSentinel
  <2> QED  BY <1>6, <2>1, <2>2, <2>3, <2>4, <2>5 DEF SentinelInv
<1>11. CountInv'
  <2>1. Outstanding \subseteq Streams /\ IsFiniteSet(Outstanding)
    BY <1>6, StreamsAssumption, FS_Subset DEF Outstanding
  <2>2. t \in Outstanding
    BY <1>1, <1>3 DEF Outstanding
  <2>3. Outstanding' = Outstanding \ {t}
    <3>1. Ended(t)
      BY <1>4 DEF Ended
    <3>2. ~(~Ended(t) \/ HasSentinel(t))'
      BY <1>3, <1>5, <3>1
    <3>3. \A s \in Elems(streams) : s # t =>
             ((~Ended(s) \/ HasSentinel(s))' <=> (~Ended(s) \/ HasSentinel(s)))
      BY <1>1, <1>5, <1>6
    <3> QED  BY <1>1, <1>6, <3>2, <3>3 DEF Outstanding
  <2>4. Cardinality(Outstanding') = Cardinality(Outstanding) - 1
    BY <2>1, <2>2, <2>3, FS_RemoveElement
  <2>5. remaining' = remaining - 1 /\ iter' = "running"
    BY DEF Counted
  <2> QED  BY <2>4, <2>5 DEF IterInv, CountInv
<1>12. ItemInv'
  BY DEF ItemInv
<1> QED  BY <1>7, <1>8, <1>9, <1>10, <1>11, <1>12 DEF IterInv
(* Every step of a worker.                                                   *)
LEMMA WorkerStepInv ==
    ASSUME IterTypeOK, IterInv, NEW t \in Streams, Worker(t)
    PROVE  IterInv'
<1>1. CASE PutChunk(t)
  <2>1. /\ pos[t] \in Nat /\ last[t] \in 0..MaxRows /\ ChunkSize \in Nat \ {0}
        /\ pos[t] + ChunkSize <= last[t]
    BY <1>1 DEF PutChunk, IterTypeOK
  <2>2. pos[t] + ChunkSize \in 0..MaxRows /\ pos[t] < pos[t] + ChunkSize
    BY <2>1
  <2>3. pos' = [pos EXCEPT ![t] = pos[t] + ChunkSize]
    BY <1>1 DEF PutChunk
  <2> QED  BY <1>1, <2>1, <2>2, <2>3, PutRowsInv DEF PutChunk
<1>2. CASE PutTail(t)
  <2>1. last[t] \in 0..MaxRows /\ pos[t] < last[t] /\ last[t] <= last[t]
    BY <1>2 DEF PutTail, IterTypeOK
  <2> QED  BY <1>2, <2>1, PutRowsInv DEF PutTail, TailOf
<1>3. CASE PutDone(t)
  <2> DEFINE x == StreamDone(t)
  <2>1. x \in Items
    BY ItemTypes
  <2>2. x.stream = t /\ x.kind = "done"
    BY DEF StreamDone
  <2>3. /\ wpc[t] = "tail" /\ pos[t] = last[t]
        /\ queue' = Append(queue, x) /\ wpc' = [wpc EXCEPT ![t] = "done"]
    BY <1>3 DEF PutDone, Drained
  <2> HIDE DEF x
  <2> QED  BY <1>3, <2>1, <2>2, <2>3, PutSentinelInv DEF PutDone
<1>4. CASE PutError(t)
  <2> DEFINE x == StreamError(t)
  <2>1. x \in Items
    BY ItemTypes
  <2>2. x.stream = t /\ x.kind = "error"
    BY DEF StreamError
  <2>3. /\ wpc[t] = "raising"
        /\ queue' = Append(queue, x) /\ wpc' = [wpc EXCEPT ![t] = "failed"]
    BY <1>4 DEF PutError
  <2> HIDE DEF x
  <2> QED  BY <1>4, <2>1, <2>2, <2>3, PutSentinelInv DEF PutError
<1>5. CASE PickUp(t) \/ GetState(t) \/ OpenRead(t) \/ Exhaust(t) \/ Raise(t)
  BY <1>5, PickUpInv, GetStateInv, OpenReadInv, ExhaustInv, RaiseInv
<1> QED  BY <1>1, <1>2, <1>3, <1>4, <1>5 DEF Worker

(* Every step of the main thread on the iterator.                            *)
LEMMA IterateInv ==
    ASSUME IterTypeOK, IterInv, Iterate
    PROVE  IterInv'
BY GetRowsInv, GetSentinelInv, IterEndInv DEF Iterate

(* What the invariant says once the loop of __iter__ is over.                *)
LEMMA AtTheEnd ==
    ASSUME IterTypeOK, IterInv, IterOver
    PROVE  EveryRowYielded /\ NothingLeftBehind /\ ErrorsAreTheFailures
<1>1. /\ Elems(streams) \subseteq Streams
      /\ \A i \in 1..Len(queue) : queue[i].stream \in Streams
      /\ queue \in Seq(Items) /\ backlog \in Seq(Streams)
  <2>1. streams \in Seq(Streams) /\ queue \in Seq(Items) /\ backlog \in Seq(Streams)
    BY DEF IterTypeOK
  <2> QED  BY <2>1, QueueItems DEF Elems
<1>2. Outstanding = {}
  <2>1. IsFiniteSet(Outstanding)
    BY <1>1, StreamsAssumption, FS_Subset DEF Outstanding
  <2>2. Cardinality(Outstanding) = 0
    BY DEF IterOver, IterInv, CountInv
  <2> QED  BY <2>1, <2>2, FS_EmptySet
<1>3. \A s \in Elems(streams) : Ended(s) /\ ~HasSentinel(s)
  BY <1>2 DEF Outstanding
<1>4. \A s \in Streams : s \notin Elems(streams) => wpc[s] = "idle"
  BY DEF IterInv, WorkerInv, PlaceInv
<1>5. \A i \in 1..Len(queue) : FALSE
  <2> SUFFICES ASSUME NEW i \in 1..Len(queue)  PROVE FALSE
    OBVIOUS
  <2>1. queue[i].stream \in Elems(streams)
    BY <1>1, <1>4 DEF IterInv, WorkerInv, PlaceInv
  <2>2. HasSentinel(queue[i].stream)
    BY <1>3, <2>1 DEF IterInv, SentinelInv
  <2> QED  BY <1>3, <2>1, <2>2
<1>6. queue = <<>>
  BY <1>1, <1>5
<1>7. Running = {}
  BY <1>3, <1>4 DEF Running, Ended
<1>8. backlog = <<>>
  <2>1. \A i \in 1..Len(backlog) : FALSE
    BY <1>3 DEF IterInv, BacklogInv, Ended
  <2> QED  BY <1>1, <2>1
<1>9. ErrorsAreTheFailures
  BY <1>3 DEF ErrorsAreTheFailures, IterInv, SentinelInv
<1>10. ASSUME NEW s \in Elems(streams), s \notin errors
       PROVE  delivered[s] = last[s] /\ state[s] = last[s]
  <2>1. s \in Streams /\ wpc[s] = "done"
    BY <1>1, <1>3, <1>10 DEF IterInv, SentinelInv, Ended
  <2>2. state[s] = last[s] /\ pos[s] = last[s] /\ delivered[s] <= pos[s]
    BY <2>1 DEF IterInv, WorkerInv, PlaceInv, ChunkInv
  <2>3. delivered[s] \in Nat /\ pos[s] \in Nat
    BY <2>1 DEF IterTypeOK
  <2>4. (delivered[s] + 1)..pos[s] = {}
    BY <1>5, <2>1 DEF IterInv, ChunkInv
  <2> QED  BY <2>2, <2>3, <2>4
<1> QED  BY <1>6, <1>7, <1>8, <1>9, <1>10 DEF EveryRowYielded, NothingLeftBehind

-----------------------------------------------------------------------------
(* Theorems about the iterator on its own.                                   *)

(* The state before the iterator is built.                                   *)
LEMMA InitInv ==
    ASSUME ExtractInit
    PROVE  IterTypeOK /\ IterInv
<1>1. IterTypeOK
  BY DEF ExtractInit, InitIter, Idle, Zero, IterTypeOK
<1>2. Len(queue) = 0 /\ streams = <<>> /\ Elems(streams) = {} /\ Len(backlog) = 0
  BY DEF ExtractInit, InitIter, Elems
<1>3. BacklogInv
  BY <1>2 DEF BacklogInv
<1>4. WorkerInv
  BY <1>2 DEF WorkerInv, PlaceInv, ExtractInit, InitIter, Idle, Zero, Base
<1>5. ChunkInv
  <2>1. \A s \in Streams : (delivered[s] + 1)..pos[s] = {}
    BY DEF ExtractInit, InitIter, Zero
  <2> QED  BY <1>2, <2>1 DEF ChunkInv, ExtractInit, InitIter, Idle
<1>6. SentinelInv
  BY <1>2 DEF SentinelInv, ExtractInit, InitIter
<1>7. CountInv
  BY <1>2, FS_EmptySet DEF CountInv, Outstanding, ExtractInit, InitIter
<1>8. ItemInv
  BY DEF ItemInv, ExtractInit, InitIter
<1> QED  BY <1>1, <1>3, <1>4, <1>5, <1>6, <1>7, <1>8 DEF IterInv

(* Steps elsewhere.                                                          *)
LEMMA SameIter ==
    ASSUME IterInv, UNCHANGED <<env, iterVars>>
    PROVE  IterInv'
<1> USE DEF env, iterVars, IterInv
<1>1. BacklogInv' /\ ItemInv'
  BY DEF BacklogInv, ItemInv, Elems
<1>2. WorkerInv'
  BY DEF WorkerInv, PlaceInv, Base, Elems
<1>3. ChunkInv'
  BY DEF ChunkInv
<1>4. SentinelInv'
  BY DEF SentinelInv, Ended, HasSentinel, Elems
<1>5. CountInv'
  BY DEF CountInv, Outstanding, Ended, HasSentinel, Elems
<1> QED  BY <1>1, <1>2, <1>3, <1>4, <1>5

(* Each step of the iterator's specification keeps types and invariant.      *)
LEMMA StepInv ==
    ASSUME IterTypeOK, IterInv, [ExtractNext]_extractVars
    PROVE  IterTypeOK' /\ IterInv'
<1>1. CASE Build
  <2>1. PICK list \in Requests : Enter(list)
    BY <1>1 DEF Build
  <2>2. /\ list \in Seq(Streams) /\ UNCHANGED env
        /\ \A i, j \in 1..Len(list) : list[i] = list[j] => i = j
    BY <1>1, RequestsAssumption DEF Build
  <2>3. \A s \in Streams : store[s] <= source[s]
    BY DEF IterInv, WorkerInv, PlaceInv
  <2> QED  BY <2>1, <2>2, <2>3, EnterType, EnterInv
<1>2. CASE Iterate
  BY <1>2, MainTypes, IterateInv
<1>3. CASE ConsumerResumes
  BY <1>3, MainTypes, ResumeInv DEF ConsumerResumes
<1>4. CASE ConsumerLeaves
  BY <1>4, MainTypes, CloseInv DEF ConsumerLeaves
<1>5. ASSUME NEW s \in Streams, Worker(s)
      PROVE  IterTypeOK' /\ IterInv'
  BY <1>5, WorkerTypes, WorkerStepInv
<1>6. ASSUME NEW s \in Streams, Grow(s)
      PROVE  IterTypeOK' /\ IterInv'
  <2>1. IterInv'
    BY <1>6, GrowInv DEF Grow
  <2>2. source' \in [Streams -> 0..MaxRows]
    BY <1>6 DEF Grow, IterTypeOK
  <2> QED  BY <1>6, <2>1, <2>2 DEF Grow, iterVars, IterTypeOK
<1>7. CASE UNCHANGED extractVars
  <2>1. IterTypeOK'
    BY <1>7 DEF extractVars, env, iterVars, IterTypeOK
  <2> QED  BY <1>7, <2>1, SameIter DEF extractVars
<1> QED  BY <1>1, <1>2, <1>3, <1>4, <1>5, <1>6, <1>7 DEF ExtractNext, Finished, extractVars

(* The state of the iterator has its types.                                  *)
THEOREM IterTypeCorrect == ExtractSpec => []IterTypeOK
<1>1. ExtractInit => IterTypeOK /\ IterInv
  BY InitInv
<1>2. (IterTypeOK /\ IterInv) /\ [ExtractNext]_extractVars => (IterTypeOK /\ IterInv)'
  BY StepInv
<1> QED  BY <1>1, <1>2, PTL DEF ExtractSpec

(* The places of the workers, the queue, the count and the backlog agree:    *)
(* the inductive invariant the results below rest on.                        *)
THEOREM IterInvariant == ExtractSpec => []IterInv
<1>1. ExtractInit => IterTypeOK /\ IterInv
  BY InitInv
<1>2. (IterTypeOK /\ IterInv) /\ [ExtractNext]_extractVars => (IterTypeOK /\ IterInv)'
  BY StepInv
<1> QED  BY <1>1, <1>2, PTL DEF ExtractSpec

(* Whenever the loop of __iter__ is over, each stream not reported as an     *)
(* error has yielded all of its result set, up to the watermark get_state    *)
(* returns.                                                                  *)
THEOREM AllRowsYielded == ExtractSpec => []EveryRowYielded
<1>1. IterTypeOK /\ IterInv => EveryRowYielded
  BY AtTheEnd DEF EveryRowYielded
<1> QED  BY <1>1, IterTypeCorrect, IterInvariant, PTL

(* The count of anonymous sentinels is reached only when no thread runs and  *)
(* nothing is left on the queue.                                             *)
THEOREM CountIsEnough == ExtractSpec => []NothingLeftBehind
<1>1. IterTypeOK /\ IterInv => NothingLeftBehind
  BY AtTheEnd DEF NothingLeftBehind
<1> QED  BY <1>1, IterTypeCorrect, IterInvariant, PTL

(* No worker's failure is missed, and none is invented.                      *)
THEOREM NoFailureMissed == ExtractSpec => []ErrorsAreTheFailures
<1>1. IterTypeOK /\ IterInv => ErrorsAreTheFailures
  BY AtTheEnd DEF ErrorsAreTheFailures
<1> QED  BY <1>1, IterTypeCorrect, IterInvariant, PTL

(* The chunks of a stream reach the consumer in cursor order, with no gap.   *)
THEOREM OrderKept == ExtractSpec => YieldsInOrder
<1> DEFINE Step == item' # item /\ item' # <<>> =>
                       item'.first = delivered[item'.stream] + 1
<1>1. ASSUME IterTypeOK, IterInv, [ExtractNext]_extractVars
      PROVE  Step
  <2>1. CASE GetRows
    BY <1>1, <2>1, HeadIsNext DEF GetRows
  <2>2. CASE ~GetRows
    BY <1>1, <2>2 DEF ExtractNext, Build, Enter, Iterate, GetSentinel, IterEnd,
           ConsumerResumes, Resume, ConsumerLeaves, Close, Worker, PickUp, GetState,
           OpenRead, PutChunk, Exhaust, PutTail, PutDone, Raise, PutError, Grow,
           Finished, extractVars, iterVars
  <2> QED  BY <2>1, <2>2
<1>2. IterTypeOK /\ IterInv /\ [ExtractNext]_extractVars => [Step]_extractVars
  BY <1>1
<1> HIDE DEF Step
<1>3. ExtractSpec => [][Step]_extractVars
  BY <1>2, IterTypeCorrect, IterInvariant, PTL DEF ExtractSpec
<1> QED  BY <1>3 DEF YieldsInOrder, Step
=============================================================================
