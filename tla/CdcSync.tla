------------------------------ MODULE CdcSync ------------------------------
(* Change data capture of one table: CacheSource._read_mirror of             *)
(* fflow/sources/cache.py read through Pipeline.run into a merge stream.     *)
(* Every change of a source row appends an event to STTRACKCHANGE, numbered  *)
(* 1, 2, ... by STTRCID.  The first run scans the table; a later run reads   *)
(* the events at or above the stored STTRCID joined with the rows as they    *)
(* are when they are fetched.  The destination merges the batch.  With       *)
(* use_shuttle a program of its own copies the table on the first run, past  *)
(* the destination; without a cursor every run scans the table.              *)
(*                                                                           *)
(* A table is a function from keys to sets of row contents; a content is the *)
(* STTRCID of the write that made it, 0 for rows older than the log, Blank   *)
(* for a row of NULLs.  A table keyed as it should be has at most one        *)
(* content per key.                                                          *)
EXTENDS Integers, Sequences

CONSTANTS
    Keys,          \* primary keys
    Modes,         \* how the table may be read: "log", "shuttle" for the log after
                   \* a first run by the shuttle, "none" without a cursor
    Dialect,       \* the destination: "mssql", or "sql" for SQLDestination
    FullRefresh,   \* the values run() is called with for full_refresh
    Faults,        \* what may go wrong: "read", "commit", "ack", "set", "crash"
    Blank,         \* the content of a row of NULLs
    Unset,         \* no STTRCID in the state
    MaxCid,        \* bound: events, for each mode
    MaxFaults      \* bound: faults

ASSUME CdcAssumption ==
    /\ Modes \subseteq {"log", "shuttle", "none"}
    /\ Dialect \in {"mssql", "sql"}
    /\ FullRefresh \subseteq BOOLEAN
    /\ Faults \subseteq {"read", "commit", "ack", "set", "crash"}
    /\ Blank \notin Nat
    /\ Unset \notin Nat
    /\ MaxCid \in [Modes -> Nat]
    /\ MaxFaults \in Nat

VARIABLES
    mode,      \* cursor_type and use_shuttle of the stream
    source,    \* the source table
    log,       \* STTRACKCHANGE: log[cid] is the event numbered cid
    target,    \* the destination table
    doubled,   \* the keys some row of which is in the destination more than once
    store,     \* the STTRCID in the state store
    phase,     \* where run() is
    cursor,    \* current_cursor of _read_mirror
    preMax,    \* pre_max_cid of a first run
    snap,      \* last event the query of an incremental run sees
    unread,    \* keys whose row the query has still to fetch
    batch,     \* the rows buffered by the destination
    state,     \* the STTRCID in the state dict
    faults,    \* faults so far
    scanned,   \* history: the batch comes from a scan of the table here
    reloaded   \* history: the table was loaded again into one that held rows

external == <<mode, source, log>>
vars == <<external, target, doubled, store, phase, cursor, preMax, snap, unread,
          batch, state, faults, scanned, reloaded>>

-----------------------------------------------------------------------------

MaxOf(S) == CHOOSE n \in S : \A m \in S : m <= n

(* The events of k from STTRCID c on, up to n.                               *)
Events(k, c, n) == {i \in c..n : i > 0 /\ log[i].key = k}
Updates(k, c, n) == {i \in Events(k, c, n) : log[i].op # "D"}
Deletes(k, c, n) == {i \in Events(k, c, n) : log[i].op = "D"}

(* Rows of the result set.  A row of a scan has neither STTRCID nor          *)
(* STTRCTRIGGER; dedup orders it by COALESCE(STTRCID, 0).                    *)
Row(k, content, cid, op) == [key |-> k, content |-> content, cid |-> cid, op |-> op]
ScanRows(k) == {Row(k, v, 0, "none") : v \in source[k]}
UpdateRows(k) == {Row(k, v, MaxOf(Updates(k, cursor, snap)), "U") : v \in source[k]}
DeleteRows(n) ==
    {Row(k, Blank, MaxOf(Deletes(k, cursor, n)), "D") :
        k \in {k \in Keys : Deletes(k, cursor, n) # {}}}

(* The watermark of a first run; without a cursor the state stays empty.     *)
FirstWatermarkLate == Len(log)
FirstWatermarkZero == 0
FirstWatermarkMinusOne == preMax - 1
FirstWatermark == IF mode = "none" THEN Unset ELSE preMax

(* The watermark of an incremental run: max_seen, if a row was seen at all.  *)
NextWatermark == IF batch = {} THEN cursor ELSE MaxOf({r.cid : r \in batch})

(* The row of k that survives ROW_NUMBER() OVER (PARTITION BY merge_key      *)
(* ORDER BY COALESCE(STTRCID, 0) DESC) = 1.                                  *)
Of(k) == {r \in batch : r.key = k}
WinnerOldest(k) == CHOOSE r \in Of(k) : \A q \in Of(k) : r.cid <= q.cid
Winner(k) == CHOOSE r \in Of(k) : \A q \in Of(k) : q.cid <= r.cid

(* MSSQLDestination._commit_merge: dedup, delete every key of the batch,     *)
(* insert what is not a delete.                                              *)
MergedMSSQLUndeleted(k) == {Winner(k).content}
MergedMSSQL(k) == IF Winner(k).op = "D" THEN {} ELSE {Winner(k).content}

(* SQLDestination._commit_merge, and Redshift's: delete every key of the     *)
(* batch, insert the batch.                                                  *)
MergedSQL(k) == {r.content : r \in Of(k)}

Merged ==
    [k \in Keys |->
        IF Of(k) = {} THEN target[k]
        ELSE IF Dialect = "mssql" THEN MergedMSSQL(k) ELSE MergedSQL(k)]

(* A table that held rows before the log began.                              *)
Init ==
    /\ source \in [Keys -> {{}, {0}}]
    /\ log = <<>>
    /\ mode \in Modes
    /\ target = [k \in Keys |-> {}]
    /\ doubled = {}
    /\ store = Unset
    /\ phase = "idle"
    /\ cursor = Unset
    /\ preMax = 0
    /\ snap = 0
    /\ unread = {}
    /\ batch = {}
    /\ state = Unset
    /\ faults = 0
    /\ scanned = FALSE
    /\ reloaded = FALSE

-----------------------------------------------------------------------------
(* The source: a row is written or deleted, and its trigger logs the event.  *)

Write(k) ==
    /\ Len(log) < MaxCid[mode]
    /\ log' = Append(log, [key |-> k, op |-> "U"])
    /\ source' = [source EXCEPT ![k] = {Len(log) + 1}]
    /\ UNCHANGED <<mode, target, doubled, store, phase, cursor, preMax, snap, unread, batch,
                   state, faults, scanned, reloaded>>

Delete(k) ==
    /\ Len(log) < MaxCid[mode]
    /\ source[k] # {}
    /\ log' = Append(log, [key |-> k, op |-> "D"])
    /\ source' = [source EXCEPT ![k] = {}]
    /\ UNCHANGED <<mode, target, doubled, store, phase, cursor, preMax, snap, unread, batch,
                   state, faults, scanned, reloaded>>

-----------------------------------------------------------------------------
(* One run of the stream.                                                    *)

(* prepare_stream, and the state store is read unless full_refresh.          *)
Begin(full) ==
    /\ phase = "idle"
    /\ cursor' = IF full THEN Unset ELSE store
    /\ state' = cursor'
    /\ batch' = {}
    /\ phase' = "read"
    /\ UNCHANGED <<external, target, doubled, store, preMax, snap, unread, faults,
                   scanned, reloaded>>

(* First run: SELECT MAX(STTRCID), then a SELECT over the table, here or in  *)
(* the shuttle.                                                              *)
ReadPreMax ==
    /\ phase = "read" /\ cursor = Unset
    /\ preMax' = IF mode = "none" THEN preMax ELSE Len(log)
    /\ unread' = Keys
    /\ scanned' = (mode # "shuttle")
    /\ phase' = IF mode = "shuttle" THEN "shuttle" ELSE "scan"
    /\ UNCHANGED <<external, target, doubled, store, cursor, snap, batch, state, faults, reloaded>>

(* The generator returns, and its locals are gone.                           *)
Return ==
    /\ phase' = "loaded"
    /\ cursor' = Unset
    /\ preMax' = 0
    /\ snap' = 0
    /\ UNCHANGED <<external, target, doubled, store, unread, batch, faults, scanned, reloaded>>

(* A row is fetched, yielded and buffered.                                   *)
ScanRow(k) ==
    /\ phase = "scan" /\ k \in unread
    /\ unread' = unread \ {k}
    /\ batch' = batch \union ScanRows(k)
    /\ UNCHANGED <<external, target, doubled, store, phase, cursor, preMax, snap, state,
                   faults, scanned, reloaded>>

ScanEnd ==
    /\ phase = "scan" /\ unread = {}
    /\ state' = FirstWatermark
    /\ Return

(* The shuttle inserts a row into the target, which nothing rolls back.      *)
ShuttleRow(k) ==
    /\ phase = "shuttle" /\ k \in unread
    /\ unread' = unread \ {k}
    /\ target' = [target EXCEPT ![k] = @ \union source[k]]
    /\ doubled' = IF source[k] \intersect target[k] = {} THEN doubled ELSE doubled \union {k}
    /\ reloaded' = (reloaded \/ target[k] # {})
    /\ UNCHANGED <<external, store, phase, cursor, preMax, snap, batch, state,
                   faults, scanned>>

(* The shuttle exits with 0, and the stream yields no row.                   *)
ShuttleEnd ==
    /\ phase = "shuttle" /\ unread = {}
    /\ state' = FirstWatermark
    /\ Return

(* Incremental run: both halves of the UNION ALL see the same events.        *)
RunQuery ==
    /\ phase = "read" /\ cursor # Unset
    /\ snap' = Len(log)
    /\ unread' = {k \in Keys : Updates(k, cursor, Len(log)) # {}}
    /\ batch' = DeleteRows(Len(log))
    /\ scanned' = FALSE
    /\ phase' = "join"
    /\ UNCHANGED <<external, target, doubled, store, cursor, preMax, state, faults, reloaded>>

(* The row of an updated key is fetched, if it still exists.                 *)
JoinRow(k) ==
    /\ phase = "join" /\ k \in unread
    /\ unread' = unread \ {k}
    /\ batch' = batch \union UpdateRows(k)
    /\ UNCHANGED <<external, target, doubled, store, phase, cursor, preMax, snap, state,
                   faults, scanned, reloaded>>

JoinEnd ==
    /\ phase = "join" /\ unread = {}
    /\ state' = NextWatermark
    /\ Return

(* The batch lands in one transaction.                                       *)
Land ==
    /\ target' = Merged
    /\ doubled' = {k \in doubled : Of(k) = {}}
    /\ reloaded' = (reloaded \/ (scanned /\ \E k \in Keys : target[k] # {}))

Commit ==
    /\ phase = "loaded"
    /\ Land
    /\ batch' = {}
    /\ phase' = "landed"
    /\ UNCHANGED <<external, store, cursor, preMax, snap, unread, state, faults, scanned>>

SetState ==
    /\ phase = "landed"
    /\ store' = state
    /\ phase' = "idle"
    /\ UNCHANGED <<external, target, doubled, cursor, preMax, snap, unread, batch, state,
                   faults, scanned, reloaded>>

-----------------------------------------------------------------------------
(* Faults.  Each one ends the run without the state being stored.            *)

Fault(kind) ==
    /\ kind \in Faults /\ faults < MaxFaults
    /\ faults' = faults + 1
    /\ phase' = "idle"
    /\ cursor' = Unset /\ preMax' = 0 /\ snap' = 0
    /\ unread' = {} /\ batch' = {}
    /\ state' = Unset
    /\ UNCHANGED <<external, store, scanned>>

(* The worker raises: the stream is rolled back.                             *)
ReadFails ==
    /\ phase \in {"read", "scan", "shuttle", "join"}
    /\ Fault("read")
    /\ UNCHANGED <<target, doubled, reloaded>>

CommitFails == phase = "loaded" /\ Fault("commit") /\ UNCHANGED <<target, doubled, reloaded>>

(* The database commits, and the connection fails before it can say so.      *)
AckLost == phase = "loaded" /\ Fault("ack") /\ Land

SetFails == phase = "landed" /\ Fault("set") /\ UNCHANGED <<target, doubled, reloaded>>

Crash == phase # "idle" /\ Fault("crash") /\ UNCHANGED <<target, doubled, reloaded>>

(* The steps of run() once it has begun.                                     *)
Step ==
    \/ ReadPreMax
    \/ \E k \in Keys : ScanRow(k) \/ ShuttleRow(k)
    \/ ScanEnd
    \/ ShuttleEnd
    \/ RunQuery
    \/ \E k \in Keys : JoinRow(k)
    \/ JoinEnd
    \/ Commit
    \/ SetState

Next ==
    \/ \E k \in Keys : Write(k) \/ Delete(k)
    \/ \E full \in FullRefresh : Begin(full)
    \/ Step
    \/ ReadFails
    \/ CommitFails
    \/ AckLost
    \/ SetFails
    \/ Crash

Spec == Init /\ [][Next]_vars

(* A run that has begun goes on, and the scheduler starts another one after  *)
(* each, as ADR-0006 takes for granted ("the next scheduled run").           *)
FairSpec == Spec /\ WF_vars(Step) /\ WF_vars(Begin(FALSE))
-----------------------------------------------------------------------------
(* Properties.                                                               *)

RowType == [key : Keys, content : Nat \union {Blank}, cid : Nat, op : {"none", "U", "D"}]

(* The types of the source, the log, the destination and the run.            *)
CdcTypeOK ==
    /\ mode \in Modes
    /\ source \in [Keys -> SUBSET Nat]
    /\ doubled \subseteq Keys
    /\ log \in Seq([key : Keys, op : {"U", "D"}])
    /\ target \in [Keys -> SUBSET (Nat \union {Blank})]
    /\ store \in Nat \union {Unset}
    /\ phase \in {"idle", "read", "scan", "shuttle", "join", "loaded", "landed"}
    /\ cursor \in Nat \union {Unset}
    /\ preMax \in Nat
    /\ snap \in Nat
    /\ unread \subseteq Keys
    /\ batch \subseteq RowType
    /\ state \in Nat \union {Unset}
    /\ faults \in 0..MaxFaults
    /\ scanned \in BOOLEAN
    /\ reloaded \in BOOLEAN

(* The next incremental run will read an event of k.                         *)
Pending(k) == Events(k, store, Len(log)) # {}

(* The destination holds the row of k as it is in the source.  A shuttle     *)
(* that loads the table again leaves the older row beside it.                *)
UpToDate(k) ==
    /\ source[k] \subseteq target[k]
    /\ (mode = "shuttle" /\ reloaded) \/ target[k] \subseteq source[k]

(* No change is skipped: once a watermark is stored, a row of the source     *)
(* that the destination does not hold as it is has an event the next run     *)
(* reads.  The scan of a first run is not atomic and the rows of the join    *)
(* are fetched one by one while the table changes.                           *)
NoChangeSkipped ==
    store # Unset =>
        \A k \in Keys : source[k] # {} /\ ~UpToDate(k) => Pending(k)

(* No delete is skipped either: a row the source no longer has, or has only  *)
(* once, is on its way out, as long as the table was not loaded again into   *)
(* one that held rows.  A retry does so, of a first run that failed between  *)
(* its rows landing and its state being stored: with the shuttle its rows    *)
(* land one by one while it runs.                                            *)
NoDeleteSkipped ==
    store # Unset /\ ~reloaded =>
        \A k \in Keys : (source[k] = {} /\ target[k] # {}) \/ k \in doubled => Pending(k)

(* The destination never goes back in time: what comes to be in it is newer  *)
(* than what was there, and a row goes only for a newer one or if it was     *)
(* deleted after it was written.                                             *)
RowsOnlyMoveForward ==
    [][\A k \in Keys : \A v \in target[k] :
          /\ \A w \in target'[k] \ target[k] : w > v
          /\ v \notin target'[k] => target'[k] # {} \/ Deletes(k, v, Len(log)) # {}]_vars

(* The stored STTRCID never moves back.                                      *)
CidNeverRegresses == [][store # Unset => store' # Unset /\ store' >= store]_vars

(* Redshift: "INSERT non-delete rows from staging".                          *)
OnlyRowsInserted == \A k \in Keys : Blank \notin target[k]

(* Once the source and the faults are quiet, the destination comes to hold   *)
(* every row of the source as it is, and to hold no other row and no row     *)
(* twice unless the table was loaded again into one that held rows.          *)
Converges ==
    <>[](\A k \in Keys :
           /\ source[k] # {} \/ ~reloaded => UpToDate(k)
           /\ k \in doubled => reloaded)
-----------------------------------------------------------------------------
(* The inductive invariant behind the properties.                            *)

(* No event of k from STTRCID c on.                                          *)
Quiet(k, c) == Events(k, c, Len(log)) = {}

(* A row of the source is what the last event of its key wrote, and a key    *)
(* without a row has been deleted after every event of it.                   *)
RowLogged(k) ==
    \A v \in source[k] :
        /\ v <= Len(log) /\ Quiet(k, v + 1)
        /\ v > 0 => log[v] = [key |-> k, op |-> "U"]
GoneLogged(k) ==
    source[k] = {} => \A i \in Events(k, 1, Len(log)) : Deletes(k, i, Len(log)) # {}
SourceInv ==
    \A k \in Keys : /\ RowLogged(k) /\ GoneLogged(k)
                    /\ \A v, w \in source[k] : v = w

(* Watermarks are of the log, and each one that may come to be stored is not *)
(* before the stored one.                                                    *)
NotAfter(c, n) == c # Unset => c <= n
WatermarkInv ==
    /\ NotAfter(store, Len(log)) /\ NotAfter(state, Len(log))
    /\ preMax <= Len(log) /\ snap <= Len(log)
    /\ mode = "none" => store = Unset /\ cursor = Unset /\ state = Unset
    /\ phase = "read" => cursor \in {Unset, store}
    /\ phase \in {"scan", "shuttle"} => NotAfter(store, preMax)
    /\ phase = "join" => cursor # Unset /\ cursor = store /\ cursor <= snap
    /\ phase \in {"loaded", "landed"} /\ mode # "none" =>
          state # Unset /\ NotAfter(store, state)

(* The rows of a scan: those of the keys fetched, as the source has them     *)
(* unless the log says otherwise.                                            *)
ScanInv ==
    phase = "scan" =>
        /\ scanned
        /\ \A r \in batch : r.key \notin unread /\ r.op = "none" /\ r.cid = 0
        /\ \A k \in Keys :
              /\ \A r, q \in Of(k) : r = q
              /\ k \notin unread /\ Quiet(k, preMax) =>
                    source[k] = {r.content : r \in Of(k)}

(* The rows of an incremental run: the last delete of every key, and of the  *)
(* keys fetched the row of the source with the last update, again as the     *)
(* source has it unless the log says otherwise.                              *)
JoinInv ==
    phase = "join" =>
        /\ ~scanned
        /\ \A k \in Keys :
              /\ k \in unread => Updates(k, cursor, snap) # {}
              /\ \A r \in Of(k) :
                    \/ r.op = "D" /\ r \in DeleteRows(snap)
                    \/ /\ r.op = "U" /\ k \notin unread
                       /\ Updates(k, cursor, snap) # {}
                       /\ r.cid = MaxOf(Updates(k, cursor, snap))
              /\ \A r, q \in Of(k) : r.op = "U" /\ q.op = "U" => r = q
              /\ k \notin unread /\ Updates(k, cursor, snap) # {} /\ Quiet(k, snap + 1) =>
                    source[k] = {r.content : r \in {q \in Of(k) : q.op = "U"}}
        /\ DeleteRows(snap) \subseteq batch

(* A batch is empty until the first row is fetched and after it has landed,  *)
(* and its rows of a key differ in what they do and when.                    *)
BatchInv ==
    /\ phase \in {"idle", "read", "shuttle", "landed"} => batch = {}
    /\ scanned => mode # "shuttle"
    /\ phase = "shuttle" => mode = "shuttle"
    /\ \A r \in batch : r.cid <= Len(log) /\ (r.op # "D" => r.content \in 0..Len(log))
    /\ \A k \in Keys : \A r, q \in Of(k) : r.op = q.op \/ r.cid = q.cid => r = q

ReadInv == CdcTypeOK /\ SourceInv /\ WatermarkInv /\ ScanInv /\ JoinInv /\ BatchInv

(* The destination holds of k what the source does, as far as the properties *)
(* want it to, if it holds t, doubled or not, having been loaded again or    *)
(* not.                                                                      *)
InStep(k, t, twice, again) ==
    /\ source[k] \subseteq t
    /\ source[k] # {} => (mode = "shuttle" /\ again) \/ t \subseteq source[k]
    /\ ~again => t \subseteq source[k] /\ ~twice
Synced(k) == InStep(k, target[k], k \in doubled, reloaded)
WillSync(k) ==
    InStep(k, Merged[k], k \in doubled /\ Of(k) = {},
           reloaded \/ (scanned /\ \E l \in Keys : target[l] # {}))

(* A key without an event from a watermark on is in step once the rows that  *)
(* go with the watermark have landed.                                        *)
SyncInv ==
    /\ doubled # {} => reloaded
    /\ store # Unset => \A k \in Keys : Quiet(k, store) => Synced(k)
    /\ phase = "shuttle" => \A k \in Keys \ unread : Quiet(k, preMax) => Synced(k)
    /\ phase = "loaded" /\ state # Unset => \A k \in Keys : Quiet(k, state) => WillSync(k)
    /\ phase = "landed" /\ state # Unset => \A k \in Keys : Quiet(k, state) => Synced(k)

(* What the destination holds of k the source has held, nothing in it is     *)
(* newer than a row on its way there, and a delete on its way came after     *)
(* what it takes away, unless a newer row of the key goes with it.           *)
WrittenBy(k, v) == v \in 0..Len(log) /\ (v > 0 => log[v].key = k)
ForwardInv ==
    /\ \A k \in Keys : \A v \in target[k] : WrittenBy(k, v)
    /\ \A k \in Keys : \A r \in Of(k) : r.op # "D" =>
          WrittenBy(k, r.content) /\ \A v \in target[k] : v <= r.content
    /\ phase = "join" => \A k \in Keys : \A v \in target[k] : v <= snap
    /\ phase \in {"join", "loaded"} =>
          \A k \in Keys : ~(phase = "join" /\ k \in unread) =>
             \A r \in Of(k) : r.op = "D" =>
                 \/ \E q \in Of(k) : q.cid > r.cid
                 \/ \A v \in target[k] : Deletes(k, v, Len(log)) # {}

MirrorInv == ReadInv /\ SyncInv /\ ForwardInv
=============================================================================
