------------------------------ MODULE SqlLoad -------------------------------
(* How a batch gets into a table: SQLDestination of                          *)
(* fflow/destinations/sql.py, RedshiftDestination, its subclass,             *)
(* MSSQLDestination, and S3Destination, whose table is the files under a     *)
(* prefix.  The schema contract of prepare_stream, the staging table, and    *)
(* the commit of each write disposition, by INSERT, by COPY from a file on   *)
(* S3, or as a file.  Several runs, each a process with a destination object *)
(* of its own, load into the same table.  DDL and Redshift's TRUNCATE are    *)
(* committed statement by statement; the other statements of a commit, SQL   *)
(* Server's TRUNCATE among them, are one transaction.                        *)
(*                                                                           *)
(* The columns of the effective schema are those that discover() found and   *)
(* loaded_at.  Discover finds none for an SQL file (SQLSource) and for an    *)
(* endpoint that fails (RestSource), although the rows will have columns.    *)
(*                                                                           *)
(* A table is the set of its columns and, per merge key, the number of its   *)
(* rows; a row without its key column is no row of any key.  SQL Server's    *)
(* staging table is a # table of the connection, dropped with it, so it is   *)
(* no state here.  A file on S3 is named by the run's uuid, written by one   *)
(* run and read only by the COPY that follows, so where the run is stands    *)
(* for it.                                                                   *)
EXTENDS Naturals

CONSTANTS
    Runs,         \* runs of the stream
    Keys,         \* merge keys
    Columns,      \* columns the rows may have
    KeyColumn,    \* the merge key, a column of every row
    Schemas,      \* what a run may meet: the columns of its effective schema,
                  \* wanted, and those of its rows, carried
    Contracts,    \* values of SchemaContract the destination may be built with
    Modes,        \* write dispositions and loaders: "insert" and "copy" are
                  \* RedshiftDestination without and with s3_staging_prefix,
                  \* "file" is S3Destination, "mssql" MSSQLDestination
    Copies,       \* how many rows of a batch may share a merge key
    Absent,       \* the columns of a table that does not exist
    MaxRuns       \* bound: runs begun

ASSUME LoadAssumption ==
    /\ Schemas \subseteq [wanted : SUBSET Columns, carried : SUBSET Columns]
    /\ \A s \in Schemas : KeyColumn \in s.carried
    /\ Contracts \subseteq [new : {"evolve", "freeze", "discard"},
                            dropped : {"evolve", "freeze", "discard"}]
    /\ Modes \subseteq [disposition : {"append", "replace", "merge"},
                         loader : {"insert", "copy", "file", "mssql"}]
    /\ Copies \in Nat
    /\ \A cols \in SUBSET Columns : cols # Absent
    /\ MaxRuns \in Nat

VARIABLES
    contract,     \* the SchemaContract of the destination
    mode,         \* the disposition of the stream and the way it is loaded
    columns,      \* columns of the target table
    stagingCols,  \* columns of the staging table
    target,       \* target[k]: rows of key k
    staging,      \* staging[k]: rows of key k
    pc,           \* pc[r]: where run r is
    wanted,       \* wanted[r]: the columns of its effective schema
    carried,      \* carried[r]: the columns of its rows
    seen,         \* seen[r]: what _reflect_table returned last
    dest,         \* dest[r]: dest_columns
    batch,        \* batch[r][k]: buffered rows of key k
    begun,        \* runs begun so far
    alone         \* history: no other run was under way during run r

tables == <<columns, stagingCols, target, staging>>
fixed == <<contract, mode, begun, alone>>
vars == <<tables, fixed, pc, wanted, carried, seen, dest, batch>>

-----------------------------------------------------------------------------

NoRows == [k \in Keys |-> 0]

\* _reflect_table returns None for a table that does not exist.
Exists(cols) == cols # Absent

(* The columns the INSERT names: all that the table has or is given.         *)
(* _apply_contract of sql.py and of mssql.py take the same decisions.        *)
DestColumnsReflected(r) == seen[r]
DestColumns(r) ==
    IF contract.new = "evolve" THEN wanted[r] ELSE wanted[r] \intersect seen[r]

NewColumns(r) == wanted[r] \ seen[r]

ReplaceWithoutS3 == [disposition |-> "replace", loader |-> "insert"]

(* Only a merge stream has a staging table, and on SQL Server only during    *)
(* its commit.                                                               *)
HasStaging == mode.disposition = "merge" /\ mode.loader # "mssql"
AfterTarget == IF HasStaging THEN "staging" ELSE "open"

(* DELETE FROM target USING staging, INSERT INTO target SELECT FROM staging. *)
Added(rows) == [k \in Keys |-> target[k] + rows[k]]
MergedInsertOnly(rows) == Added(rows)
Merged(rows) == [k \in Keys |-> IF rows[k] > 0 THEN rows[k] ELSE target[k]]

(* ROW_NUMBER() ... WHERE _rn > 1: one row of each key stays.                *)
Deduplicated(rows) == [k \in Keys |-> IF rows[k] > 0 THEN 1 ELSE 0]

Goto(r, label) == pc' = [pc EXCEPT ![r] = label]

Init ==
    /\ contract \in Contracts
    /\ mode \in Modes
    /\ columns = Absent
    /\ stagingCols = Absent
    /\ target = NoRows
    /\ staging = NoRows
    /\ pc = [r \in Runs |-> "idle"]
    /\ wanted = [r \in Runs |-> {}]
    /\ carried = [r \in Runs |-> {}]
    /\ seen = [r \in Runs |-> {}]
    /\ dest = [r \in Runs |-> {}]
    /\ batch = [r \in Runs |-> NoRows]
    /\ begun = 0
    /\ alone = [r \in Runs |-> TRUE]

(* The run is over: its buffer and its connections are gone.                 *)
Over(r) ==
    /\ Goto(r, "idle")
    /\ wanted' = [wanted EXCEPT ![r] = {}]
    /\ carried' = [carried EXCEPT ![r] = {}]
    /\ seen' = [seen EXCEPT ![r] = {}]
    /\ dest' = [dest EXCEPT ![r] = {}]
    /\ batch' = [batch EXCEPT ![r] = NoRows]
    /\ UNCHANGED fixed

-----------------------------------------------------------------------------
(* prepare_stream: the target table.                                         *)

(* A run begins with a schema and rows to come.                              *)
Begins(r, s) ==
    /\ pc[r] = "idle" /\ begun < MaxRuns
    /\ begun' = begun + 1
    /\ LET others == {q \in Runs : pc[q] # "idle"} IN
          alone' = [q \in Runs |-> IF q = r THEN others = {}
                                   ELSE alone[q] /\ q \notin others]
    /\ wanted' = [wanted EXCEPT ![r] = s.wanted]
    /\ carried' = [carried EXCEPT ![r] = s.carried]
    /\ UNCHANGED <<tables, contract, mode, dest, batch>>

Reflect(r, s) ==
    /\ mode.loader \in {"insert", "copy"}
    /\ Begins(r, s)
    /\ seen' = [seen EXCEPT ![r] = columns]
    /\ Goto(r, IF Exists(columns) THEN "contract" ELSE "create")

(* MSSQLDestination: _get_existing_columns, on a connection of its own.      *)
ReflectMSSQL(r, s) ==
    /\ mode.loader = "mssql"
    /\ Begins(r, s)
    /\ seen' = [seen EXCEPT ![r] = columns]
    /\ Goto(r, IF Exists(columns) THEN "contract" ELSE "create")

(* CREATE TABLE raises without columns, and if another run has created the   *)
(* table meanwhile.                                                          *)
CreateTableReflected(r) ==
    /\ pc[r] = "create" /\ ~Exists(columns) /\ wanted[r] # {}
    /\ columns' = wanted[r]
    /\ dest' = [dest EXCEPT ![r] = seen[r]]
    /\ Goto(r, AfterTarget)
    /\ UNCHANGED <<fixed, stagingCols, target, staging, wanted, carried, seen, batch>>

CreateTable(r) ==
    /\ pc[r] = "create" /\ ~Exists(columns) /\ wanted[r] # {}
    /\ columns' = wanted[r]
    /\ dest' = [dest EXCEPT ![r] = wanted[r]]
    /\ Goto(r, AfterTarget)
    /\ UNCHANGED <<fixed, stagingCols, target, staging, wanted, carried, seen, batch>>

CreateTableFails(r) ==
    /\ pc[r] = "create" /\ (Exists(columns) \/ wanted[r] = {})
    /\ Over(r)
    /\ UNCHANGED tables

(* _apply_contract: the new columns one ALTER TABLE after the other ...      *)
AddColumn(r, c) ==
    /\ pc[r] = "contract" /\ contract.new = "evolve"
    /\ c \in NewColumns(r) /\ c \notin dest[r]
    /\ c \notin columns
    /\ columns' = columns \union {c}
    /\ dest' = [dest EXCEPT ![r] = @ \union {c}]
    /\ UNCHANGED <<fixed, stagingCols, target, staging, pc, wanted, carried, seen, batch>>

AddColumnFails(r, c) ==
    /\ pc[r] = "contract" /\ contract.new = "evolve"
    /\ c \in NewColumns(r) /\ c \notin dest[r]
    /\ c \in columns
    /\ Over(r)
    /\ UNCHANGED tables

Violation(r) ==
    \/ contract.new = "freeze" /\ NewColumns(r) # {}
    \/ contract.dropped = "freeze" /\ ~(seen[r] \subseteq wanted[r])

Altered(r) == contract.new = "evolve" => NewColumns(r) \subseteq dest[r]

(* ... then SchemaContractViolation, or the columns to write.                *)
ContractViolated(r) ==
    /\ pc[r] = "contract"
    /\ Altered(r) /\ Violation(r)
    /\ Over(r)
    /\ UNCHANGED tables

ContractMet(r) ==
    /\ pc[r] = "contract"
    /\ Altered(r) /\ ~Violation(r)
    /\ dest' = [dest EXCEPT ![r] = DestColumns(r)]
    /\ Goto(r, AfterTarget)
    /\ UNCHANGED <<tables, fixed, wanted, carried, seen, batch>>

-----------------------------------------------------------------------------
(* prepare_stream: the staging table, created once and evolved.              *)

ReflectStaging(r) ==
    /\ pc[r] = "staging"
    /\ seen' = [seen EXCEPT ![r] = stagingCols]
    /\ Goto(r, IF Exists(stagingCols) THEN "evolve staging" ELSE "create staging")
    /\ UNCHANGED <<tables, fixed, wanted, carried, dest, batch>>

CreateStaging(r) ==
    /\ pc[r] = "create staging" /\ ~Exists(stagingCols) /\ wanted[r] # {}
    /\ stagingCols' = wanted[r]
    /\ Goto(r, "open")
    /\ UNCHANGED <<fixed, columns, target, staging, wanted, carried, seen, dest, batch>>

CreateStagingFails(r) ==
    /\ pc[r] = "create staging" /\ (Exists(stagingCols) \/ wanted[r] = {})
    /\ Over(r)
    /\ UNCHANGED tables

(* seen[r] grows with each column added, so that none is added twice.        *)
AddStagingColumn(r, c) ==
    /\ pc[r] = "evolve staging" /\ c \in NewColumns(r)
    /\ c \notin stagingCols
    /\ stagingCols' = stagingCols \union {c}
    /\ seen' = [seen EXCEPT ![r] = @ \union {c}]
    /\ UNCHANGED <<fixed, columns, target, staging, pc, wanted, carried, dest, batch>>

AddStagingColumnFails(r, c) ==
    /\ pc[r] = "evolve staging" /\ c \in NewColumns(r)
    /\ c \in stagingCols
    /\ Over(r)
    /\ UNCHANGED tables

TruncateStaging(r) ==
    /\ pc[r] = "evolve staging" /\ NewColumns(r) = {}
    /\ staging' = NoRows
    /\ Goto(r, "open")
    /\ UNCHANGED <<fixed, columns, stagingCols, target, wanted, carried, seen, dest, batch>>

-----------------------------------------------------------------------------
(* prepare_stream of S3Destination: a buffer, or NotImplementedError.        *)

OpenFile(r, s) ==
    /\ mode.loader = "file" /\ mode.disposition # "merge"
    /\ Begins(r, s)
    /\ Goto(r, "open")
    /\ UNCHANGED seen

RefuseMerge(r) ==
    /\ mode = [disposition |-> "merge", loader |-> "file"]
    /\ pc[r] = "idle" /\ begun < MaxRuns
    /\ begun' = begun + 1
    /\ UNCHANGED <<tables, contract, mode, alone, pc, wanted, carried, seen, dest, batch>>

-----------------------------------------------------------------------------
(* write and commit.                                                         *)

Write(r, rows) ==
    /\ pc[r] = "open"
    /\ batch' = [batch EXCEPT ![r] = rows]
    /\ Goto(r, "loaded")
    /\ UNCHANGED <<tables, fixed, wanted, carried, seen, dest>>

(* commit returns: the pipeline will store the watermark.                    *)
CommitReturns(r) ==
    /\ Goto(r, "committed")
    /\ UNCHANGED <<fixed, columns, stagingCols, wanted, carried, seen, dest, batch>>

(* An empty batch is committed as such, except by TRUNCATE and COPY.         *)
CommitEmpty(r) ==
    /\ pc[r] = "loaded" /\ batch[r] = NoRows
    /\ mode.disposition # "replace" \/ mode.loader = "file"
    /\ CommitReturns(r)
    /\ UNCHANGED <<target, staging>>

(* Without S3, RedshiftDestination._commit_replace calls the abstract method *)
(* of SQLDestination, whose body is empty.                                   *)
CommitReplaceAbstract(r) ==
    /\ pc[r] = "loaded"
    /\ mode = ReplaceWithoutS3
    /\ CommitReturns(r)
    /\ UNCHANGED <<target, staging>>

(* Redshift commits the transaction with a TRUNCATE.                         *)
TruncateTarget(r) ==
    /\ pc[r] = "loaded"
    /\ mode = [disposition |-> "replace", loader |-> "copy"]
    /\ target' = NoRows
    /\ Goto(r, "truncated")
    /\ UNCHANGED <<fixed, columns, stagingCols, staging, wanted, carried, seen, dest, batch>>

CommitReplaceEmpty(r) ==
    /\ pc[r] = "truncated" /\ batch[r] = NoRows
    /\ CommitReturns(r)
    /\ UNCHANGED <<target, staging>>

(* _stage_to_s3: the file has the columns of the rows.                       *)
StageToS3(r) ==
    /\ mode.loader = "copy" /\ batch[r] # NoRows
    /\ pc[r] = IF mode.disposition = "replace" THEN "truncated" ELSE "loaded"
    /\ Goto(r, "staged")
    /\ UNCHANGED <<tables, fixed, wanted, carried, seen, dest, batch>>

(* A batch is ready for its last transaction.  INSERT names the columns of   *)
(* dest and takes their values from the rows, and raises without columns;    *)
(* COPY takes a file that has exactly the columns of the table.              *)
MayLoad(r, cols) ==
    /\ batch[r] # NoRows
    /\ \/ pc[r] = "staged" /\ cols = carried[r]
       \/ pc[r] = "loaded" /\ mode.loader = "insert" /\ dest[r] # {}

(* The rows that reach a table with their key.                               *)
Keyed(r) == IF mode.loader = "copy" \/ KeyColumn \in dest[r] THEN batch[r] ELSE NoRows

CommitRows(r) ==
    /\ \/ mode.disposition = "append"
       \/ mode = [disposition |-> "replace", loader |-> "copy"]
    /\ MayLoad(r, columns)
    /\ target' = Added(Keyed(r))
    /\ staging' = staging
    /\ CommitReturns(r)

(* _commit_merge: the batch is added to the staging table, the target loses  *)
(* every key of the staging table and gets the columns dest of its rows.     *)
CommitMerge(r) ==
    LET rows == [k \in Keys |-> staging[k] + Keyed(r)[k]] IN
    /\ HasStaging
    /\ MayLoad(r, stagingCols) /\ dest[r] # {}
    /\ KeyColumn \in columns \intersect stagingCols
    /\ staging' = rows
    /\ target' = IF KeyColumn \in dest[r] THEN Merged(rows)
                 ELSE [k \in Keys |-> IF rows[k] > 0 THEN 0 ELSE target[k]]
    /\ CommitReturns(r)

(* S3Destination._flush: a file of its own next to the others, whatever the  *)
(* disposition.                                                              *)
PutFile(r) ==
    /\ mode.loader = "file"
    /\ pc[r] = "loaded" /\ batch[r] # NoRows
    /\ target' = Added(batch[r])
    /\ staging' = staging
    /\ CommitReturns(r)

(* MSSQLDestination: one transaction for each disposition.  _bulk_insert     *)
(* returns if there are no rows, and raises if there are rows and no columns *)
(* to insert; the # table has the columns dest, and the merge needs the key. *)
HasColumns(r) == batch[r] = NoRows \/ dest[r] # {}

CommitAppendMSSQL(r) ==
    /\ mode = [disposition |-> "append", loader |-> "mssql"]
    /\ pc[r] = "loaded" /\ batch[r] # NoRows /\ HasColumns(r)
    /\ target' = Added(Keyed(r))
    /\ staging' = staging
    /\ CommitReturns(r)

CommitReplaceMSSQL(r) ==
    /\ mode = [disposition |-> "replace", loader |-> "mssql"]
    /\ pc[r] = "loaded" /\ HasColumns(r)
    /\ target' = Keyed(r)
    /\ staging' = staging
    /\ CommitReturns(r)

CommitMergeMSSQL(r) ==
    /\ mode = [disposition |-> "merge", loader |-> "mssql"]
    /\ pc[r] = "loaded" /\ batch[r] # NoRows /\ KeyColumn \in dest[r]
    /\ target' = Merged(Deduplicated(batch[r]))
    /\ staging' = staging
    /\ CommitReturns(r)

RunEnds(r) == pc[r] = "committed" /\ Over(r) /\ UNCHANGED tables

(* commit raises, as for a COPY whose file does not fit, the stream is       *)
(* rolled back, or the process dies.                                         *)
Fails(r) == pc[r] \notin {"idle", "committed"} /\ Over(r) /\ UNCHANGED tables

\* No run is under way and none is begun any more.
Stop == begun = MaxRuns /\ (\A r \in Runs : pc[r] = "idle") /\ UNCHANGED vars

Next ==
    \/ Stop
    \/ \E r \in Runs :
        \/ \E s \in Schemas :
              Reflect(r, s) \/ ReflectMSSQL(r, s) \/ OpenFile(r, s)
        \/ RefuseMerge(r)
        \/ CreateTable(r)
        \/ CreateTableFails(r)
        \/ \E c \in Columns : AddColumn(r, c) \/ AddColumnFails(r, c)
        \/ ContractViolated(r)
        \/ ContractMet(r)
        \/ ReflectStaging(r)
        \/ CreateStaging(r)
        \/ CreateStagingFails(r)
        \/ \E c \in Columns : AddStagingColumn(r, c) \/ AddStagingColumnFails(r, c)
        \/ TruncateStaging(r)
        \/ \E rows \in [Keys -> 0..Copies] : Write(r, rows)
        \/ CommitEmpty(r)
        \/ CommitReplaceAbstract(r)
        \/ TruncateTarget(r)
        \/ CommitReplaceEmpty(r)
        \/ StageToS3(r)
        \/ CommitRows(r)
        \/ CommitMerge(r)
        \/ PutFile(r)
        \/ CommitAppendMSSQL(r)
        \/ CommitReplaceMSSQL(r)
        \/ CommitMergeMSSQL(r)
        \/ RunEnds(r)
        \/ Fails(r)

Spec == Init /\ [][Next]_vars
-----------------------------------------------------------------------------
(* Properties.                                                               *)

ColumnSets == (SUBSET Columns) \union {Absent}

(* The types of the tables and of the runs.                                  *)
LoadTypeOK ==
    /\ contract \in Contracts
    /\ mode \in Modes
    /\ columns \in ColumnSets
    /\ stagingCols \in ColumnSets
    /\ target \in [Keys -> Nat]
    /\ staging \in [Keys -> Nat]
    /\ pc \in [Runs -> {"idle", "create", "contract", "staging", "create staging",
                        "evolve staging", "open", "loaded", "truncated", "staged",
                        "committed"}]
    /\ wanted \in [Runs -> SUBSET Columns]
    /\ carried \in [Runs -> SUBSET Columns]
    /\ seen \in [Runs -> ColumnSets]
    /\ dest \in [Runs -> ColumnSets \ {Absent}]
    /\ batch \in [Runs -> [Keys -> Nat]]
    /\ begun \in 0..MaxRuns
    /\ alone \in [Runs -> BOOLEAN]

(* What each disposition promises of a table with rows t and a batch b.  The *)
(* files of S3Destination are only ever added to; a merge on SQL Server      *)
(* leaves one row per key of the batch.                                      *)
Adds == mode.disposition = "append" \/ mode.loader = "file"
Upserted(n) == IF mode.loader = "mssql" THEN 1 ELSE n
Delivered(t, b) ==
    [k \in Keys |->
        CASE Adds -> t[k] + b[k]
          [] ~Adds /\ mode.disposition = "replace" -> b[k]
          [] ~Adds /\ mode.disposition = "merge" ->
                IF b[k] > 0 THEN Upserted(b[k]) ELSE t[k]]

(* discover() has found the columns of the rows, and the table has their key *)
(* or may be given it.                                                       *)
Discovered(r) ==
    /\ carried[r] \subseteq wanted[r] /\ Exists(columns)
    /\ contract.new = "discard" => KeyColumn \in columns

(* When commit returns, the batch is durable as the write disposition says:  *)
(* added, in place of the rows there were, or in place of its keys' rows.  A *)
(* run that another one overlapped is not covered unless it writes a file,   *)
(* nor is a replace stream of RedshiftDestination without S3, nor one whose  *)
(* columns discover() did not find: commit returns although its rows have    *)
(* lost all but loaded_at.                                                   *)
CommitDelivers ==
    [][\A r \in Runs :
          /\ mode.loader = "file" \/ (alone[r] /\ Discovered(r))
          /\ mode # ReplaceWithoutS3
          /\ pc[r] # "committed" /\ pc'[r] = "committed"
          => target' = Delivered(target, batch[r])]_vars

(* "Make buffered writes for *stream* durable" (protocols.py:72): after      *)
(* commit has returned, a run that was alone finds every key of its batch in *)
(* the table, whatever the disposition.                                      *)
CommitMakesDurable ==
    \A r \in Runs : alone[r] /\ pc[r] = "committed" =>
        \A k \in Keys : batch[r][k] > 0 => target[k] > 0

(* An INSERT names only columns that its tables have, whichever runs raced   *)
(* on CREATE and ALTER, and every column of the rows that the table has if   *)
(* the run was alone and discover() found them.  A COPY names no columns,    *)
(* and Redshift refuses it unless its file has those of the table: the file  *)
(* brings no other ones if discover() found its columns and the contract     *)
(* discarded none, so that columns the source has dropped are then the only  *)
(* reason left to refuse it.                                                 *)
CopiesToTarget == mode.loader = "copy" /\ ~HasStaging
CopyColumns == IF HasStaging THEN stagingCols ELSE columns
LoadsFit ==
    \A r \in Runs : mode.loader # "file" /\ pc[r] \in {"open", "loaded", "truncated", "staged"} =>
        /\ ~CopiesToTarget =>
              /\ dest[r] \subseteq columns
              /\ HasStaging => dest[r] \subseteq stagingCols
              /\ alone[r] /\ carried[r] \subseteq wanted[r] =>
                    carried[r] \intersect columns \subseteq dest[r]
        /\ mode.loader = "copy" /\ carried[r] \subseteq wanted[r]
           /\ (contract.new # "discard" \/ HasStaging)
              => carried[r] \subseteq CopyColumns
-----------------------------------------------------------------------------
(* The inductive invariant behind the properties.                            *)

AtStaging == {"staging", "create staging", "evolve staging"}
Ready == {"open", "loaded", "staged"}
Settled == AtStaging \union Ready \union {"truncated"}   \* dest is

ReplaceByCopy == [disposition |-> "replace", loader |-> "copy"]

(* Where a run is says what it is for.                                       *)
StageOf(r) ==
    /\ pc[r] = "idle" => dest[r] = {}
    /\ pc[r] # "idle" => KeyColumn \in carried[r]
    /\ pc[r] \in {"create", "contract"} \union AtStaging => mode.loader # "file"
    /\ pc[r] \in AtStaging => HasStaging
    /\ pc[r] = "truncated" => mode = ReplaceByCopy
    /\ pc[r] = "staged" => mode.loader = "copy"

AloneOf(r) == alone[r] /\ pc[r] # "idle" => \A q \in Runs \ {r} : pc[q] = "idle"

(* The target table only grows, so that a run writes columns it has; a run   *)
(* that is alone has seen all of them.                                       *)
ColumnsOf(r) ==
    /\ pc[r] = "contract" =>
          /\ Exists(columns) /\ Exists(seen[r])
          /\ seen[r] \subseteq columns
          /\ dest[r] \subseteq columns \intersect NewColumns(r)
          /\ alone[r] /\ contract.new # "evolve" => seen[r] = columns
    /\ pc[r] \in Settled =>
          /\ Exists(columns)
          /\ dest[r] \subseteq columns \intersect wanted[r]
          /\ contract.new # "discard" => dest[r] = wanted[r]
          /\ alone[r] /\ carried[r] \subseteq wanted[r] =>
                carried[r] \intersect columns \subseteq dest[r]

(* The staging table only grows too, whatever the contract, and a run that   *)
(* is alone starts from an empty one.                                        *)
StagingOf(r) ==
    /\ pc[r] = "evolve staging" =>
          /\ Exists(stagingCols) /\ Exists(seen[r])
          /\ seen[r] \subseteq stagingCols
    /\ pc[r] \in Ready =>
          /\ Exists(stagingCols)
          /\ wanted[r] \subseteq stagingCols
          /\ alone[r] => staging = NoRows

(* Until the COPY a run that is alone has emptied the table.                 *)
TruncatedOf(r) ==
    alone[r] /\ mode = ReplaceByCopy /\ pc[r] \in {"truncated", "staged"} => target = NoRows

StageInv == \A r \in Runs : StageOf(r) /\ AloneOf(r)
ColumnsInv == mode.loader # "file" => \A r \in Runs : ColumnsOf(r)
StagingInv ==
    HasStaging =>
        /\ ~Exists(stagingCols) => staging = NoRows
        /\ \A r \in Runs : StagingOf(r)
TruncatedInv == \A r \in Runs : TruncatedOf(r)

LoadInv == LoadTypeOK /\ StageInv /\ ColumnsInv /\ StagingInv /\ TruncatedInv
=============================================================================
