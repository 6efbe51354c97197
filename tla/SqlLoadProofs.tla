--------------------------- MODULE SqlLoadProofs ----------------------------
(* Proofs about how a batch gets into a table.                               *)
EXTENDS SqlLoad, TLAPS

-----------------------------------------------------------------------------
(* Steps by what they do.                                                    *)

Gone(r) == Over(r) /\ UNCHANGED tables

(* Every step but a stutter is one of a run: it begins, prepares its tables, *)
(* writes, commits, or is over.                                              *)
LEMMA StepCases ==
    ASSUME [Next]_vars, NEW P,
           UNCHANGED vars => P,
           \A r \in Runs, s \in Schemas : Reflect(r, s) \/ ReflectMSSQL(r, s) => P,
           \A r \in Runs, s \in Schemas : OpenFile(r, s) => P,
           \A r \in Runs : RefuseMerge(r) => P,
           \A r \in Runs : CreateTable(r) => P,
           \A r \in Runs, c \in Columns : AddColumn(r, c) => P,
           \A r \in Runs : ContractMet(r) => P,
           \A r \in Runs : ReflectStaging(r) => P,
           \A r \in Runs : CreateStaging(r) => P,
           \A r \in Runs, c \in Columns : AddStagingColumn(r, c) => P,
           \A r \in Runs : TruncateStaging(r) => P,
           \A r \in Runs, rows \in [Keys -> 0..Copies] : Write(r, rows) => P,
           \A r \in Runs : CommitEmpty(r) => P,
           \A r \in Runs : CommitReplaceAbstract(r) => P,
           \A r \in Runs : TruncateTarget(r) => P,
           \A r \in Runs : CommitReplaceEmpty(r) => P,
           \A r \in Runs : StageToS3(r) => P,
           \A r \in Runs : CommitRows(r) => P,
           \A r \in Runs : CommitMerge(r) => P,
           \A r \in Runs : PutFile(r) => P,
           \A r \in Runs : CommitAppendMSSQL(r) => P,
           \A r \in Runs : CommitReplaceMSSQL(r) => P,
           \A r \in Runs : CommitMergeMSSQL(r) => P,
           \A r \in Runs : Gone(r) => P
    PROVE  P
<1>1. ASSUME NEW r \in Runs,
             \/ CreateTableFails(r) \/ ContractViolated(r) \/ CreateStagingFails(r)
             \/ RunEnds(r) \/ Fails(r)
             \/ \E c \in Columns : AddColumnFails(r, c) \/ AddStagingColumnFails(r, c)
      PROVE  P
  <2>1. Gone(r)
    BY <1>1 DEF Gone, CreateTableFails, ContractViolated, CreateStagingFails, RunEnds,
                Fails, AddColumnFails, AddStagingColumnFails
  <2> QED  BY <2>1
<1>2. CASE UNCHANGED vars
  BY <1>2
<1>3. CASE Next
  BY <1>1, <1>3 DEF Next, Stop
<1> QED  BY <1>2, <1>3

-----------------------------------------------------------------------------
(* Types.                                                                    *)

(* A table's columns, or none.                                               *)
LEMMA ColumnsAre ==
    ASSUME NEW cols \in ColumnSets, Exists(cols)
    PROVE  cols \in SUBSET Columns /\ cols \in ColumnSets \ {Absent}
BY DEF ColumnSets, Exists

LEMMA ColumnsExist ==
    ASSUME NEW cols \in SUBSET Columns
    PROVE  cols \in ColumnSets \ {Absent} /\ cols \in ColumnSets /\ Exists(cols)
BY LoadAssumption DEF ColumnSets, Exists

(* The rows that statements leave are counted.                               *)
LEMMA RowTypes ==
    ASSUME LoadTypeOK, NEW r \in Runs
    PROVE  /\ NoRows \in [Keys -> Nat]
           /\ Keyed(r) \in [Keys -> Nat]
           /\ Added(Keyed(r)) \in [Keys -> Nat] /\ Added(batch[r]) \in [Keys -> Nat]
           /\ \A rows \in [Keys -> Nat] : Merged(rows) \in [Keys -> Nat]
           /\ Deduplicated(batch[r]) \in [Keys -> Nat]
<1>1. target \in [Keys -> Nat] /\ batch[r] \in [Keys -> Nat]
  BY DEF LoadTypeOK
<1>2. NoRows \in [Keys -> Nat]
  BY DEF NoRows
<1>3. Keyed(r) \in [Keys -> Nat]
  BY <1>1, <1>2 DEF Keyed
<1>4. \A rows \in [Keys -> Nat] : Added(rows) \in [Keys -> Nat]
  <2>1. ASSUME NEW rows \in [Keys -> Nat]  PROVE  Added(rows) \in [Keys -> Nat]
    <3>1. \A k \in Keys : target[k] + rows[k] \in Nat
      BY <1>1
    <3> QED  BY <3>1 DEF Added
  <2> QED  BY <2>1
<1>5. \A rows \in [Keys -> Nat] : Merged(rows) \in [Keys -> Nat]
  BY <1>1 DEF Merged
<1>6. Deduplicated(batch[r]) \in [Keys -> Nat]
  BY DEF Deduplicated
<1> QED  BY <1>1, <1>2, <1>3, <1>4, <1>5, <1>6

(* What a step that commits changes besides the rows.                        *)
Returned(r) ==
    /\ Goto(r, "committed")
    /\ UNCHANGED <<contract, mode, begun, alone, columns, stagingCols, wanted, carried,
                   seen, dest, batch>>

(* The steps that commit.                                                    *)
Commits(r) ==
    \/ CommitEmpty(r) \/ CommitReplaceAbstract(r) \/ CommitReplaceEmpty(r) \/ CommitRows(r)
    \/ CommitMerge(r) \/ PutFile(r) \/ CommitAppendMSSQL(r) \/ CommitReplaceMSSQL(r)
    \/ CommitMergeMSSQL(r)

LEMMA CommitsReturn ==
    ASSUME LoadTypeOK, StageInv, NEW r \in Runs, Commits(r)
    PROVE  /\ Returned(r)
           /\ pc[r] \in {"loaded", "truncated", "staged"}
           /\ UNCHANGED staging \/ (CommitMerge(r) /\ HasStaging)
<1>1. Returned(r)
  BY DEF Commits, CommitEmpty, CommitReplaceAbstract, CommitReplaceEmpty, CommitRows,
         CommitMerge, PutFile, CommitAppendMSSQL, CommitReplaceMSSQL, CommitMergeMSSQL,
         CommitReturns, Returned, fixed
<1>2. pc[r] \in {"loaded", "truncated", "staged"}
  BY DEF Commits, CommitEmpty, CommitReplaceAbstract, CommitReplaceEmpty, CommitRows,
         CommitMerge, PutFile, CommitAppendMSSQL, CommitReplaceMSSQL, CommitMergeMSSQL,
         MayLoad
<1>3. UNCHANGED staging \/ (CommitMerge(r) /\ HasStaging)
  BY DEF Commits, CommitEmpty, CommitReplaceAbstract, CommitReplaceEmpty, CommitRows,
         CommitMerge, PutFile, CommitAppendMSSQL, CommitReplaceMSSQL, CommitMergeMSSQL
<1> QED  BY <1>1, <1>2, <1>3

(* What a commit leaves is counted.                                          *)
LEMMA CommitTypes ==
    ASSUME LoadTypeOK, NEW r \in Runs, Commits(r)
    PROVE  target' \in [Keys -> Nat] /\ staging' \in [Keys -> Nat]
<1>0. target \in [Keys -> Nat] /\ staging \in [Keys -> Nat] /\ batch[r] \in [Keys -> Nat]
  BY DEF LoadTypeOK
<1>1. CASE CommitMerge(r)
  <2> DEFINE rows == [k \in Keys |-> staging[k] + Keyed(r)[k]]
  <2>1. rows \in [Keys -> Nat]
    <3>1. \A k \in Keys : staging[k] + Keyed(r)[k] \in Nat
      <4>1. Keyed(r) \in [Keys -> Nat]
        BY RowTypes
      <4> QED  BY <1>0, <4>1
    <3> QED  BY <3>1
  <2>2. /\ staging' = rows
        /\ target' = IF KeyColumn \in dest[r] THEN Merged(rows)
                     ELSE [k \in Keys |-> IF rows[k] > 0 THEN 0 ELSE target[k]]
    BY <1>1 DEF CommitMerge
  <2> HIDE DEF rows
  <2>3. [k \in Keys |-> IF rows[k] > 0 THEN 0 ELSE target[k]] \in [Keys -> Nat]
    BY <1>0
  <2> QED  BY <2>1, <2>2, <2>3, RowTypes
<1>2. CASE CommitMergeMSSQL(r)
  BY <1>0, <1>2, RowTypes DEF CommitMergeMSSQL
<1>3. CASE CommitRows(r) \/ PutFile(r) \/ CommitAppendMSSQL(r) \/ CommitReplaceMSSQL(r)
  BY <1>0, <1>3, RowTypes DEF CommitRows, PutFile, CommitAppendMSSQL, CommitReplaceMSSQL
<1>4. CASE CommitEmpty(r) \/ CommitReplaceAbstract(r) \/ CommitReplaceEmpty(r)
  BY <1>0, <1>4 DEF CommitEmpty, CommitReplaceAbstract, CommitReplaceEmpty
<1> QED  BY <1>1, <1>2, <1>3, <1>4 DEF Commits

(* Where a run may be.                                                       *)
Places == {"idle", "create", "contract", "staging", "create staging", "evolve staging",
           "open", "loaded", "truncated", "staged", "committed"}

LEMMA GotoType ==
    ASSUME LoadTypeOK, NEW r \in Runs, NEW label \in Places, Goto(r, label)
    PROVE  /\ pc' \in [Runs -> Places] /\ pc'[r] = label
           /\ \A q \in Runs \ {r} : pc'[q] = pc[q]
BY DEF LoadTypeOK, Goto, Places

(* Runs are counted up to their bound.                                       *)
LEMMA BegunType ==
    ASSUME LoadTypeOK, begun < MaxRuns, begun' = begun + 1
    PROVE  begun' \in 0..MaxRuns
<1>1. MaxRuns \in Nat
  BY LoadAssumption
<1>2. begun \in 0..MaxRuns
  BY DEF LoadTypeOK
<1> QED  BY <1>1, <1>2

(* What a run that begins brings.                                            *)
LEMMA BeginsType ==
    ASSUME LoadTypeOK, NEW r \in Runs, NEW s \in Schemas, Begins(r, s)
    PROVE  /\ begun' \in 0..MaxRuns /\ alone' \in [Runs -> BOOLEAN]
           /\ wanted' \in [Runs -> SUBSET Columns] /\ carried' \in [Runs -> SUBSET Columns]
           /\ UNCHANGED <<tables, contract, mode, dest, batch>>
<1>1. s.wanted \in SUBSET Columns /\ s.carried \in SUBSET Columns
  BY LoadAssumption
<1>2. begun' \in 0..MaxRuns
  BY BegunType DEF Begins
<1>3. alone' \in [Runs -> BOOLEAN]
  <2> DEFINE others == {q \in Runs : pc[q] # "idle"}
  <2>1. alone' = [q \in Runs |-> IF q = r THEN others = {} ELSE alone[q] /\ q \notin others]
    BY DEF Begins
  <2>2. \A q \in Runs : (IF q = r THEN others = {} ELSE alone[q] /\ q \notin others) \in BOOLEAN
    OBVIOUS
  <2> HIDE DEF others
  <2> QED  BY <2>1, <2>2
<1> QED  BY <1>1, <1>2, <1>3 DEF LoadTypeOK, Begins

(* Every step keeps the types.                                               *)
LEMMA TypeStep ==
    ASSUME LoadTypeOK, StageInv, ColumnsInv, StagingInv, [Next]_vars
    PROVE  LoadTypeOK'
<1>0. /\ {} \in SUBSET Columns /\ {} \in ColumnSets /\ {} \in ColumnSets \ {Absent}
      /\ NoRows \in [Keys -> Nat] /\ 0..Copies \subseteq Nat
  BY ColumnsExist, LoadAssumption DEF NoRows
<1> USE DEF LoadTypeOK
<1>1. CASE UNCHANGED vars
  BY <1>1 DEF vars, tables, fixed
<1>2. ASSUME NEW r \in Runs, NEW s \in Schemas, Reflect(r, s) \/ ReflectMSSQL(r, s)
      PROVE  LoadTypeOK'
  <2>1. /\ Begins(r, s) /\ seen' = [seen EXCEPT ![r] = columns]
        /\ Goto(r, IF Exists(columns) THEN "contract" ELSE "create")
    BY <1>2 DEF Reflect, ReflectMSSQL
  <2>2. pc' \in [Runs -> Places]
    BY <2>1, GotoType DEF Places
  <2> QED  BY <2>1, <2>2, BeginsType DEF Places, tables
<1>3. ASSUME NEW r \in Runs, NEW s \in Schemas, OpenFile(r, s)  PROVE  LoadTypeOK'
  <2>1. pc' \in [Runs -> Places]
    BY <1>3, GotoType DEF OpenFile, Places
  <2> QED  BY <1>3, <2>1, BeginsType DEF OpenFile, Places, tables
<1>4. ASSUME NEW r \in Runs, RefuseMerge(r)  PROVE  LoadTypeOK'
  <2>1. begun' \in 0..MaxRuns
    BY <1>4, BegunType DEF RefuseMerge
  <2> QED  BY <1>4, <2>1 DEF RefuseMerge, tables
<1>5. ASSUME NEW r \in Runs, CreateTable(r)  PROVE  LoadTypeOK'
  <2>1. wanted[r] \in ColumnSets /\ wanted[r] \in ColumnSets \ {Absent}
    BY ColumnsExist
  <2>2. pc' \in [Runs -> Places]
    BY <1>5, GotoType DEF CreateTable, AfterTarget, Places
  <2> QED  BY <1>5, <2>1, <2>2 DEF CreateTable, Places, fixed
<1>6. ASSUME NEW r \in Runs, NEW c \in Columns, AddColumn(r, c)  PROVE  LoadTypeOK'
  <2>1. Exists(columns)
    BY <1>6 DEF AddColumn, StageInv, StageOf, ColumnsInv, ColumnsOf
  <2>2. columns \union {c} \in SUBSET Columns /\ dest[r] \union {c} \in SUBSET Columns
    <3>1. dest[r] \in SUBSET Columns
      BY DEF ColumnSets
    <3> QED  BY <2>1, <3>1, ColumnsAre
  <2>3. columns \union {c} \in ColumnSets /\ dest[r] \union {c} \in ColumnSets \ {Absent}
    BY <2>2, ColumnsExist
  <2> QED  BY <1>6, <2>3 DEF AddColumn, fixed
<1>7. ASSUME NEW r \in Runs, ContractMet(r)  PROVE  LoadTypeOK'
  <2>1. DestColumns(r) \in SUBSET Columns
    BY DEF DestColumns
  <2>2. DestColumns(r) \in ColumnSets \ {Absent}
    BY <2>1, ColumnsExist
  <2>3. pc' \in [Runs -> Places]
    BY <1>7, GotoType DEF ContractMet, AfterTarget, Places
  <2> QED  BY <1>7, <2>2, <2>3 DEF ContractMet, Places, tables, fixed
<1>8. ASSUME NEW r \in Runs, ReflectStaging(r)  PROVE  LoadTypeOK'
  <2>1. pc' \in [Runs -> Places]
    BY <1>8, GotoType DEF ReflectStaging, Places
  <2> QED  BY <1>8, <2>1 DEF ReflectStaging, Places, tables, fixed
<1>9. ASSUME NEW r \in Runs, CreateStaging(r)  PROVE  LoadTypeOK'
  <2>1. wanted[r] \in ColumnSets
    BY ColumnsExist
  <2>2. pc' \in [Runs -> Places]
    BY <1>9, GotoType DEF CreateStaging, Places
  <2> QED  BY <1>9, <2>1, <2>2 DEF CreateStaging, Places, fixed
<1>10. ASSUME NEW r \in Runs, NEW c \in Columns, AddStagingColumn(r, c)  PROVE  LoadTypeOK'
  <2>1. Exists(stagingCols) /\ Exists(seen[r])
    BY <1>10 DEF AddStagingColumn, StageInv, StageOf, AtStaging, StagingInv, StagingOf
  <2>2. stagingCols \union {c} \in ColumnSets /\ seen[r] \union {c} \in ColumnSets
    <3>1. stagingCols \in SUBSET Columns /\ seen[r] \in SUBSET Columns
      BY <2>1, ColumnsAre
    <3> QED  BY <3>1, ColumnsExist
  <2> QED  BY <1>10, <2>2 DEF AddStagingColumn, fixed
<1>11. ASSUME NEW r \in Runs, TruncateStaging(r)  PROVE  LoadTypeOK'
  <2>1. pc' \in [Runs -> Places]
    BY <1>11, GotoType DEF TruncateStaging, Places
  <2> QED  BY <1>0, <1>11, <2>1 DEF TruncateStaging, Places, fixed
<1>12. ASSUME NEW r \in Runs, NEW rows \in [Keys -> 0..Copies], Write(r, rows)
       PROVE  LoadTypeOK'
  <2>1. pc' \in [Runs -> Places]
    BY <1>12, GotoType DEF Write, Places
  <2>2. rows \in [Keys -> Nat]
    BY <1>0
  <2> QED  BY <1>12, <2>1, <2>2 DEF Write, Places, tables, fixed
<1>13. ASSUME NEW r \in Runs, Commits(r)  PROVE  LoadTypeOK'
  <2>1. Returned(r)
    BY <1>13, CommitsReturn
  <2>2. pc' \in [Runs -> Places]
    BY <2>1, GotoType DEF Returned, Places
  <2>3. target' \in [Keys -> Nat] /\ staging' \in [Keys -> Nat]
    BY <1>13, CommitTypes
  <2> QED  BY <2>1, <2>2, <2>3 DEF Returned, Places
<1>14. ASSUME NEW r \in Runs, TruncateTarget(r)  PROVE  LoadTypeOK'
  <2>1. pc' \in [Runs -> Places]
    BY <1>14, GotoType DEF TruncateTarget, Places
  <2> QED  BY <1>0, <1>14, <2>1 DEF TruncateTarget, Places, fixed
<1>15. ASSUME NEW r \in Runs, StageToS3(r)  PROVE  LoadTypeOK'
  <2>1. pc' \in [Runs -> Places]
    BY <1>15, GotoType DEF StageToS3, Places
  <2> QED  BY <1>15, <2>1 DEF StageToS3, Places, tables, fixed
<1>16. ASSUME NEW r \in Runs, Gone(r)  PROVE  LoadTypeOK'
  <2>1. pc' \in [Runs -> Places]
    BY <1>16, GotoType DEF Gone, Over, Places
  <2> QED  BY <1>0, <1>16, <2>1 DEF Gone, Over, Places, tables, fixed
<1> HIDE DEF LoadTypeOK
<1> QED
  BY <1>1, <1>2, <1>3, <1>4, <1>5, <1>6, <1>7, <1>8, <1>9, <1>10, <1>11, <1>12, <1>13,
     <1>14, <1>15, <1>16, StepCases DEF Commits

-----------------------------------------------------------------------------
(* Runs side by side.                                                        *)

(* What a step of one run leaves: the other runs are where they were, the    *)
(* tables only get columns, and neither is there another run that was alone, *)
(* unless this one is not under way, nor is this one alone if there is one.  *)
Apart(r) ==
    /\ UNCHANGED <<contract, mode>>
    /\ \A q \in Runs \ {r} :
          /\ pc'[q] = pc[q] /\ dest'[q] = dest[q] /\ seen'[q] = seen[q]
          /\ wanted'[q] = wanted[q] /\ carried'[q] = carried[q]
    /\ \A q \in Runs \ {r} : alone'[q] /\ pc[q] # "idle" =>
          alone[q] /\ pc'[r] = "idle" /\ UNCHANGED <<columns, target, staging>>
    /\ alone'[r] /\ pc'[r] # "idle" => \A q \in Runs \ {r} : pc[q] = "idle"
    /\ Exists(columns) => Exists(columns') /\ columns \subseteq columns'
    /\ Exists(stagingCols) => Exists(stagingCols') /\ stagingCols \subseteq stagingCols'

(* A step of a run under way, or one that leaves no run.                     *)
LEMMA ApartFrom ==
    ASSUME LoadTypeOK, StageInv, NEW r \in Runs,
           UNCHANGED <<contract, mode, alone>>,
           \A q \in Runs \ {r} :
              /\ pc'[q] = pc[q] /\ dest'[q] = dest[q] /\ seen'[q] = seen[q]
              /\ wanted'[q] = wanted[q] /\ carried'[q] = carried[q],
           pc[r] # "idle" \/ (pc'[r] = "idle" /\ UNCHANGED <<columns, target, staging>>),
           Exists(columns) => Exists(columns') /\ columns \subseteq columns',
           Exists(stagingCols) => Exists(stagingCols') /\ stagingCols \subseteq stagingCols'
    PROVE  Apart(r)
<1>1. ASSUME NEW q \in Runs \ {r}, alone'[q], pc[q] # "idle"
      PROVE  alone[q] /\ pc'[r] = "idle" /\ UNCHANGED <<columns, target, staging>>
  <2>1. alone[q]
    BY <1>1
  <2>2. pc[r] = "idle"
    BY <1>1, <2>1 DEF StageInv, AloneOf
  <2> QED  BY <2>1, <2>2
<1>2. alone'[r] /\ pc'[r] # "idle" => \A q \in Runs \ {r} : pc[q] = "idle"
  BY DEF StageInv, AloneOf
<1> QED  BY <1>1, <1>2 DEF Apart

(* A run that begins ends the solitude of the others.                        *)
LEMMA BeginsApart ==
    ASSUME LoadTypeOK, StageInv, NEW r \in Runs, NEW s \in Schemas, Begins(r, s),
           \A q \in Runs \ {r} : pc'[q] = pc[q] /\ seen'[q] = seen[q]
    PROVE  Apart(r)
<1>1. /\ UNCHANGED <<columns, stagingCols, contract, mode, dest>>
      /\ \A q \in Runs \ {r} : wanted'[q] = wanted[q] /\ carried'[q] = carried[q]
  BY DEF Begins, tables, LoadTypeOK
<1>2. \A q \in Runs \ {r} : pc[q] # "idle" => ~alone'[q]
  BY DEF Begins
<1>3. alone'[r] => \A q \in Runs \ {r} : pc[q] = "idle"
  BY DEF Begins
<1> QED  BY <1>1, <1>2, <1>3 DEF Apart

(* Every step leaves that.                                                   *)
LEMMA Apartness ==
    ASSUME LoadTypeOK, StageInv, ColumnsInv, StagingInv, NEW r \in Runs
    PROVE  /\ \A s \in Schemas : Reflect(r, s) \/ ReflectMSSQL(r, s) => Apart(r)
           /\ \A s \in Schemas : OpenFile(r, s) => Apart(r)
           /\ RefuseMerge(r) => Apart(r)
           /\ CreateTable(r) => Apart(r)
           /\ \A c \in Columns : AddColumn(r, c) => Apart(r)
           /\ ContractMet(r) => Apart(r)
           /\ ReflectStaging(r) => Apart(r)
           /\ CreateStaging(r) => Apart(r)
           /\ \A c \in Columns : AddStagingColumn(r, c) => Apart(r)
           /\ TruncateStaging(r) => Apart(r)
           /\ \A rows \in [Keys -> 0..Copies] : Write(r, rows) => Apart(r)
           /\ Commits(r) => Apart(r)
           /\ TruncateTarget(r) => Apart(r)
           /\ StageToS3(r) => Apart(r)
           /\ Gone(r) => Apart(r)
<1>0. /\ \A label \in Places : Goto(r, label) => \A q \in Runs \ {r} : pc'[q] = pc[q]
      /\ pc \in [Runs -> Places]
      /\ seen \in [Runs -> ColumnSets] /\ dest \in [Runs -> ColumnSets \ {Absent}]
      /\ wanted \in [Runs -> SUBSET Columns] /\ carried \in [Runs -> SUBSET Columns]
      /\ columns \in ColumnSets /\ stagingCols \in ColumnSets
  BY GotoType DEF LoadTypeOK, Places
<1>1. ASSUME NEW s \in Schemas, Reflect(r, s) \/ ReflectMSSQL(r, s)  PROVE  Apart(r)
  <2>1. /\ Begins(r, s) /\ seen' = [seen EXCEPT ![r] = columns]
        /\ Goto(r, IF Exists(columns) THEN "contract" ELSE "create")
    BY <1>1 DEF Reflect, ReflectMSSQL
  <2>2. \A q \in Runs \ {r} : pc'[q] = pc[q] /\ seen'[q] = seen[q]
    BY <1>0, <2>1 DEF Goto
  <2> QED  BY <2>1, <2>2, BeginsApart
<1>2. ASSUME NEW s \in Schemas, OpenFile(r, s)  PROVE  Apart(r)
  <2>1. \A q \in Runs \ {r} : pc'[q] = pc[q] /\ seen'[q] = seen[q]
    BY <1>0, <1>2 DEF OpenFile, Goto
  <2> QED  BY <1>2, <2>1, BeginsApart DEF OpenFile
<1>3. ASSUME RefuseMerge(r)  PROVE  Apart(r)
  BY <1>3, ApartFrom DEF RefuseMerge, tables
<1>4. ASSUME CreateTable(r)  PROVE  Apart(r)
  <2>1. /\ pc[r] # "idle" /\ ~Exists(columns) /\ UNCHANGED stagingCols
        /\ UNCHANGED <<contract, mode, alone, seen, wanted, carried>>
        /\ \A q \in Runs \ {r} : pc'[q] = pc[q] /\ dest'[q] = dest[q]
    BY <1>0, <1>4 DEF CreateTable, Goto, fixed
  <2> QED  BY <2>1, ApartFrom
<1>5. ASSUME NEW c \in Columns, AddColumn(r, c)  PROVE  Apart(r)
  <2>1. /\ pc[r] # "idle" /\ columns' = columns \union {c} /\ UNCHANGED stagingCols
        /\ UNCHANGED <<contract, mode, alone, seen, wanted, carried, pc>>
        /\ \A q \in Runs \ {r} : dest'[q] = dest[q]
    BY <1>0, <1>5 DEF AddColumn, fixed
  <2>2. Exists(columns) => Exists(columns')
    <3>1. Exists(columns) => columns \union {c} \in SUBSET Columns
      BY <1>0, ColumnsAre
    <3> QED  BY <2>1, <3>1, ColumnsExist
  <2> QED  BY <2>1, <2>2, ApartFrom
<1>6. ASSUME ContractMet(r)  PROVE  Apart(r)
  <2>1. /\ pc[r] # "idle" /\ UNCHANGED <<columns, stagingCols>>
        /\ UNCHANGED <<contract, mode, alone, seen, wanted, carried>>
        /\ \A q \in Runs \ {r} : pc'[q] = pc[q] /\ dest'[q] = dest[q]
    BY <1>0, <1>6 DEF ContractMet, Goto, tables, fixed
  <2> QED  BY <2>1, ApartFrom
<1>7. ASSUME ReflectStaging(r)  PROVE  Apart(r)
  <2>1. /\ pc[r] # "idle" /\ UNCHANGED <<columns, stagingCols>>
        /\ UNCHANGED <<contract, mode, alone, dest, wanted, carried>>
        /\ \A q \in Runs \ {r} : pc'[q] = pc[q] /\ seen'[q] = seen[q]
    BY <1>0, <1>7 DEF ReflectStaging, Goto, tables, fixed
  <2> QED  BY <2>1, ApartFrom
<1>8. ASSUME CreateStaging(r)  PROVE  Apart(r)
  <2>1. /\ pc[r] # "idle" /\ UNCHANGED columns /\ ~Exists(stagingCols)
        /\ UNCHANGED <<contract, mode, alone, dest, seen, wanted, carried>>
        /\ \A q \in Runs \ {r} : pc'[q] = pc[q]
    BY <1>0, <1>8 DEF CreateStaging, Goto, fixed
  <2> QED  BY <2>1, ApartFrom
<1>9. ASSUME NEW c \in Columns, AddStagingColumn(r, c)  PROVE  Apart(r)
  <2>1. /\ pc[r] # "idle" /\ stagingCols' = stagingCols \union {c} /\ UNCHANGED columns
        /\ UNCHANGED <<contract, mode, alone, dest, wanted, carried, pc>>
        /\ \A q \in Runs \ {r} : seen'[q] = seen[q]
    BY <1>0, <1>9 DEF AddStagingColumn, fixed
  <2>2. Exists(stagingCols) => Exists(stagingCols')
    <3>1. Exists(stagingCols) => stagingCols \union {c} \in SUBSET Columns
      BY <1>0, ColumnsAre
    <3> QED  BY <2>1, <3>1, ColumnsExist
  <2> QED  BY <2>1, <2>2, ApartFrom
<1>10. ASSUME TruncateStaging(r)  PROVE  Apart(r)
  <2>1. /\ pc[r] # "idle" /\ UNCHANGED <<columns, stagingCols>>
        /\ UNCHANGED <<contract, mode, alone, dest, seen, wanted, carried>>
        /\ \A q \in Runs \ {r} : pc'[q] = pc[q]
    BY <1>0, <1>10 DEF TruncateStaging, Goto, fixed
  <2> QED  BY <2>1, ApartFrom
<1>11. ASSUME NEW rows \in [Keys -> 0..Copies], Write(r, rows)  PROVE  Apart(r)
  <2>1. /\ pc[r] # "idle" /\ UNCHANGED <<columns, stagingCols>>
        /\ UNCHANGED <<contract, mode, alone, dest, seen, wanted, carried>>
        /\ \A q \in Runs \ {r} : pc'[q] = pc[q]
    BY <1>0, <1>11 DEF Write, Goto, tables, fixed
  <2> QED  BY <2>1, ApartFrom
<1>12. ASSUME Commits(r)  PROVE  Apart(r)
  <2>1. Returned(r) /\ pc[r] # "idle"
    BY <1>12, CommitsReturn
  <2>2. /\ UNCHANGED <<columns, stagingCols>>
        /\ UNCHANGED <<contract, mode, alone, dest, seen, wanted, carried>>
        /\ \A q \in Runs \ {r} : pc'[q] = pc[q]
    BY <1>0, <2>1 DEF Returned, Goto
  <2> QED  BY <2>1, <2>2, ApartFrom
<1>13. ASSUME TruncateTarget(r)  PROVE  Apart(r)
  <2>1. /\ pc[r] # "idle" /\ UNCHANGED <<columns, stagingCols>>
        /\ UNCHANGED <<contract, mode, alone, dest, seen, wanted, carried>>
        /\ \A q \in Runs \ {r} : pc'[q] = pc[q]
    BY <1>0, <1>13 DEF TruncateTarget, Goto, fixed
  <2> QED  BY <2>1, ApartFrom
<1>14. ASSUME StageToS3(r)  PROVE  Apart(r)
  <2>1. pc[r] # "idle"
    BY <1>14 DEF StageToS3
  <2>2. /\ UNCHANGED <<columns, stagingCols>>
        /\ UNCHANGED <<contract, mode, alone, dest, seen, wanted, carried>>
        /\ \A q \in Runs \ {r} : pc'[q] = pc[q]
    BY <1>0, <1>14 DEF StageToS3, Goto, tables, fixed
  <2> QED  BY <2>1, <2>2, ApartFrom
<1>15. ASSUME Gone(r)  PROVE  Apart(r)
  <2>1. /\ pc'[r] = "idle" /\ UNCHANGED <<columns, stagingCols, target, staging>>
        /\ UNCHANGED <<contract, mode, alone>>
        /\ \A q \in Runs \ {r} :
              /\ pc'[q] = pc[q] /\ dest'[q] = dest[q] /\ seen'[q] = seen[q]
              /\ wanted'[q] = wanted[q] /\ carried'[q] = carried[q]
    BY <1>0, <1>15 DEF Gone, Over, Goto, tables, fixed
  <2> QED  BY <2>1, ApartFrom
<1> QED
  BY <1>1, <1>2, <1>3, <1>4, <1>5, <1>6, <1>7, <1>8, <1>9, <1>10, <1>11, <1>12, <1>13,
     <1>14, <1>15

(* What the step of one run means for the others.                            *)
LEMMA OthersKept ==
    ASSUME LoadTypeOK, StageInv, ColumnsInv, StagingInv, TruncatedInv, NEW r \in Runs,
           Apart(r), NEW q \in Runs \ {r}
    PROVE  /\ StageOf(q)' /\ AloneOf(q)' /\ AloneOf(r)'
           /\ (mode.loader # "file")' => ColumnsOf(q)'
           /\ HasStaging' => StagingOf(q)'
           /\ TruncatedOf(q)'
<1>1. /\ UNCHANGED <<contract, mode>>
      /\ pc'[q] = pc[q] /\ dest'[q] = dest[q] /\ seen'[q] = seen[q]
      /\ wanted'[q] = wanted[q] /\ carried'[q] = carried[q]
      /\ alone'[q] /\ pc[q] # "idle" =>
            alone[q] /\ pc'[r] = "idle" /\ UNCHANGED <<columns, target, staging>>
  BY DEF Apart
<1>2. StageOf(q)'
  <2>1. StageOf(q) /\ (HasStaging' <=> HasStaging)
    BY <1>1 DEF StageInv, HasStaging
  <2> QED  BY <1>1, <2>1 DEF StageOf
<1>3. AloneOf(q)'
  <2>1. AloneOf(q)
    BY DEF StageInv
  <2> QED  BY <1>1, <2>1 DEF AloneOf, Apart
<1>4. AloneOf(r)'
  BY DEF AloneOf, Apart
<1>5. ASSUME mode.loader # "file"  PROVE  ColumnsOf(q)'
  <2>1. ColumnsOf(q) /\ (NewColumns(q)' = NewColumns(q))
    BY <1>1, <1>5 DEF ColumnsInv, NewColumns
  <2>2. Exists(columns) => Exists(columns') /\ columns \subseteq columns'
    BY DEF Apart
  <2>3. ASSUME pc[q] = "contract"
        PROVE  /\ Exists(columns') /\ Exists(seen'[q])
               /\ seen'[q] \subseteq columns'
               /\ dest'[q] \subseteq columns' \intersect NewColumns(q)
               /\ alone'[q] /\ contract.new # "evolve" => seen'[q] = columns'
    BY <1>1, <2>1, <2>2, <2>3 DEF ColumnsOf
  <2>4. ASSUME pc[q] \in Settled
        PROVE  /\ Exists(columns')
               /\ dest'[q] \subseteq columns' \intersect wanted'[q]
               /\ contract.new # "discard" => dest'[q] = wanted'[q]
               /\ alone'[q] /\ carried'[q] \subseteq wanted'[q] =>
                     carried'[q] \intersect columns' \subseteq dest'[q]
    <3>1. pc[q] # "idle"
      BY <2>4 DEF Settled, AtStaging, Ready
    <3> QED  BY <1>1, <2>1, <2>2, <2>4, <3>1 DEF ColumnsOf
  <2> QED  BY <1>1, <2>1, <2>3, <2>4 DEF ColumnsOf
<1>6. ASSUME HasStaging  PROVE  StagingOf(q)'
  <2>1. StagingOf(q)
    BY <1>6 DEF StagingInv
  <2>2. Exists(stagingCols) => Exists(stagingCols') /\ stagingCols \subseteq stagingCols'
    BY DEF Apart
  <2>3. pc[q] \in Ready => pc[q] # "idle"
    BY DEF Ready
  <2> QED  BY <1>1, <2>1, <2>2, <2>3 DEF StagingOf
<1>7. TruncatedOf(q)'
  <2>1. TruncatedOf(q)
    BY DEF TruncatedInv
  <2> QED  BY <1>1, <2>1 DEF TruncatedOf
<1>8. (HasStaging' <=> HasStaging) /\ ((mode.loader # "file")' <=> mode.loader # "file")
  BY <1>1 DEF HasStaging
<1> QED  BY <1>2, <1>3, <1>4, <1>5, <1>6, <1>7, <1>8

-----------------------------------------------------------------------------
(* The run that takes the step.                                              *)

OwnKept(r) ==
    /\ StageOf(r)'
    /\ (mode.loader # "file")' => ColumnsOf(r)'
    /\ HasStaging' => StagingOf(r)' /\ (~Exists(stagingCols') => staging' = NoRows)
    /\ TruncatedOf(r)'

(* What holds of the run before the step.                                    *)
LEMMA OwnBefore ==
    ASSUME StageInv, ColumnsInv, StagingInv, TruncatedInv, NEW r \in Runs
    PROVE  /\ StageOf(r) /\ TruncatedOf(r)
           /\ mode.loader # "file" => ColumnsOf(r)
           /\ HasStaging => StagingOf(r) /\ (~Exists(stagingCols) => staging = NoRows)
BY DEF StageInv, ColumnsInv, StagingInv, TruncatedInv

(* A run that begins.                                                        *)
LEMMA BeginsKeeps ==
    ASSUME LoadTypeOK, StageInv, ColumnsInv, StagingInv, TruncatedInv, NEW r \in Runs,
           NEW s \in Schemas,
           \/ Reflect(r, s) \/ ReflectMSSQL(r, s)
           \/ OpenFile(r, s)
    PROVE  OwnKept(r)
<1>1. /\ Begins(r, s) /\ pc[r] = "idle" /\ dest'[r] = {} /\ KeyColumn \in carried'[r]
      /\ UNCHANGED <<columns, stagingCols, staging, target, contract, mode>>
  <2>1. Begins(r, s)
    BY DEF Reflect, ReflectMSSQL, OpenFile
  <2>2. carried'[r] = s.carried
    BY <2>1 DEF Begins, LoadTypeOK
  <2> QED  BY <2>1, <2>2, OwnBefore, LoadAssumption DEF Begins, tables, StageOf
<1>2. CASE Reflect(r, s) \/ ReflectMSSQL(r, s)
  <2>1. /\ pc'[r] = IF Exists(columns) THEN "contract" ELSE "create"
        /\ seen'[r] = columns /\ mode.loader # "file"
    BY <1>2 DEF Reflect, ReflectMSSQL, Goto, LoadTypeOK
  <2>2. StageOf(r)' /\ TruncatedOf(r)'
    BY <1>1, <2>1 DEF StageOf, TruncatedOf, AtStaging
  <2>3. ColumnsOf(r)'
    BY <1>1, <2>1 DEF ColumnsOf, Settled, Ready, AtStaging
  <2>4. StagingOf(r)'
    BY <2>1 DEF StagingOf, Ready
  <2>5. HasStaging' /\ ~Exists(stagingCols') => staging' = NoRows
    BY <1>1, OwnBefore DEF HasStaging
  <2> QED  BY <2>2, <2>3, <2>4, <2>5 DEF OwnKept
<1>3. CASE OpenFile(r, s)
  <2>1. pc'[r] = "open" /\ mode'.loader = "file" /\ ~HasStaging'
    BY <1>1, <1>3 DEF OpenFile, Goto, LoadTypeOK, HasStaging
  <2>2. StageOf(r)' /\ TruncatedOf(r)'
    BY <1>1, <2>1 DEF StageOf, TruncatedOf, AtStaging
  <2> QED  BY <2>1, <2>2 DEF OwnKept
<1> QED  BY <1>2, <1>3

LEMMA RefuseKeeps ==
    ASSUME StageInv, ColumnsInv, StagingInv, TruncatedInv, NEW r \in Runs, RefuseMerge(r)
    PROVE  OwnKept(r)
<1>1. UNCHANGED <<tables, contract, mode, alone, pc, wanted, carried, seen, dest, batch>>
  BY DEF RefuseMerge
<1> QED
  BY <1>1, OwnBefore DEF OwnKept, tables, StageOf, ColumnsOf, StagingOf, TruncatedOf,
     NewColumns, HasStaging

(* A run that prepares its target table.                                     *)
LEMMA TargetKeeps ==
    ASSUME LoadTypeOK, StageInv, ColumnsInv, StagingInv, TruncatedInv, NEW r \in Runs,
           CreateTable(r) \/ ContractMet(r) \/ \E c \in Columns : AddColumn(r, c)
    PROVE  OwnKept(r)
<1>1. /\ UNCHANGED <<stagingCols, staging, target, contract, mode, alone, wanted, carried, seen>>
      /\ pc[r] \in {"create", "contract"} /\ mode.loader # "file"
      /\ KeyColumn \in carried[r]
  <2>1. /\ UNCHANGED <<stagingCols, staging, target, contract, mode, alone, wanted, carried,
                       seen>>
        /\ pc[r] \in {"create", "contract"}
    BY DEF CreateTable, ContractMet, AddColumn, fixed, tables
  <2> QED  BY <2>1, OwnBefore DEF StageOf
<1>2. HasStaging' /\ ~Exists(stagingCols') => staging' = NoRows
  BY <1>1, OwnBefore DEF HasStaging
<1>3. HasStaging' <=> HasStaging
  BY <1>1 DEF HasStaging
<1>4. CASE CreateTable(r) \/ ContractMet(r)
  <2>1. pc'[r] = AfterTarget
    BY <1>4 DEF CreateTable, ContractMet, Goto, LoadTypeOK
  <2>2. StageOf(r)' /\ TruncatedOf(r)'
    BY <1>1, <1>3, <2>1 DEF StageOf, TruncatedOf, AtStaging, AfterTarget
  <2>3. HasStaging => StagingOf(r)'
    BY <2>1 DEF StagingOf, Ready, AfterTarget
  <2>4. pc'[r] \in {"staging", "open"}
    BY <2>1 DEF AfterTarget
  <2>5. CASE CreateTable(r)
    <3>1. columns' = wanted[r] /\ dest'[r] = wanted[r] /\ wanted[r] \in SUBSET Columns
      BY <2>5 DEF CreateTable, LoadTypeOK
    <3>2. Exists(columns')
      BY <3>1, ColumnsExist
    <3>3. ColumnsOf(r)'
      BY <1>1, <2>4, <3>1, <3>2 DEF ColumnsOf, Settled, Ready, AtStaging
    <3> QED  BY <1>2, <1>3, <2>2, <2>3, <3>3 DEF OwnKept
  <2>6. CASE ContractMet(r)
    <3>1. /\ UNCHANGED columns /\ dest'[r] = DestColumns(r) /\ pc[r] = "contract"
          /\ Altered(r) /\ ~Violation(r)
      BY <2>6 DEF ContractMet, LoadTypeOK, tables
    <3>2. /\ Exists(columns) /\ seen[r] \subseteq columns
          /\ dest[r] \subseteq columns \intersect NewColumns(r)
          /\ alone[r] /\ contract.new # "evolve" => seen[r] = columns
      BY <1>1, <3>1, OwnBefore DEF ColumnsOf
    <3>3. contract.new \in {"evolve", "freeze", "discard"}
      BY LoadAssumption DEF LoadTypeOK
    <3>4. contract.new = "evolve" => DestColumns(r) = wanted[r] /\ wanted[r] \subseteq columns
      BY <3>1, <3>2 DEF DestColumns, Altered, NewColumns
    <3>5. contract.new # "evolve" => DestColumns(r) = wanted[r] \intersect seen[r]
      BY DEF DestColumns
    <3>6. contract.new = "freeze" => DestColumns(r) = wanted[r]
      BY <3>1, <3>5 DEF Violation, NewColumns
    <3>7. DestColumns(r) \subseteq columns \intersect wanted[r]
      BY <3>2, <3>4, <3>5
    <3>8. contract.new # "discard" => DestColumns(r) = wanted[r]
      BY <3>3, <3>4, <3>6
    <3>9. alone[r] /\ carried[r] \subseteq wanted[r] =>
             carried[r] \intersect columns \subseteq DestColumns(r)
      BY <3>2, <3>4, <3>5
    <3>10. ColumnsOf(r)'
      BY <1>1, <2>4, <3>1, <3>2, <3>7, <3>8, <3>9 DEF ColumnsOf, Settled, Ready, AtStaging
    <3> QED  BY <1>2, <1>3, <2>2, <2>3, <3>10 DEF OwnKept
  <2> QED  BY <1>4, <2>5, <2>6
<1>5. ASSUME NEW c \in Columns, AddColumn(r, c)  PROVE  OwnKept(r)
  <2>1. /\ pc[r] = "contract" /\ UNCHANGED pc /\ contract.new = "evolve"
        /\ columns' = columns \union {c} /\ dest'[r] = dest[r] \union {c}
        /\ c \in NewColumns(r)
    BY <1>5 DEF AddColumn, LoadTypeOK
  <2>2. StageOf(r)' /\ TruncatedOf(r)'
    BY <1>1, <1>3, <2>1 DEF StageOf, TruncatedOf, AtStaging
  <2>3. /\ Exists(columns) /\ Exists(seen[r]) /\ seen[r] \subseteq columns
        /\ dest[r] \subseteq columns \intersect NewColumns(r)
    BY <1>1, <2>1, OwnBefore DEF ColumnsOf
  <2>4. Exists(columns')
    <3>1. columns \union {c} \in SUBSET Columns
      BY <2>3, ColumnsAre DEF LoadTypeOK
    <3> QED  BY <2>1, <3>1, ColumnsExist
  <2>5. NewColumns(r)' = NewColumns(r)
    BY <1>1 DEF NewColumns
  <2>6. ColumnsOf(r)'
    BY <1>1, <2>1, <2>3, <2>4, <2>5 DEF ColumnsOf, Settled, Ready, AtStaging
  <2>7. StagingOf(r)'
    BY <2>1 DEF StagingOf, Ready
  <2> QED  BY <1>2, <2>2, <2>6, <2>7 DEF OwnKept
<1> QED  BY <1>4, <1>5

(* A run that prepares its staging table.                                    *)
LEMMA StagingKeeps ==
    ASSUME LoadTypeOK, StageInv, ColumnsInv, StagingInv, TruncatedInv, NEW r \in Runs,
           \/ ReflectStaging(r) \/ CreateStaging(r) \/ TruncateStaging(r)
           \/ \E c \in Columns : AddStagingColumn(r, c)
    PROVE  OwnKept(r)
<1>1. /\ UNCHANGED <<columns, target, contract, mode, alone, wanted, carried, dest>>
      /\ pc[r] \in AtStaging /\ mode.loader # "file" /\ HasStaging
      /\ KeyColumn \in carried[r]
  <2>1. /\ UNCHANGED <<columns, target, contract, mode, alone, wanted, carried, dest>>
        /\ pc[r] \in AtStaging /\ pc[r] # "idle"
    BY DEF ReflectStaging, CreateStaging, TruncateStaging, AddStagingColumn, fixed, tables,
           AtStaging
  <2> QED  BY <2>1, OwnBefore DEF StageOf
<1>2. pc'[r] \in {"create staging", "evolve staging", "open"}
  BY DEF ReflectStaging, CreateStaging, TruncateStaging, AddStagingColumn, Goto, LoadTypeOK
<1>3. (HasStaging' <=> HasStaging) /\ StagingOf(r) /\ ColumnsOf(r)
      /\ (~Exists(stagingCols) => staging = NoRows)
  BY <1>1, OwnBefore DEF HasStaging
<1>4. StageOf(r)' /\ TruncatedOf(r)'
  BY <1>1, <1>2, <1>3 DEF StageOf, TruncatedOf, AtStaging
<1>5. ColumnsOf(r)'
  <2>1. /\ Exists(columns)
        /\ dest[r] \subseteq columns \intersect wanted[r]
        /\ contract.new # "discard" => dest[r] = wanted[r]
        /\ alone[r] /\ carried[r] \subseteq wanted[r] =>
              carried[r] \intersect columns \subseteq dest[r]
    BY <1>1, <1>3 DEF ColumnsOf, Settled
  <2>2. pc'[r] # "contract"
    BY <1>2
  <2> QED  BY <1>1, <2>1, <2>2 DEF ColumnsOf
<1>7. CASE ReflectStaging(r)
  <2>1. /\ UNCHANGED <<stagingCols, staging>> /\ seen'[r] = stagingCols
        /\ pc'[r] = IF Exists(stagingCols) THEN "evolve staging" ELSE "create staging"
    BY <1>7 DEF ReflectStaging, Goto, LoadTypeOK, tables
  <2>2. StagingOf(r)'
    BY <2>1 DEF StagingOf, Ready
  <2> QED  BY <1>3, <1>4, <1>5, <2>1, <2>2 DEF OwnKept
<1>8. CASE CreateStaging(r)
  <2>1. /\ ~Exists(stagingCols) /\ stagingCols' = wanted[r] /\ UNCHANGED staging
        /\ pc'[r] = "open" /\ wanted[r] \in SUBSET Columns
    BY <1>8 DEF CreateStaging, Goto, LoadTypeOK
  <2>2. Exists(stagingCols')
    BY <2>1, ColumnsExist
  <2>3. StagingOf(r)'
    <3>1. staging' = NoRows'
      BY <1>3, <2>1 DEF NoRows
    <3> QED  BY <1>1, <2>1, <2>2, <3>1 DEF StagingOf
  <2> QED  BY <1>4, <1>5, <2>2, <2>3 DEF OwnKept
<1>9. CASE TruncateStaging(r)
  <2>1. /\ pc[r] = "evolve staging" /\ NewColumns(r) = {} /\ staging' = NoRows
        /\ UNCHANGED stagingCols /\ pc'[r] = "open"
    BY <1>9 DEF TruncateStaging, Goto, LoadTypeOK
  <2>2. Exists(stagingCols) /\ seen[r] \subseteq stagingCols
    BY <1>3, <2>1 DEF StagingOf
  <2>3. wanted[r] \subseteq stagingCols
    BY <2>1, <2>2 DEF NewColumns
  <2>4. StagingOf(r)'
    BY <1>1, <2>1, <2>2, <2>3 DEF StagingOf
  <2> QED  BY <1>4, <1>5, <2>1, <2>2, <2>4 DEF OwnKept
<1>10. ASSUME NEW c \in Columns, AddStagingColumn(r, c)  PROVE  OwnKept(r)
  <2>1. /\ pc[r] = "evolve staging" /\ UNCHANGED pc
        /\ stagingCols' = stagingCols \union {c} /\ seen'[r] = seen[r] \union {c}
    BY <1>10 DEF AddStagingColumn, LoadTypeOK
  <2>2. Exists(stagingCols) /\ Exists(seen[r]) /\ seen[r] \subseteq stagingCols
    BY <1>3, <2>1 DEF StagingOf
  <2>3. Exists(stagingCols') /\ Exists(seen'[r])
    <3>1. stagingCols \union {c} \in SUBSET Columns /\ seen[r] \union {c} \in SUBSET Columns
      BY <2>2, ColumnsAre DEF LoadTypeOK
    <3> QED  BY <2>1, <3>1, ColumnsExist
  <2>4. StagingOf(r)'
    BY <2>1, <2>2, <2>3 DEF StagingOf, Ready
  <2> QED  BY <1>4, <1>5, <2>3, <2>4 DEF OwnKept
<1> QED  BY <1>7, <1>8, <1>9, <1>10

(* A run that writes, and prepares what it commits.                          *)
LEMMA WriteKeeps ==
    ASSUME LoadTypeOK, StageInv, ColumnsInv, StagingInv, TruncatedInv, NEW r \in Runs,
           \/ TruncateTarget(r) \/ StageToS3(r)
           \/ \E rows \in [Keys -> 0..Copies] : Write(r, rows)
    PROVE  OwnKept(r)
<1>1. /\ UNCHANGED <<columns, stagingCols, staging, contract, mode, alone, wanted, carried,
                     seen, dest>>
      /\ pc[r] \in {"open", "loaded", "truncated"}
  BY DEF TruncateTarget, StageToS3, Write, fixed, tables
<1>2. /\ pc'[r] \in {"loaded", "truncated", "staged"}
      /\ pc'[r] = "truncated" => mode = ReplaceByCopy /\ target' = NoRows
      /\ pc'[r] = "staged" => mode.loader = "copy" /\ UNCHANGED target
                               /\ pc[r] = (IF mode.disposition = "replace" THEN "truncated"
                                           ELSE "loaded")
      /\ pc'[r] = "loaded" => pc[r] = "open"
  BY DEF TruncateTarget, StageToS3, Write, Goto, LoadTypeOK, tables, ReplaceByCopy
<1>3. /\ StageOf(r) /\ TruncatedOf(r) /\ (HasStaging' <=> HasStaging)
      /\ mode.loader # "file" => ColumnsOf(r)
      /\ HasStaging => StagingOf(r) /\ (~Exists(stagingCols) => staging = NoRows)
  BY <1>1, OwnBefore DEF HasStaging
<1>4. StageOf(r)'
  BY <1>1, <1>2, <1>3 DEF StageOf, AtStaging
<1>5. TruncatedOf(r)'
  <2>1. mode = ReplaceByCopy => mode.disposition = "replace"
    BY DEF ReplaceByCopy
  <2>2. CASE pc'[r] = "truncated"
    BY <1>2, <2>2 DEF TruncatedOf, NoRows
  <2>3. CASE pc'[r] = "staged"
    BY <1>1, <1>2, <1>3, <2>1, <2>3 DEF TruncatedOf, NoRows
  <2>4. CASE pc'[r] = "loaded"
    BY <2>4 DEF TruncatedOf
  <2> QED  BY <1>2, <2>2, <2>3, <2>4
<1>6. mode.loader # "file" => ColumnsOf(r)'
  BY <1>1, <1>2, <1>3 DEF ColumnsOf, Settled, Ready, AtStaging
<1>7. HasStaging => StagingOf(r)' /\ (~Exists(stagingCols') => staging' = NoRows)
  <2>1. mode = ReplaceByCopy => ~HasStaging
    BY DEF ReplaceByCopy, HasStaging
  <2>2. HasStaging => pc'[r] # "truncated" /\ (pc'[r] = "staged" => pc[r] = "loaded")
    BY <1>2, <2>1 DEF HasStaging
  <2> QED  BY <1>1, <1>2, <1>3, <2>2 DEF StagingOf, Ready, NoRows
<1>8. (mode.loader # "file")' <=> mode.loader # "file"
  BY <1>1
<1> QED  BY <1>3, <1>4, <1>5, <1>6, <1>7, <1>8 DEF OwnKept

(* A run that commits, or is over.                                           *)
LEMMA EndKeeps ==
    ASSUME LoadTypeOK, StageInv, ColumnsInv, StagingInv, TruncatedInv, NEW r \in Runs,
           Commits(r) \/ Gone(r)
    PROVE  OwnKept(r)
<1>1. CASE Commits(r)
  <2>1. /\ pc'[r] = "committed" /\ pc[r] # "idle"
        /\ UNCHANGED <<mode, carried, dest, stagingCols>>
        /\ UNCHANGED staging \/ (CommitMerge(r) /\ HasStaging)
    BY <1>1, CommitsReturn DEF Returned, Goto, LoadTypeOK
  <2>2. StageOf(r)' /\ TruncatedOf(r)'
    BY <2>1, OwnBefore DEF StageOf, TruncatedOf, AtStaging
  <2>3. ColumnsOf(r)' /\ StagingOf(r)'
    BY <2>1 DEF ColumnsOf, StagingOf, Settled, Ready, AtStaging
  <2>4. HasStaging' <=> HasStaging
    BY <2>1 DEF HasStaging
  <2>5. CommitMerge(r) /\ HasStaging => Exists(stagingCols)
    BY OwnBefore DEF CommitMerge, MayLoad, StagingOf, Ready
  <2>6. HasStaging /\ ~Exists(stagingCols') => staging' = NoRows
    BY <2>1, <2>5, OwnBefore
  <2> QED  BY <2>2, <2>3, <2>4, <2>6 DEF OwnKept
<1>2. CASE Gone(r)
  <2>1. /\ pc'[r] = "idle" /\ dest'[r] = {}
        /\ UNCHANGED <<mode, stagingCols, staging>>
    BY <1>2 DEF Gone, Over, Goto, LoadTypeOK, tables, fixed
  <2>2. StageOf(r)' /\ TruncatedOf(r)'
    BY <2>1 DEF StageOf, TruncatedOf, AtStaging
  <2>3. ColumnsOf(r)' /\ StagingOf(r)'
    BY <2>1 DEF ColumnsOf, StagingOf, Settled, Ready, AtStaging
  <2>4. HasStaging' /\ ~Exists(stagingCols') => staging' = NoRows
    BY <2>1, OwnBefore DEF HasStaging
  <2> QED  BY <2>2, <2>3, <2>4 DEF OwnKept
<1> QED  BY <1>1, <1>2

-----------------------------------------------------------------------------
(* Theorems.                                                                 *)

RunsInv == StageInv /\ ColumnsInv /\ StagingInv /\ TruncatedInv

(* From the run that steps and the others to all.                            *)
LEMMA AllKept ==
    ASSUME LoadTypeOK, StageInv, ColumnsInv, StagingInv, TruncatedInv, NEW r \in Runs,
           Apart(r), OwnKept(r)
    PROVE  RunsInv'
<1>1. \A q \in Runs \ {r} :
         /\ StageOf(q)' /\ AloneOf(q)'
         /\ (mode.loader # "file")' => ColumnsOf(q)'
         /\ HasStaging' => StagingOf(q)'
         /\ TruncatedOf(q)'
  BY OthersKept
<1>2. AloneOf(r)'
  <2>1. CASE Runs = {r}
    BY <2>1 DEF AloneOf
  <2>2. CASE \E q \in Runs : q # r
    BY <2>2, OthersKept
  <2> QED  BY <2>1, <2>2
<1>3. \A q \in Runs : StageOf(q)' /\ AloneOf(q)'
  BY <1>1, <1>2 DEF OwnKept
<1>4. (mode.loader # "file")' => \A q \in Runs : ColumnsOf(q)'
  BY <1>1 DEF OwnKept
<1>5. HasStaging' => \A q \in Runs : StagingOf(q)'
  BY <1>1 DEF OwnKept
<1>6. \A q \in Runs : TruncatedOf(q)'
  BY <1>1 DEF OwnKept
<1>7. HasStaging' => (~Exists(stagingCols) => staging = NoRows)'
  BY DEF OwnKept, NoRows, Exists
<1> QED
  BY <1>3, <1>4, <1>5, <1>6, <1>7 DEF RunsInv, StageInv, ColumnsInv, StagingInv, TruncatedInv

(* Every step keeps the invariant.                                           *)
LEMMA InvStep ==
    ASSUME LoadInv, [Next]_vars
    PROVE  LoadInv'
<1>0. LoadTypeOK /\ StageInv /\ ColumnsInv /\ StagingInv /\ TruncatedInv
  BY DEF LoadInv
<1>1. LoadTypeOK'
  BY <1>0, TypeStep
<1>2. ASSUME UNCHANGED vars  PROVE  RunsInv'
  <2>1. UNCHANGED <<columns, stagingCols, target, staging, contract, mode, alone, pc, wanted,
                    carried, seen, dest>>
    BY <1>2 DEF vars, tables, fixed
  <2>2. StageInv'
    BY <1>0, <2>1 DEF StageInv, StageOf, AloneOf, HasStaging
  <2>3. ColumnsInv'
    BY <1>0, <2>1 DEF ColumnsInv, ColumnsOf, NewColumns
  <2>4. StagingInv'
    BY <1>0, <2>1 DEF StagingInv, StagingOf, HasStaging, NoRows
  <2>5. TruncatedInv'
    BY <1>0, <2>1 DEF TruncatedInv, TruncatedOf, NoRows
  <2> QED  BY <2>2, <2>3, <2>4, <2>5 DEF RunsInv
<1>3. \A r \in Runs : Apart(r) /\ OwnKept(r) => RunsInv'
  BY <1>0, AllKept
<1>4. ASSUME NEW r \in Runs, NEW s \in Schemas,
             Reflect(r, s) \/ ReflectMSSQL(r, s)
      PROVE  RunsInv'
  BY <1>0, <1>3, <1>4, Apartness, BeginsKeeps
<1>5. ASSUME NEW r \in Runs, NEW s \in Schemas, OpenFile(r, s)  PROVE  RunsInv'
  BY <1>0, <1>3, <1>5, Apartness, BeginsKeeps
<1>6. ASSUME NEW r \in Runs, RefuseMerge(r)  PROVE  RunsInv'
  BY <1>0, <1>3, <1>6, Apartness, RefuseKeeps
<1>7. ASSUME NEW r \in Runs, CreateTable(r)  PROVE  RunsInv'
  BY <1>0, <1>3, <1>7, Apartness, TargetKeeps
<1>8. ASSUME NEW r \in Runs, NEW c \in Columns, AddColumn(r, c)  PROVE  RunsInv'
  BY <1>0, <1>3, <1>8, Apartness, TargetKeeps
<1>9. ASSUME NEW r \in Runs, ContractMet(r)  PROVE  RunsInv'
  BY <1>0, <1>3, <1>9, Apartness, TargetKeeps
<1>10. ASSUME NEW r \in Runs, ReflectStaging(r)  PROVE  RunsInv'
  BY <1>0, <1>3, <1>10, Apartness, StagingKeeps
<1>11. ASSUME NEW r \in Runs, CreateStaging(r)  PROVE  RunsInv'
  BY <1>0, <1>3, <1>11, Apartness, StagingKeeps
<1>12. ASSUME NEW r \in Runs, NEW c \in Columns, AddStagingColumn(r, c)  PROVE  RunsInv'
  BY <1>0, <1>3, <1>12, Apartness, StagingKeeps
<1>13. ASSUME NEW r \in Runs, TruncateStaging(r)  PROVE  RunsInv'
  BY <1>0, <1>3, <1>13, Apartness, StagingKeeps
<1>14. ASSUME NEW r \in Runs, NEW rows \in [Keys -> 0..Copies], Write(r, rows)  PROVE  RunsInv'
  BY <1>0, <1>3, <1>14, Apartness, WriteKeeps
<1>15. ASSUME NEW r \in Runs, TruncateTarget(r)  PROVE  RunsInv'
  BY <1>0, <1>3, <1>15, Apartness, WriteKeeps
<1>16. ASSUME NEW r \in Runs, StageToS3(r)  PROVE  RunsInv'
  BY <1>0, <1>3, <1>16, Apartness, WriteKeeps
<1>17. ASSUME NEW r \in Runs, Commits(r)  PROVE  RunsInv'
  BY <1>0, <1>3, <1>17, Apartness, EndKeeps
<1>18. ASSUME NEW r \in Runs, Gone(r)  PROVE  RunsInv'
  BY <1>0, <1>3, <1>18, Apartness, EndKeeps
<1>20. RunsInv'
  BY <1>4, <1>5, <1>6, <1>7, <1>8, <1>9, <1>10, <1>11, <1>12, <1>13, <1>14, <1>15, <1>16,
     <1>17, <1>18, <1>2, StepCases DEF Commits
<1> QED  BY <1>1, <1>20 DEF LoadInv, RunsInv

(* No table exists and no run is under way to begin with.                    *)
LEMMA InitInv ==
    ASSUME Init
    PROVE  LoadInv
<1>0. {} \in ColumnSets \ {Absent} /\ {} \in ColumnSets /\ Absent \in ColumnSets
  BY ColumnsExist DEF ColumnSets
<1>1. LoadTypeOK
  <2>1. 0 \in 0..MaxRuns
    BY LoadAssumption
  <2>2. NoRows \in [Keys -> Nat]
    BY DEF NoRows
  <2> QED  BY <1>0, <2>1, <2>2 DEF Init, LoadTypeOK
<1>2. StageInv
  BY DEF Init, StageInv, StageOf, AloneOf, AtStaging
<1>3. ColumnsInv
  BY DEF Init, ColumnsInv, ColumnsOf, Settled, AtStaging, Ready
<1>4. StagingInv
  BY DEF Init, StagingInv, StagingOf, Ready
<1>5. TruncatedInv
  BY DEF Init, TruncatedInv, TruncatedOf
<1> QED  BY <1>1, <1>2, <1>3, <1>4, <1>5 DEF LoadInv

(* Whatever the contracts, dispositions, loaders, schemas and the number of  *)
(* runs that overlap, the invariant of the tables and the runs holds.        *)
THEOREM LoadInvariant == Spec => []LoadInv
<1>1. Init => LoadInv
  BY InitInv
<1>2. LoadInv /\ [Next]_vars => LoadInv'
  BY InvStep
<1> QED  BY <1>1, <1>2, PTL DEF Spec

(* The tables and the runs have their types: no table is altered that does   *)
(* not exist.                                                                *)
THEOREM LoadTypeCorrect == Spec => []LoadTypeOK
<1>1. LoadInv => LoadTypeOK
  BY DEF LoadInv
<1> QED  BY <1>1, LoadInvariant, PTL

(* INSERT loads a batch into columns that the target and the staging table   *)
(* have, whichever runs raced on CREATE TABLE and ALTER TABLE, and a run     *)
(* that was alone loads all columns of its rows that the table has; a file   *)
(* of discovered columns, none of them discarded, brings COPY only columns   *)
(* of its table.                                                             *)
THEOREM LoadsIntoItsColumns == Spec => []LoadsFit
<1>1. ASSUME LoadInv  PROVE  LoadsFit
  <2> SUFFICES ASSUME NEW r \in Runs, mode.loader # "file",
                      pc[r] \in Ready \union {"truncated"}
               PROVE  /\ ~CopiesToTarget =>
                            /\ dest[r] \subseteq columns
                            /\ HasStaging => dest[r] \subseteq stagingCols
                            /\ alone[r] /\ carried[r] \subseteq wanted[r] =>
                                  carried[r] \intersect columns \subseteq dest[r]
                      /\ mode.loader = "copy" /\ carried[r] \subseteq wanted[r]
                         /\ (contract.new # "discard" \/ HasStaging)
                            => carried[r] \subseteq CopyColumns
    BY DEF LoadsFit, Ready
  <2>1. StageOf(r) /\ ColumnsOf(r) /\ (HasStaging => StagingOf(r))
    BY <1>1 DEF LoadInv, StageInv, ColumnsInv, StagingInv
  <2>2. /\ dest[r] \subseteq columns \intersect wanted[r]
        /\ contract.new # "discard" => dest[r] = wanted[r]
        /\ alone[r] /\ carried[r] \subseteq wanted[r] =>
              carried[r] \intersect columns \subseteq dest[r]
    BY <2>1 DEF ColumnsOf, Settled
  <2>3. ASSUME HasStaging  PROVE  wanted[r] \subseteq stagingCols
    <3>1. pc[r] # "truncated"
      BY <2>1, <2>3 DEF StageOf, ReplaceByCopy, HasStaging
    <3> QED  BY <2>1, <2>3, <3>1 DEF StagingOf
  <2>4. ASSUME carried[r] \subseteq wanted[r], contract.new # "discard" \/ HasStaging
        PROVE  carried[r] \subseteq CopyColumns
    BY <2>2, <2>3, <2>4 DEF CopyColumns
  <2> QED  BY <2>2, <2>3, <2>4
<1> QED  BY <1>1, LoadInvariant, PTL

(* The rows of a run that was alone keep their key.                          *)
LEMMA KeyKept ==
    ASSUME LoadInv, NEW r \in Runs, alone[r], Discovered(r), mode.loader # "file",
           pc[r] \in Settled
    PROVE  KeyColumn \in dest[r] /\ Keyed(r) = batch[r]
<1>1. StageOf(r) /\ ColumnsOf(r)
  BY DEF LoadInv, StageInv, ColumnsInv
<1>2. KeyColumn \in carried[r]
  BY <1>1 DEF StageOf, Settled, AtStaging, Ready
<1>3. KeyColumn \in dest[r]
  <2>1. CASE contract.new # "discard"
    BY <1>1, <1>2, <2>1 DEF ColumnsOf, Discovered
  <2>2. CASE contract.new = "discard"
    BY <1>1, <1>2, <2>2 DEF ColumnsOf, Discovered
  <2> QED  BY <2>1, <2>2
<1> QED  BY <1>3 DEF Keyed

(* The batch a step commits is as the disposition promises.                  *)
LEMMA Delivers ==
    ASSUME LoadInv, NEW r \in Runs, Commits(r), mode # ReplaceWithoutS3,
           mode.loader = "file" \/ (alone[r] /\ Discovered(r))
    PROVE  target' = Delivered(target, batch[r])
<1>0. /\ LoadTypeOK /\ StageOf(r)
      /\ target \in [Keys -> Nat] /\ staging \in [Keys -> Nat] /\ batch[r] \in [Keys -> Nat]
      /\ mode \in Modes
  BY DEF LoadInv, StageInv, LoadTypeOK
<1>1. /\ mode.disposition \in {"append", "replace", "merge"}
      /\ mode.loader \in {"insert", "copy", "file", "mssql"}
      /\ mode = [disposition |-> mode.disposition, loader |-> mode.loader]
  BY <1>0, LoadAssumption
<1>2. ASSUME pc[r] \in Settled, mode.loader # "file"
      PROVE  KeyColumn \in dest[r] /\ Keyed(r) = batch[r]
  BY <1>2, KeyKept
<1>3. ASSUME NEW new \in [Keys -> Nat], target' = new,
             \A k \in Keys : new[k] = Delivered(target, batch[r])[k]
      PROVE  target' = Delivered(target, batch[r])
  BY <1>3 DEF Delivered
<1>4. \A k \in Keys :
         /\ Adds => Delivered(target, batch[r])[k] = target[k] + batch[r][k]
         /\ ~Adds /\ mode.disposition = "replace" =>
               Delivered(target, batch[r])[k] = batch[r][k]
         /\ ~Adds /\ mode.disposition = "merge" =>
               Delivered(target, batch[r])[k] =
                  IF batch[r][k] > 0 THEN Upserted(batch[r][k]) ELSE target[k]
  BY DEF Delivered
<1>5. ASSUME UNCHANGED target, batch[r] = NoRows, Adds \/ mode.disposition = "merge"
      PROVE  target' = Delivered(target, batch[r])
  <2>1. \A k \in Keys : batch[r][k] = 0 /\ target[k] \in Nat
    BY <1>0, <1>5 DEF NoRows
  <2>2. \A k \in Keys : target[k] = Delivered(target, batch[r])[k]
    BY <1>4, <1>5, <2>1
  <2> QED  BY <1>0, <1>3, <1>5, <2>2
<1>6. ASSUME target' = Added(batch[r]), Adds
      PROVE  target' = Delivered(target, batch[r])
  <2>1. \A k \in Keys : Added(batch[r])[k] = target[k] + batch[r][k]
    BY DEF Added
  <2>2. \A k \in Keys : Added(batch[r])[k] = Delivered(target, batch[r])[k]
    BY <1>4, <1>6, <2>1
  <2>3. Added(batch[r]) \in [Keys -> Nat]
    BY <1>0, RowTypes
  <2> QED  BY <1>3, <1>6, <2>2, <2>3
<1>7. ASSUME target' = batch[r], mode.disposition = "replace", ~Adds
      PROVE  target' = Delivered(target, batch[r])
  BY <1>0, <1>3, <1>4, <1>7
<1>8. CASE CommitEmpty(r)
  <2>1. mode.disposition # "replace" \/ mode.loader = "file"
    BY <1>8 DEF CommitEmpty
  <2> QED  BY <1>1, <1>5, <1>8, <2>1 DEF CommitEmpty, Adds
<1>9. CASE CommitReplaceAbstract(r)
  BY <1>9 DEF CommitReplaceAbstract
<1>10. CASE CommitReplaceEmpty(r)
  <2>1. pc[r] = "truncated" /\ batch[r] = NoRows /\ UNCHANGED target
    BY <1>10 DEF CommitReplaceEmpty
  <2>2. mode = ReplaceByCopy
    BY <1>0, <2>1 DEF StageOf
  <2>3. ~Adds /\ mode.disposition = "replace" /\ mode.loader # "file"
    BY <2>2 DEF ReplaceByCopy, Adds
  <2>4. target = NoRows
    BY <2>1, <2>2, <2>3 DEF LoadInv, TruncatedInv, TruncatedOf
  <2> QED  BY <1>7, <2>1, <2>3, <2>4
<1>11. CASE CommitRows(r)
  <2>1. /\ pc[r] \in Settled /\ mode.loader # "file" /\ target' = Added(Keyed(r))
        /\ mode.disposition = "append" \/ (mode = ReplaceByCopy /\ pc[r] = "staged")
    BY <1>0, <1>11 DEF CommitRows, MayLoad, StageOf, Settled, Ready, ReplaceByCopy
  <2>2. Keyed(r) = batch[r]
    BY <1>2, <2>1
  <2>3. CASE mode.disposition = "append"
    BY <1>6, <2>1, <2>2, <2>3 DEF Adds
  <2>4. CASE mode = ReplaceByCopy /\ pc[r] = "staged"
    <3>1. target = NoRows
      BY <2>1, <2>4 DEF LoadInv, TruncatedInv, TruncatedOf
    <3>2. Added(batch[r]) = batch[r]
      <4>1. \A k \in Keys : target[k] + batch[r][k] = batch[r][k]
        BY <1>0, <3>1 DEF NoRows
      <4> QED  BY <1>0, <4>1 DEF Added
    <3> QED  BY <1>7, <2>1, <2>2, <2>4, <3>2 DEF ReplaceByCopy, Adds
  <2> QED  BY <2>1, <2>3, <2>4
<1>12. CASE CommitMerge(r)
  <2> DEFINE rows == [k \in Keys |-> staging[k] + Keyed(r)[k]]
  <2>1. /\ HasStaging /\ pc[r] \in Ready /\ mode.loader # "file"
        /\ target' = IF KeyColumn \in dest[r] THEN Merged(rows)
                     ELSE [k \in Keys |-> IF rows[k] > 0 THEN 0 ELSE target[k]]
    BY <1>0, <1>12 DEF CommitMerge, MayLoad, StageOf, Ready
  <2>2. KeyColumn \in dest[r] /\ Keyed(r) = batch[r]
    BY <1>2, <2>1 DEF Settled
  <2>3. staging = NoRows
    BY <2>1 DEF LoadInv, StagingInv, StagingOf
  <2>4. rows = batch[r]
    <3>1. \A k \in Keys : staging[k] + batch[r][k] = batch[r][k]
      BY <1>0, <2>3 DEF NoRows
    <3> QED  BY <1>0, <2>2, <3>1
  <2>5. target' = Merged(batch[r])
    BY <2>1, <2>2, <2>4
  <2>6. ~Adds /\ mode.disposition = "merge" /\ mode.loader # "mssql"
    BY <2>1 DEF HasStaging, Adds
  <2>7. \A k \in Keys : Merged(batch[r])[k] = Delivered(target, batch[r])[k]
    BY <1>4, <2>6 DEF Merged, Upserted
  <2>8. Merged(batch[r]) \in [Keys -> Nat]
    BY <1>0, RowTypes
  <2> QED  BY <1>3, <2>5, <2>7, <2>8
<1>13. CASE PutFile(r)
  BY <1>6, <1>13 DEF PutFile, Adds
<1>14. CASE CommitAppendMSSQL(r)
  <2>1. pc[r] \in Settled /\ mode.loader # "file" /\ Adds /\ target' = Added(Keyed(r))
    BY <1>14 DEF CommitAppendMSSQL, Settled, Ready, Adds
  <2> QED  BY <1>2, <1>6, <2>1
<1>15. CASE CommitReplaceMSSQL(r)
  <2>1. /\ pc[r] \in Settled /\ mode.loader # "file" /\ ~Adds
        /\ mode.disposition = "replace" /\ target' = Keyed(r)
    BY <1>15 DEF CommitReplaceMSSQL, Settled, Ready, Adds
  <2> QED  BY <1>2, <1>7, <2>1
<1>16. CASE CommitMergeMSSQL(r)
  <2>1. /\ ~Adds /\ mode.disposition = "merge" /\ mode.loader = "mssql"
        /\ target' = Merged(Deduplicated(batch[r]))
    BY <1>16 DEF CommitMergeMSSQL, Adds
  <2>2. \A k \in Keys : Merged(Deduplicated(batch[r]))[k] =
                           IF batch[r][k] > 0 THEN 1 ELSE target[k]
    BY DEF Merged, Deduplicated
  <2>3. \A k \in Keys : Merged(Deduplicated(batch[r]))[k] = Delivered(target, batch[r])[k]
    BY <1>4, <2>1, <2>2 DEF Upserted
  <2>4. Merged(Deduplicated(batch[r])) \in [Keys -> Nat]
    BY <1>0, RowTypes
  <2> QED  BY <1>3, <2>1, <2>3, <2>4
<1> QED
  BY <1>8, <1>9, <1>10, <1>11, <1>12, <1>13, <1>14, <1>15, <1>16 DEF Commits

(* The runs for which a step returns from commit.                            *)
LEMMA WhoCommits ==
    ASSUME LoadInv, [Next]_vars, NEW r \in Runs, pc[r] # "committed", pc'[r] = "committed"
    PROVE  Commits(r)
<1>0. pc \in [Runs -> Places] /\ LoadTypeOK /\ StageInv /\ ColumnsInv /\ StagingInv
  BY DEF LoadInv, LoadTypeOK, Places
<1>1. ASSUME NEW q \in Runs, NEW label \in Places \ {"committed"}, Goto(q, label)  PROVE  Commits(r)
  BY <1>0, <1>1 DEF Goto
<1>2. UNCHANGED pc => Commits(r)
  OBVIOUS
<1>3. ASSUME NEW q \in Runs, Commits(q)  PROVE  Commits(r)
  <2>1. Goto(q, "committed")
    BY <1>0, <1>3, CommitsReturn DEF LoadInv, Returned
  <2>2. q = r
    BY <1>0, <2>1 DEF Goto
  <2> QED  BY <1>3, <2>2
<1>4. ASSUME NEW q \in Runs, NEW s \in Schemas,
             Reflect(q, s) \/ ReflectMSSQL(q, s)
      PROVE  Commits(r)
  BY <1>1, <1>4 DEF Reflect, ReflectMSSQL, Places
<1>5. ASSUME NEW q \in Runs, NEW s \in Schemas, OpenFile(q, s)  PROVE  Commits(r)
  BY <1>1, <1>5 DEF OpenFile, Places
<1>6. ASSUME NEW q \in Runs,
             CreateTable(q) \/ ContractMet(q) \/ ReflectStaging(q) \/ CreateStaging(q)
                \/ TruncateStaging(q)
      PROVE  Commits(r)
  BY <1>1, <1>6 DEF CreateTable, ContractMet, ReflectStaging, CreateStaging, TruncateStaging,
     AfterTarget, Places
<1>7. ASSUME NEW q \in Runs, TruncateTarget(q) \/ StageToS3(q) \/ Gone(q)  PROVE  Commits(r)
  BY <1>1, <1>7 DEF TruncateTarget, StageToS3, Gone, Over, Places
<1>8. ASSUME NEW q \in Runs, NEW rows \in [Keys -> 0..Copies], Write(q, rows)  PROVE  Commits(r)
  BY <1>1, <1>8 DEF Write, Places
<1>9. ASSUME NEW q \in Runs, NEW c \in Columns, AddColumn(q, c) \/ AddStagingColumn(q, c)
      PROVE  Commits(r)
  BY <1>2, <1>9 DEF AddColumn, AddStagingColumn
<1>10. ASSUME NEW q \in Runs, RefuseMerge(q)  PROVE  Commits(r)
  BY <1>2, <1>10 DEF RefuseMerge
<1>11. CASE UNCHANGED vars
  BY <1>2, <1>11 DEF vars
<1>12. ASSUME NEW q \in Runs,
              \/ CommitEmpty(q) \/ CommitReplaceAbstract(q) \/ CommitReplaceEmpty(q)
              \/ CommitRows(q) \/ CommitMerge(q) \/ PutFile(q) \/ CommitAppendMSSQL(q)
              \/ CommitReplaceMSSQL(q) \/ CommitMergeMSSQL(q)
       PROVE  Commits(r)
  BY <1>3, <1>12 DEF Commits
<1> QED
  BY <1>4, <1>5, <1>6, <1>7, <1>8, <1>9, <1>10, <1>11, <1>12, StepCases

(* When commit returns, the batch of a run that was alone, or that writes a  *)
(* file, is in the table as its write disposition promises.                  *)
THEOREM CommitIsDelivery == Spec => CommitDelivers
<1> DEFINE A == \A r \in Runs :
                   /\ mode.loader = "file" \/ (alone[r] /\ Discovered(r))
                   /\ mode # ReplaceWithoutS3
                   /\ pc[r] # "committed" /\ pc'[r] = "committed"
                   => target' = Delivered(target, batch[r])
<1>1. LoadInv /\ [Next]_vars => [A]_vars
  BY WhoCommits, Delivers
<1> HIDE DEF A
<1>2. Spec => [][A]_vars
  BY <1>1, LoadInvariant, PTL DEF Spec
<1> QED  BY <1>2 DEF CommitDelivers, A
=============================================================================
