------------------------- MODULE CursorSourceProofs -------------------------
(* Proofs about incremental reads by a cursor column.                        *)
EXTENDS CursorSource, WellFoundedInduction, TLAPS

-----------------------------------------------------------------------------
(* Steps by who takes them.                                                  *)

(* Every step but a stutter is a writer's, one of the run, or a fault.       *)
LEMMA StepCases ==
    ASSUME [Next]_vars, NEW P,
           UNCHANGED vars => P,
           \A i \in Ids : Write(i, Clock) => P,
           \A i \in Ids : Write(i, Clock + 1) => P,
           \A i \in Ids : WriteNull(i) => P,
           \A w \in Versions : Become(w) => P,
           \A w \in Versions : Remove(w) => P,
           \A full \in FullRefresh : Begin(full) => P,
           Execute => P, Drain => P, Commit => P, SetState => P, SetRaises => P,
           RefuseFile => P, FirstBatchFails => P, ReadFails => P, CommitFails => P,
           AckLost => P, SetFails => P, Crash => P
    PROVE  P
BY DEF Next, Step, Stop

-----------------------------------------------------------------------------
(* The largest cursor.                                                       *)

(* A set of cursors has a largest one.                                       *)
LEMMA LargestExists ==
    ASSUME NEW S \in SUBSET (0..MaxCursor), S # {}
    PROVE  \E c \in S : \A d \in S : d <= c
<1> DEFINE T == {MaxCursor - c : c \in S}
<1>0. MaxCursor \in Nat
  BY CursorAssumption
<1>1. T \subseteq Nat /\ T # {}
  BY <1>0
<1>2. PICK t \in T : \A u \in T : <<u, t>> \notin OpToRel(<, Nat)
  BY <1>1, NatLessThanWellFounded, WFMin
<1>3. \A u \in T : u \in Nat /\ t \in Nat
  BY <1>1
<1>4. \A u \in T : ~(u < t)
  BY <1>2, <1>3 DEF OpToRel
<1>5. PICK c \in S : t = MaxCursor - c
  OBVIOUS
<1>6. ASSUME NEW d \in S  PROVE  d <= c
  <2>1. MaxCursor - d \in T
    OBVIOUS
  <2>2. ~(MaxCursor - d < MaxCursor - c)
    BY <1>4, <1>5, <2>1
  <2> QED  BY <1>0, <2>2
<1> QED  BY <1>6

(* What LargestOf picks.                                                     *)
LEMMA LargestOfIs ==
    ASSUME NEW S \in SUBSET (0..MaxCursor)
    PROVE  /\ S = {} => LargestOf(S) = Unset
           /\ S # {} => LargestOf(S) \in S /\ \A d \in S : d <= LargestOf(S)
BY LargestExists DEF LargestOf

(* The larger of two watermarks, either of which may be missing.             *)
LEMMA LargestIs ==
    ASSUME NEW a \in Marks, NEW b \in Marks
    PROVE  /\ Largest(a, b) \in {a, b}
           /\ a # Unset => Largest(a, b) # Unset /\ a <= Largest(a, b)
           /\ b # Unset => Largest(a, b) # Unset /\ b <= Largest(a, b)
BY CursorAssumption DEF Largest, Marks

(* Cursors are values, and none of them is Unset.                            *)
LEMMA CursorTypes ==
    ASSUME CursorTypeOK, NEW S \in SUBSET (1..Len(writes))
    PROVE  /\ \A w \in S : CursorOf(w) \in 0..MaxCursor \union {Null}
           /\ Cursors(S) \in SUBSET (0..MaxCursor)
           /\ Unset \notin Cursors(S)
           /\ \A w \in S : CursorOf(w) # Null => CursorOf(w) \in Cursors(S)
<1> DEFINE Row == [id : Ids, cursor : 0..MaxCursor \union {Null}]
<1>0. writes \in Seq(Row)
  BY DEF CursorTypeOK
<1>1. \A w \in S : writes[w] \in Row
  <2> HIDE DEF Row
  <2> QED  BY <1>0
<1>2. \A w \in S : CursorOf(w) \in 0..MaxCursor \union {Null}
  BY <1>1 DEF CursorOf
<1>3. Cursors(S) \subseteq 0..MaxCursor
  BY <1>2 DEF Cursors
<1>4. Unset \notin 0..MaxCursor
  BY CursorAssumption
<1> QED  BY <1>2, <1>3, <1>4 DEF Cursors

(* The clock of the writers.                                                 *)
LEMMA ClockType ==
    ASSUME CursorTypeOK
    PROVE  Clock \in Nat
<1>1. Cursors(1..Len(writes)) \in SUBSET (0..MaxCursor)
  BY CursorTypes
<1> QED  BY <1>1, LargestOfIs DEF Clock

(* The watermark at the end of the generator: a value of the run, or the one *)
(* it goes on from.                                                          *)
LEMMA LastMarkIs ==
    ASSUME CursorTypeOK, VersionInv
    PROVE  /\ LastMark \in {Unset, base} \union Cursors(result)
           /\ \A c \in Cursors(result) : LastMark # Unset /\ c <= LastMark
           /\ base # Unset /\ mode.reader # "cache_file" =>
                 LastMark # Unset /\ base <= LastMark
           /\ LastMark # Unset /\ mode.reader = "cache_file" => LastMark \in Cursors(result)
           /\ LastMark \in Marks
<1> DEFINE m == LargestOf(Cursors(result))
<1>1. Cursors(result) \in SUBSET (0..MaxCursor) /\ Unset \notin Cursors(result)
  BY CursorTypes DEF VersionInv
<1>2. /\ Cursors(result) = {} => m = Unset
      /\ Cursors(result) # {} => m \in Cursors(result) /\ \A d \in Cursors(result) : d <= m
  BY <1>1, LargestOfIs
<1>3. m \in Marks
  BY <1>1, <1>2 DEF Marks
<1>4. FirstMark(base) \in Marks /\ FirstMark(base) \in {Unset, base}
  BY DEF CursorTypeOK, FirstMark, Marks
<1>5. \A c \in Cursors(result) : m # Unset /\ c <= m
  BY <1>1, <1>2
<1>6. m \in Cursors(result) \union {Unset}
  BY <1>2
<1>7. LastMark = Largest(FirstMark(base), m)
  BY DEF LastMark
<1>8. LastMark \in {Unset, base} \union Cursors(result) /\ LastMark \in Marks
  BY <1>3, <1>4, <1>6, <1>7, LargestIs
<1>9. m # Unset => LastMark # Unset /\ m <= LastMark
  BY <1>3, <1>4, <1>7, LargestIs
<1>10. ASSUME NEW c \in Cursors(result)  PROVE  LastMark # Unset /\ c <= LastMark
  <2>1. m # Unset /\ c <= m /\ LastMark # Unset /\ m <= LastMark
    BY <1>5, <1>9
  <2>2. c \in Int /\ m \in Int /\ LastMark \in Int
    BY <1>1, <1>3, <1>8, <2>1 DEF Marks
  <2> QED  BY <2>1, <2>2
<1>11. base # Unset /\ mode.reader # "cache_file" => LastMark # Unset /\ base <= LastMark
  <2>1. mode.reader # "cache_file" => FirstMark(base) = base
    BY DEF FirstMark
  <2> QED  BY <1>3, <1>4, <1>7, <2>1, LargestIs
<1>12. LastMark # Unset /\ mode.reader = "cache_file" => LastMark \in Cursors(result)
  <2>1. mode.reader = "cache_file" => FirstMark(base) = Unset
    BY DEF FirstMark
  <2> QED  BY <1>3, <1>4, <1>6, <1>7, <2>1, LargestIs
<1> QED  BY <1>8, <1>10, <1>11, <1>12
-----------------------------------------------------------------------------
(* Types.                                                                    *)

(* The watermark that the generator leaves is one.                           *)
LEMMA LeftType ==
    ASSUME CursorTypeOK, VersionInv
    PROVE  Left(LastMark) \in Marks
<1>1. LastMark \in Marks /\ state \in Marks
  BY LastMarkIs DEF CursorTypeOK
<1> QED  BY <1>1 DEF Left

(* What lands is counted.                                                    *)
LEMMA LandedType ==
    ASSUME CursorTypeOK
    PROVE  Landed \in [Versions -> Nat]
<1>1. \A w \in Versions : target[w] \in Nat
  BY DEF CursorTypeOK
<1> QED  BY <1>1 DEF Landed

(* A new version is one more row.                                            *)
LEMMA RowAdded ==
    ASSUME CursorTypeOK, NEW i \in Ids, NEW c \in 0..MaxCursor \union {Null},
           Len(writes) < MaxWrites, writes' = Append(writes, [id |-> i, cursor |-> c])
    PROVE  /\ writes' \in Seq([id : Ids, cursor : 0..MaxCursor \union {Null}])
           /\ Len(writes) \in Nat /\ Len(writes') = Len(writes) + 1
           /\ Len(writes) + 1 \in Versions
           /\ \A w \in 1..Len(writes) : writes'[w] = writes[w]
<1> DEFINE Row == [id : Ids, cursor : 0..MaxCursor \union {Null}]
<1>1. writes \in Seq(Row)
  BY DEF CursorTypeOK
<1>2. [id |-> i, cursor |-> c] \in Row
  OBVIOUS
<1>3. writes' \in Seq(Row) /\ Len(writes) \in Nat /\ Len(writes') = Len(writes) + 1
      /\ \A w \in 1..Len(writes) : writes'[w] = writes[w]
  <2> HIDE DEF Row
  <2> QED  BY <1>1, <1>2
<1>4. Len(writes) + 1 \in Versions
  BY <1>3, CursorAssumption DEF Versions
<1> QED  BY <1>3, <1>4

(* What a writer that adds a version does.                                   *)
Adds(i, c) ==
    /\ c \in 0..MaxCursor \union {Null}
    /\ Len(writes) < MaxWrites
    /\ writes' = Append(writes, [id |-> i, cursor |-> c])
    /\ pending' = pending \union {Len(writes) + 1}
    /\ UNCHANGED <<mode, visible, target, store, phase, read, faults, runs, history>>

(* Inserts, with a cursor or without one, add a version.                     *)
LEMMA WritesAdd ==
    ASSUME CursorTypeOK, NEW i \in Ids
    PROVE  /\ Write(i, Clock) => Adds(i, Clock)
           /\ Write(i, Clock + 1) => Adds(i, Clock + 1)
           /\ WriteNull(i) => Adds(i, Null)
<1>1. Clock \in Nat
  BY ClockType
<1>2. Write(i, Clock) => Adds(i, Clock)
  <2>1. Clock <= MaxCursor => Clock \in 0..MaxCursor
    BY <1>1, CursorAssumption
  <2> QED  BY <2>1 DEF Write, Adds
<1>3. Write(i, Clock + 1) => Adds(i, Clock + 1)
  <2>1. Clock + 1 <= MaxCursor => Clock + 1 \in 0..MaxCursor
    BY <1>1, CursorAssumption
  <2> QED  BY <2>1 DEF Write, Adds
<1>4. WriteNull(i) => Adds(i, Null)
  BY DEF WriteNull, Adds
<1> QED  BY <1>2, <1>3, <1>4

(* What a fetch returns of a change: rows of before and after it, and every  *)
(* row that the change leaves alone.                                         *)
LEMMA ReturnedIs ==
    ASSUME NEW old, NEW new, NEW r \in Returned(old, new)
    PROVE  /\ r \subseteq result \union new
           /\ result \ old \subseteq r
           /\ \A w \in r \ result : Asked(w, base)
           /\ phase # "fetch" => r = result
BY DEF Returned

(* What the end of run() leaves.                                             *)
Ends ==
    /\ phase' = "idle"
    /\ base' = Unset /\ result' = {} /\ state' = Unset /\ attempt' = 0
    /\ UNCHANGED <<mode, database, runs, late>>

(* A run ends with what it held gone, its watermark stored or not.           *)
LEMMA EndsCases ==
    /\ SetState \/ SetRaises \/ RefuseFile \/ ReadFails \/ CommitFails \/ AckLost
          \/ SetFails \/ Crash => Ends
    /\ SetRaises \/ RefuseFile \/ ReadFails \/ CommitFails \/ AckLost \/ SetFails \/ Crash =>
          UNCHANGED <<store, marks>>
    /\ ReadFails \/ CommitFails \/ AckLost \/ SetFails \/ Crash =>
          faults < MaxFaults /\ faults' = faults + 1
    /\ SetState \/ SetRaises \/ RefuseFile => UNCHANGED faults
BY DEF Ends, SetState, SetRaises, RefuseFile, ReadFails, CommitFails, AckLost, SetFails,
       Crash, Fault, Return

(* Every step keeps the types.                                               *)
LEMMA TypeStep ==
    ASSUME CursorTypeOK, VersionInv, RunInv, [Next]_vars
    PROVE  CursorTypeOK'
<1>0. Unset \in Marks /\ Marks = 0..MaxCursor \union {Unset} /\ 0 \in 0..FetchAttempts
  BY CursorAssumption DEF Marks
<1> USE DEF CursorTypeOK
<1>1. CASE UNCHANGED vars
  BY <1>1 DEF vars, database, history, read
<1>2. ASSUME NEW i \in Ids, NEW c, Adds(i, c)  PROVE  CursorTypeOK'
  <2>1. writes' \in Seq([id : Ids, cursor : 0..MaxCursor \union {Null}])
    BY <1>2, RowAdded DEF Adds
  <2>2. pending' \subseteq Versions
    BY <1>2, RowAdded DEF Adds
  <2> QED  BY <1>2, <2>1, <2>2 DEF Adds, read, history
<1>3. ASSUME NEW w \in Versions, Become(w)  PROVE  CursorTypeOK'
  <2>1. visible' \subseteq Versions /\ pending' \subseteq Versions
    BY <1>3 DEF Become
  <2>2. result' \subseteq Versions
    BY <1>3, ReturnedIs DEF Become
  <2>3. late' \subseteq Versions
    BY <1>3, <2>1 DEF Become, Overtaken
  <2> QED  BY <1>3, <2>1, <2>2, <2>3 DEF Become
<1>4. ASSUME NEW w \in Versions, Remove(w)  PROVE  CursorTypeOK'
  <2>1. result' \subseteq Versions
    BY <1>4, ReturnedIs DEF Remove
  <2> QED  BY <1>4, <2>1 DEF Remove
<1>5. ASSUME NEW full \in FullRefresh, Begin(full)  PROVE  CursorTypeOK'
  <2>1. runs' \in 0..MaxRuns
    BY <1>5, CursorAssumption DEF Begin
  <2>2. base' \in Marks /\ state' \in Marks
    BY <1>0, <1>5 DEF Begin
  <2> QED  BY <1>0, <1>5, <2>1, <2>2 DEF Begin, database, history
<1>6. CASE Execute
  <2>1. Selected(base) \subseteq Versions
    BY DEF Selected
  <2>2. attempt' \in 0..FetchAttempts
    BY <1>6, CursorAssumption DEF Execute, RunInv
  <2> QED  BY <1>6, <2>1, <2>2 DEF Execute, database, history
<1>7. CASE FirstBatchFails
  <2>1. faults' \in 0..MaxFaults
    BY <1>7, CursorAssumption DEF FirstBatchFails
  <2> QED  BY <1>7, <2>1 DEF FirstBatchFails, database, history
<1>8. CASE Drain
  BY <1>8, LeftType DEF Drain, database, history
<1>9. Repeated \/ UNCHANGED repeats => repeats' \in Nat
  BY DEF Repeated
<1>10. CASE Commit
  BY <1>9, <1>10, LandedType DEF Commit, database, read
<1>11. ASSUME Ends, UNCHANGED <<store, marks>> \/ SetState,
              faults' \in 0..MaxFaults, target' \in [Versions -> Nat], repeats' \in Nat
       PROVE  CursorTypeOK'
  <2>1. store' \in Marks /\ marks' \subseteq Marks
    BY <1>11 DEF SetState
  <2> QED  BY <1>0, <1>11, <2>1 DEF Ends, database
<1>12. faults < MaxFaults => faults + 1 \in 0..MaxFaults
  BY CursorAssumption
<1>13. CASE SetState
  BY <1>9, <1>11, <1>13, EndsCases DEF SetState
<1>14. CASE SetRaises
  BY <1>9, <1>11, <1>14, EndsCases DEF SetRaises
<1>15. CASE RefuseFile
  BY <1>11, <1>15, EndsCases DEF RefuseFile
<1>16. CASE ReadFails
  BY <1>11, <1>12, <1>16, EndsCases DEF ReadFails
<1>17. CASE CommitFails
  BY <1>11, <1>12, <1>17, EndsCases DEF CommitFails
<1>18. CASE AckLost
  BY <1>9, <1>11, <1>12, <1>18, EndsCases, LandedType DEF AckLost
<1>19. CASE SetFails
  BY <1>9, <1>11, <1>12, <1>19, EndsCases DEF SetFails
<1>20. CASE Crash
  BY <1>9, <1>11, <1>12, <1>20, EndsCases DEF Crash
<1> HIDE DEF CursorTypeOK
<1> QED
  BY <1>1, <1>2, <1>3, <1>4, <1>5, <1>6, <1>7, <1>8, <1>10, <1>13, <1>14, <1>15, <1>16,
     <1>17, <1>18, <1>19, <1>20, WritesAdd, StepCases

-----------------------------------------------------------------------------
(* Versions.                                                                 *)

(* A version keeps its row and its cursor.                                   *)
LEMMA RowsKept ==
    ASSUME CursorTypeOK, NEW i \in Ids, NEW c, Adds(i, c)
    PROVE  /\ \A w \in 1..Len(writes) : w \in 1..Len(writes') /\ writes'[w] = writes[w]
           /\ \A w \in 1..Len(writes) : CursorOf(w)' = CursorOf(w)
           /\ \A w \in 1..Len(writes) : \A m : Passes(w, m)' = Passes(w, m)
           /\ \A w \in 1..Len(writes) : Readable(w)' = Readable(w)
           /\ \A v, w \in 1..Len(writes) : (w \in Same(v))' <=> w \in Same(v)
           /\ \A S \in SUBSET (1..Len(writes)) : Cursors(S)' = Cursors(S)
<1>1. Len(writes) \in Nat /\ Len(writes') = Len(writes) + 1
  BY RowAdded DEF Adds
<1>2. \A w \in 1..Len(writes) : w \in 1..Len(writes') /\ writes'[w] = writes[w]
  BY <1>1, RowAdded DEF Adds
<1>3. \A w \in 1..Len(writes) : CursorOf(w)' = CursorOf(w)
  BY <1>2 DEF CursorOf
<1>4. UNCHANGED mode
  BY DEF Adds
<1>5. \A w \in 1..Len(writes) : \A m : Passes(w, m)' = Passes(w, m)
  BY <1>3, <1>4 DEF Passes
<1>6. \A w \in 1..Len(writes) : Readable(w)' = Readable(w)
  BY <1>3, <1>4 DEF Readable, Passes
<1>7. \A v, w \in 1..Len(writes) : (w \in Same(v))' <=> w \in Same(v)
  BY <1>2 DEF Same
<1>8. \A S \in SUBSET (1..Len(writes)) : Cursors(S)' = Cursors(S)
  BY <1>3 DEF Cursors
<1> QED  BY <1>2, <1>3, <1>5, <1>6, <1>7, <1>8

(* What is in the destination once a batch has landed was there, or is of    *)
(* the batch.                                                                *)
LEMMA LandedIs ==
    ASSUME CursorTypeOK, NEW w \in Versions
    PROVE  /\ Landed[w] > 0 => w \in result \/ target[w] > 0
           /\ w \in result => Landed[w] > 0
           /\ w \notin result /\ (\A v \in result : w \notin Same(v)) => Landed[w] = target[w]
           /\ mode.write = "append" =>
                 Landed[w] = IF w \in result THEN target[w] + 1 ELSE target[w]
<1>1. target[w] \in Nat
  BY DEF CursorTypeOK
<1>2. Landed[w] = IF w \in result THEN IF mode.write = "append" THEN target[w] + 1 ELSE 1
                  ELSE IF mode.write = "merge" /\ (\E v \in result : w \in Same(v)) THEN 0
                  ELSE target[w]
  BY DEF Landed
<1> QED  BY <1>1, <1>2

(* Every step keeps the order in which a version is pending, visible and     *)
(* landed.                                                                   *)
LEMMA VersionStep ==
    ASSUME CursorTypeOK, VersionInv, [Next]_vars
    PROVE  VersionInv'
<1>0. Len(writes) \in Nat /\ pending \subseteq Versions /\ visible \subseteq Versions
  BY DEF CursorTypeOK
<1>1. CASE UNCHANGED vars
  BY <1>1 DEF VersionInv, Same, vars, database, history, read
<1>2. ASSUME NEW i \in Ids, NEW c, Adds(i, c)  PROVE  VersionInv'
  <2>1. /\ Len(writes') = Len(writes) + 1 /\ Len(writes') <= MaxWrites
        /\ \A w \in 1..Len(writes) : writes'[w] = writes[w]
    BY <1>2, RowAdded, CursorAssumption DEF Adds
  <2>2. pending' \subseteq 1..Len(writes')
    <3>1. \A w \in pending : w \in 1..Len(writes')
      BY <1>0, <2>1 DEF VersionInv
    <3>2. Len(writes) + 1 \in 1..Len(writes')
      BY <1>0, <2>1
    <3> QED  BY <1>2, <3>1, <3>2 DEF Adds
  <2>3. \A w : w \in 1..Len(writes) \ pending => w \in 1..Len(writes') \ pending'
    BY <1>0, <1>2, <2>1 DEF Adds
  <2>4. UNCHANGED <<visible, result, target>>
    BY <1>2 DEF Adds, read
  <2>5. visible' \union result' \subseteq 1..Len(writes') \ pending'
    BY <2>3, <2>4 DEF VersionInv
  <2>6. \A v, w \in visible' : (w \in Same(v))' => v = w
    <3>1. visible \subseteq 1..Len(writes)
      BY DEF VersionInv
    <3> QED  BY <1>2, <2>4, <3>1, RowsKept DEF VersionInv
  <2>7. \A w \in Versions : target'[w] > 0 => w \in 1..Len(writes') \ pending'
    BY <2>3, <2>4 DEF VersionInv
  <2> QED  BY <2>1, <2>2, <2>5, <2>6, <2>7 DEF VersionInv
<1>3. ASSUME NEW w \in Versions, Become(w)  PROVE  VersionInv'
  <2>1. /\ w \in pending /\ pending' = pending \ {w}
        /\ visible' = (visible \ Same(w)) \union {w}
        /\ result' \subseteq result \union {w}
        /\ UNCHANGED <<writes, target>>
    BY <1>3, ReturnedIs DEF Become
  <2>2. \A u, v \in visible' : (v \in Same(u))' => u = v
    <3>1. ASSUME NEW u \in visible', NEW v \in visible', v \in Same(u)  PROVE  u = v
      <4>1. u \in 1..Len(writes) /\ v \in 1..Len(writes) /\ writes[v].id = writes[u].id
        BY <2>1, <3>1 DEF VersionInv, Same
      <4>2. CASE u # w /\ v # w
        BY <2>1, <3>1, <4>2 DEF VersionInv
      <4>3. CASE u = w /\ v # w
        BY <2>1, <4>1, <4>3 DEF Same
      <4>4. CASE v = w /\ u # w
        BY <2>1, <4>1, <4>4 DEF Same
      <4> QED  BY <4>2, <4>3, <4>4
    <3>2. \A u, v : (v \in Same(u))' <=> v \in Same(u)
      BY <2>1 DEF Same
    <3> QED  BY <3>1, <3>2
  <2> QED  BY <2>1, <2>2 DEF VersionInv
<1>4. ASSUME NEW w \in Versions, Remove(w)  PROVE  VersionInv'
  <2>1. /\ visible' \subseteq visible /\ result' \subseteq result
        /\ UNCHANGED <<writes, pending, target>>
    BY <1>4, ReturnedIs DEF Remove
  <2>2. \A u, v : (v \in Same(u))' <=> v \in Same(u)
    BY <2>1 DEF Same
  <2> QED  BY <2>1, <2>2 DEF VersionInv
<1>5. ASSUME UNCHANGED database, result' \subseteq visible \union result,
             UNCHANGED target \/ target' = Landed
      PROVE  VersionInv'
  <2>1. \A w \in Versions : target'[w] > 0 => w \in result \/ target[w] > 0
    BY <1>5, LandedIs
  <2>2. UNCHANGED <<writes, pending, visible>>
    BY <1>5 DEF database
  <2>3. \A u, v : (v \in Same(u))' <=> v \in Same(u)
    BY <2>2 DEF Same
  <2> QED  BY <1>5, <2>1, <2>2, <2>3 DEF VersionInv
<1>6. ASSUME NEW full \in FullRefresh, Begin(full)  PROVE  VersionInv'
  BY <1>5, <1>6 DEF Begin
<1>7. CASE Execute
  BY <1>5, <1>7 DEF Execute, Selected
<1>8. CASE FirstBatchFails
  BY <1>5, <1>8 DEF FirstBatchFails
<1>9. CASE Drain
  BY <1>5, <1>9 DEF Drain
<1>10. CASE Commit
  BY <1>5, <1>10 DEF Commit, read
<1>11. CASE SetState
  BY <1>5, <1>11 DEF SetState, Return
<1>12. CASE SetRaises
  BY <1>5, <1>12 DEF SetRaises, Return
<1>13. CASE RefuseFile
  BY <1>5, <1>13 DEF RefuseFile, Return
<1>14. CASE ReadFails
  BY <1>5, <1>14 DEF ReadFails, Fault, Return
<1>15. CASE CommitFails
  BY <1>5, <1>15 DEF CommitFails, Fault, Return
<1>16. CASE AckLost
  BY <1>5, <1>16 DEF AckLost, Fault, Return
<1>17. CASE SetFails
  BY <1>5, <1>17 DEF SetFails, Fault, Return
<1>18. CASE Crash
  BY <1>5, <1>18 DEF Crash, Fault, Return
<1> QED
  BY <1>1, <1>2, <1>3, <1>4, <1>6, <1>7, <1>8, <1>9, <1>10, <1>11, <1>12, <1>13, <1>14,
     <1>15, <1>16, <1>17, <1>18, WritesAdd, StepCases

-----------------------------------------------------------------------------
(* The run.                                                                  *)

(* What the WHERE clause lets through, said without the state of the run.    *)
LEMMA PassesIs ==
    ASSUME CursorTypeOK, NEW w \in 1..Len(writes), NEW c \in 0..MaxCursor
    PROVE  /\ Passes(w, c) => CursorOf(w) \in 0..MaxCursor /\ c <= CursorOf(w)
           /\ CursorOf(w) \in 0..MaxCursor /\ CursorOf(w) < c => ~Passes(w, c)
           /\ ~Passes(w, c) /\ CursorOf(w) # Null => CursorOf(w) <= c
           /\ mode.filter = "above" /\ CursorOf(w) = c => ~Passes(w, c)
           /\ mode.filter = "from" /\ CursorOf(w) = c => Passes(w, c)
           /\ CursorOf(w) = Null => ~Passes(w, c)
           /\ mode.filter \in {"above", "from", "free"}
<1>1. {w} \in SUBSET (1..Len(writes))
  OBVIOUS
<1>2. CursorOf(w) \in 0..MaxCursor \union {Null}
  BY <1>1, CursorTypes
<1>3. mode.filter \in {"above", "from", "free"}
  BY CursorAssumption DEF CursorTypeOK, ModeType
<1>4. Null \notin 0..MaxCursor
  BY CursorAssumption
<1>5. CASE CursorOf(w) = Null
  BY <1>3, <1>4, <1>5 DEF Passes
<1>6. CASE CursorOf(w) # Null
  <2>1. PICK n \in 0..MaxCursor : n = CursorOf(w)
    BY <1>2, <1>6
  <2>2. CASE mode.filter = "above"
    <3>1. Passes(w, c) <=> n > c
      BY <1>6, <2>1, <2>2 DEF Passes
    <3> QED  BY <1>3, <1>6, <2>1, <2>2, <3>1
  <2>3. CASE mode.filter # "above"
    <3>1. Passes(w, c) <=> n >= c
      BY <1>6, <2>1, <2>3 DEF Passes
    <3>2. mode.filter = "from" \/ mode.filter = "free"
      BY <1>3, <2>3
    <3> QED  BY <1>3, <1>6, <2>1, <2>3, <3>1
  <2> QED  BY <2>2, <2>3
<1> QED  BY <1>5, <1>6

(* A filter that does not depend on the watermark is that of a SQL file.     *)
LEMMA ModeIs ==
    ASSUME CursorTypeOK
    PROVE  /\ mode.tracked \in BOOLEAN
           /\ mode.reader \in {"table", "file", "cache_file"}
           /\ mode.filter = "free" => mode.reader # "table"
           /\ mode.write \in {"append", "merge"}
BY CursorAssumption DEF CursorTypeOK, ModeType

(* A query that starts from a watermark asks for what passes it, and the     *)
(* first one for all that can be read.                                       *)
LEMMA AskedIs ==
    ASSUME mode.tracked, mode.filter # "free", NEW w, NEW b
    PROVE  /\ b # Unset => (Asked(w, b) <=> Passes(w, b))
           /\ Readable(w) /\ ~Asked(w, b) => b # Unset /\ ~Passes(w, b)
BY DEF Asked, Placeholder, Readable

(* Every step keeps the run between the watermark it started from and the    *)
(* one it will store.                                                        *)
LEMMA RunStep ==
    ASSUME CursorTypeOK, VersionInv, RunInv, [Next]_vars
    PROVE  RunInv'
<1>0. result \in SUBSET (1..Len(writes))
  BY DEF VersionInv
<1>1. ASSUME UNCHANGED <<mode, store, phase, read>>,
             \A w \in result : \A c : Passes(w, c)' = Passes(w, c),
             Cursors(result)' = Cursors(result)
      PROVE  RunInv'
  <2>1. UNCHANGED <<base, result, state, attempt>>
    BY <1>1 DEF read
  <2>2. \A w \in result' : Passes(w, base)' <=> Passes(w, base)
    BY <1>1, <2>1
  <2> QED  BY <1>1, <2>1, <2>2 DEF RunInv
<1>2. ASSUME UNCHANGED <<mode, writes, store, phase, read>>  PROVE  RunInv'
  <2>1. \A w : \A c : Passes(w, c)' = Passes(w, c)
    BY <1>2 DEF Passes, CursorOf
  <2>2. Cursors(result)' = Cursors(result)
    BY <1>2 DEF Cursors, CursorOf, read
  <2> QED  BY <1>1, <1>2, <2>1, <2>2
<1>3. CASE UNCHANGED vars
  BY <1>2, <1>3 DEF vars, database
<1>4. ASSUME NEW i \in Ids, NEW c, Adds(i, c)  PROVE  RunInv'
  <2>1. \A w \in result : \A m : Passes(w, m)' = Passes(w, m)
    BY <1>0, <1>4, RowsKept
  <2>2. UNCHANGED result
    BY <1>4 DEF Adds, read
  <2>3. Cursors(result)' = Cursors(result)
    <3>1. \A w \in result : CursorOf(w)' = CursorOf(w)
      BY <1>0, <1>4, RowsKept
    <3> QED  BY <2>2, <3>1 DEF Cursors
  <2> QED  BY <1>1, <1>4, <2>1, <2>3 DEF Adds
<1>5. ASSUME NEW w \in Versions, Become(w) \/ Remove(w)  PROVE  RunInv'
  <2>1. UNCHANGED <<mode, writes, store, phase, base, state, attempt>>
    BY <1>5 DEF Become, Remove
  <2>2. (phase # "fetch" => result' = result) /\ \A v \in result' \ result : Asked(v, base)
    BY <1>5, ReturnedIs DEF Become, Remove
  <2>3. CASE phase # "fetch"
    BY <1>2, <2>1, <2>2, <2>3 DEF read
  <2>4. CASE phase = "fetch"
    <3>1. \A v : Passes(v, base)' <=> Passes(v, base)
      BY <2>1 DEF Passes, CursorOf
    <3>2. mode.tracked /\ mode.filter # "free" /\ base # Unset =>
             \A v \in result' : Passes(v, base)
      BY <2>2, AskedIs DEF RunInv
    <3> QED  BY <2>1, <2>4, <3>1, <3>2 DEF RunInv
  <2> QED  BY <2>3, <2>4
<1>7. ASSUME NEW full \in FullRefresh, Begin(full)  PROVE  RunInv'
  BY <1>7, CursorAssumption DEF Begin, RunInv
<1>8. CASE Execute
  <2>1. UNCHANGED <<mode, writes, store, base, state>> /\ phase' = "fetch"
        /\ result' = Selected(base) /\ state = base
    BY <1>8 DEF Execute, database, RunInv
  <2>2. mode.tracked /\ mode.filter # "free" /\ base # Unset =>
           \A w \in result' : Passes(w, base)
    <3>1. \A w \in result' : Asked(w, base)
      BY <2>1 DEF Selected
    <3> QED  BY <3>1, AskedIs
  <2>3. \A w : Passes(w, base)' <=> Passes(w, base)
    BY <2>1 DEF Passes, CursorOf
  <2>4. \A w : Passes(w, base') <=> Passes(w, base)
    BY <2>1
  <2> QED  BY <2>1, <2>2, <2>3 DEF RunInv
<1>9. CASE FirstBatchFails
  BY <1>9, CursorAssumption DEF FirstBatchFails, RunInv
<1>10. CASE Drain
  <2>1. /\ UNCHANGED <<mode, writes, store, base, result>>
        /\ phase' = "loaded" /\ state' = Left(LastMark) /\ state = base
    BY <1>10 DEF Drain, database, RunInv
  <2>2. Cursors(result)' = Cursors(result) /\ \A w : Passes(w, base)' <=> Passes(w, base)
    BY <2>1 DEF Cursors, CursorOf, Passes
  <2>3. ~mode.tracked => state' = base
    BY <2>1 DEF Left
  <2>4. ASSUME mode.tracked
        PROVE  /\ state' \in {Unset, base} \union Cursors(result)
               /\ \A c \in Cursors(result) : state' # Unset /\ c <= state'
               /\ base # Unset /\ (mode.reader = "cache_file" => mode.filter # "free") =>
                     state' # Unset /\ base <= state'
    <3>1. state' = IF LastMark # Unset THEN LastMark ELSE base
      BY <2>1, <2>4 DEF Left
    <3>2. base \in Marks /\ base # Unset => base \in 0..MaxCursor
      BY DEF CursorTypeOK, Marks
    <3>3. state' \in {Unset, base} \union Cursors(result)
      BY <3>1, LastMarkIs
    <3>4. \A c \in Cursors(result) : state' # Unset /\ c <= state'
      BY <3>1, LastMarkIs
    <3>5. ASSUME base # Unset, mode.reader = "cache_file" => mode.filter # "free"
          PROVE  state' # Unset /\ base <= state'
      <4>1. CASE LastMark = Unset
        BY <3>1, <3>2, <3>5, <4>1 DEF CursorTypeOK
      <4>2. CASE LastMark # Unset /\ mode.reader # "cache_file"
        BY <3>1, <3>5, <4>2, LastMarkIs
      <4>3. CASE LastMark # Unset /\ mode.reader = "cache_file"
        <5>1. LastMark \in Cursors(result)
          BY <4>3, LastMarkIs
        <5>2. PICK w \in result : LastMark = CursorOf(w)
          BY <5>1 DEF Cursors
        <5>3. Passes(w, base)
          BY <2>4, <3>5, <4>3 DEF RunInv
        <5>4. base \in 0..MaxCursor /\ w \in 1..Len(writes)
          BY <1>0, <3>2, <3>5 DEF CursorTypeOK
        <5>5. base <= CursorOf(w)
          BY <5>3, <5>4, PassesIs
        <5> QED  BY <3>1, <4>3, <5>2, <5>5
      <4> QED  BY <4>1, <4>2, <4>3
    <3> QED  BY <3>3, <3>4, <3>5
  <2> QED  BY <2>1, <2>2, <2>3, <2>4 DEF RunInv
<1>11. CASE Commit
  <2>1. /\ UNCHANGED <<mode, writes, store, base, result, state>>
        /\ phase = "loaded" /\ phase' = "landed"
    BY <1>11 DEF Commit, database, read
  <2>2. Cursors(result)' = Cursors(result) /\ \A w : Passes(w, base)' <=> Passes(w, base)
    BY <2>1 DEF Cursors, CursorOf, Passes
  <2> QED  BY <2>1, <2>2 DEF RunInv
<1>12. ASSUME Ends, ~mode.tracked => store' = Unset  PROVE  RunInv'
  BY <1>12 DEF Ends, RunInv
<1>13. CASE SetState
  <2>1. ~mode.tracked => state = Unset
    BY <1>13 DEF SetState, RunInv
  <2> QED  BY <1>12, <1>13, <2>1, EndsCases DEF SetState
<1>14. CASE SetRaises \/ RefuseFile \/ ReadFails \/ CommitFails \/ AckLost \/ SetFails \/ Crash
  BY <1>12, <1>14, EndsCases DEF RunInv
<1> QED
  BY <1>3, <1>4, <1>5, <1>7, <1>8, <1>9, <1>10, <1>11, <1>13, <1>14, WritesAdd,
     StepCases

-----------------------------------------------------------------------------
(* What a watermark covers.                                                  *)

(* The clauses of CoverInv.                                                  *)
LoadClause ==
    phase \in {"fetch", "loaded"} =>
        \A w \in visible \ result :
           /\ w \notin late /\ Readable(w) =>
                 \/ base # Unset /\ ~Passes(w, base)
                 \/ \A c \in Cursors(result) : Passes(w, c)
           /\ \A v \in result : w \in Same(v) => target[w] = 0

LEMMA CoverParts ==
    CoverInv <=> (mode.tracked /\ mode.filter # "free" =>
                     /\ store # Unset => Covers(store)
                     /\ LoadClause
                     /\ phase = "landed" /\ state # Unset => Covers(state))
BY DEF CoverInv, LoadClause

(* A commit takes nothing away that a watermark covers.                      *)
LEMMA CoversLanded ==
    ASSUME CursorTypeOK, VersionInv, LoadClause, phase = "loaded",
           NEW w \in visible, target[w] > 0
    PROVE  Landed[w] > 0
<1>1. w \in Versions
  BY DEF CursorTypeOK
<1>2. CASE w \in result
  BY <1>1, <1>2, LandedIs
<1>3. CASE w \notin result /\ \A v \in result : w \notin Same(v)
  BY <1>1, <1>3, LandedIs
<1>4. CASE w \notin result /\ \E v \in result : w \in Same(v)
  BY <1>4 DEF LoadClause
<1> QED  BY <1>2, <1>3, <1>4

(* What the watermark of a run that has landed excludes has landed.          *)
LEMMA StateCovers ==
    ASSUME CursorTypeOK, VersionInv, RunInv, CoverInv, phase = "loaded",
           mode.tracked, mode.filter # "free", state # Unset,
           NEW w \in visible \ late, Readable(w), ~Passes(w, state)
    PROVE  Landed[w] > 0
<1>1. w \in Versions
  BY DEF CursorTypeOK
<1>2. LoadClause /\ (store # Unset => Covers(store))
  BY CoverParts
<1>3. CASE w \in result
  BY <1>1, <1>3, LandedIs
<1>4. CASE w \notin result /\ base # Unset /\ ~Passes(w, base)
  <2>1. target[w] > 0
    BY <1>2, <1>4 DEF RunInv, Covers
  <2> QED  BY <1>2, <2>1, CoversLanded
<1>5. CASE w \notin result /\ (\A c \in Cursors(result) : Passes(w, c))
           /\ ~(base # Unset /\ ~Passes(w, base))
  <2>1. state \in {Unset, base} \union Cursors(result)
    BY DEF RunInv
  <2> QED  BY <1>5, <2>1
<1> QED  BY <1>2, <1>3, <1>4, <1>5 DEF LoadClause

(* Every step keeps what the watermarks cover.                               *)
LEMMA CoverStep ==
    ASSUME CursorTypeOK, VersionInv, RunInv, CoverInv, [Next]_vars
    PROVE  CoverInv'
<1>0. /\ result \in SUBSET (1..Len(writes)) /\ visible \subseteq 1..Len(writes)
      /\ Unset \notin Cursors(result)
  BY CursorTypes DEF VersionInv
<1> DEFINE Live == mode.tracked /\ mode.filter # "free"
<1>1. CASE UNCHANGED vars
  BY <1>1 DEF CoverInv, Covers, Readable, Passes, CursorOf, Cursors, Same, vars, database,
              history, read
<1>2. ASSUME NEW i \in Ids, NEW c, Adds(i, c)  PROVE  CoverInv'
  <2>1. UNCHANGED <<mode, visible, late, target, store, phase, base, result, state>>
    BY <1>2 DEF Adds, read, history
  <2>2. /\ \A w \in visible : \A m : Passes(w, m)' = Passes(w, m)
        /\ \A w \in visible : Readable(w)' = Readable(w)
        /\ \A w \in visible : \A v \in result : (w \in Same(v))' <=> w \in Same(v)
        /\ Cursors(result)' = Cursors(result)
    <3>1. \A w \in result : CursorOf(w)' = CursorOf(w)
      BY <1>0, <1>2, RowsKept
    <3>2. Cursors(result)' = Cursors(result)
      BY <2>1, <3>1 DEF Cursors
    <3> QED  BY <1>0, <1>2, <3>2, RowsKept
  <2>3. /\ \A w \in visible : Passes(w, store)' = Passes(w, store)
        /\ \A w \in visible : Passes(w, state)' = Passes(w, state)
        /\ \A w \in visible : Passes(w, base)' = Passes(w, base)
    <3>1. \A w \in visible : /\ Passes(w, store)' <=> Passes(w, store)
                             /\ Passes(w, state)' <=> Passes(w, state)
                             /\ Passes(w, base)' <=> Passes(w, base)
      <4>1. \A w \in visible : CursorOf(w)' = CursorOf(w)
        BY <1>0, <1>2, RowsKept
      <4> QED  BY <2>1, <4>1 DEF Passes
    <3> QED  BY <3>1, <2>1, <2>2
  <2>4. Covers(store) => Covers(store)'
    BY <2>1, <2>2, <2>3 DEF Covers
  <2>5. Covers(state) => Covers(state)'
    BY <2>1, <2>2, <2>3 DEF Covers
  <2>6. LoadClause => LoadClause'
    BY <2>1, <2>2, <2>3 DEF LoadClause
  <2> QED  BY <2>1, <2>4, <2>5, <2>6, CoverParts DEF CoverInv, LoadClause
<1>3. ASSUME UNCHANGED <<mode, writes, store, base, state, phase, target>>,
             phase # "fetch" => UNCHANGED result,
             \A v \in visible' \ late' :
                \/ v \in visible \ late
                \/ /\ v \notin result /\ ~Behind(v, {store, base})
                   /\ ~Asked(v, base) \/ v \in result' \/ ~Behind(v, Cursors(result')),
             Live => LoadClause'
      PROVE  CoverInv'
  <2>1. UNCHANGED <<mode, store, base, state, phase, target>>
    BY <1>3
  <2>2. \A w : /\ Readable(w)' <=> Readable(w)
               /\ Passes(w, store)' <=> Passes(w, store)
               /\ Passes(w, state)' <=> Passes(w, state)
    BY <1>3 DEF Readable, Passes, CursorOf
  <2>3. ASSUME Live, NEW v, NEW S, ~Behind(v, S), NEW c \in S, c # Unset  PROVE  Passes(v, c)
    BY <2>3 DEF Behind
  <2>4. ASSUME Live, store # Unset  PROVE  Covers(store)'
    <3>1. Covers(store)
      BY <2>4, CoverParts
    <3>2. \A v \in visible' \ late' : v \in visible \ late \/ Passes(v, store)
      BY <1>3, <2>3, <2>4
    <3> QED  BY <2>1, <2>2, <3>1, <3>2 DEF Covers
  <2>5. ASSUME Live, phase = "landed", state # Unset  PROVE  Covers(state)'
    <3>1. Covers(state) /\ state \in {base} \union Cursors(result) /\ result' = result
      BY <1>3, <2>5, CoverParts DEF RunInv
    <3>2. ASSUME NEW v \in visible' \ late', Readable(v), v \notin visible \ late
          PROVE  Passes(v, state)
      <4>1. base # Unset => Passes(v, base)
        BY <1>3, <2>3, <2>5, <3>2
      <4>2. Asked(v, base)
        BY <2>5, <3>2, <4>1, AskedIs
      <4>3. ~Behind(v, Cursors(result))
        BY <1>3, <3>1, <3>2, <4>2
      <4> QED  BY <1>0, <2>3, <2>5, <3>1, <4>1, <4>3
    <3> QED  BY <2>1, <2>2, <3>1, <3>2 DEF Covers
  <2> QED  BY <1>3, <2>1, <2>4, <2>5, CoverParts DEF CoverInv, LoadClause
<1>4. ASSUME UNCHANGED <<mode, writes, base, phase, target>>,
             visible' \union result' \subseteq 1..Len(writes),
             \A v \in visible' \ result' : v \notin late' /\ Readable(v) =>
                \/ base # Unset /\ ~Passes(v, base)
                \/ \A c \in Cursors(result') : Passes(v, c),
             \A v \in visible' \ result' : \A u \in result' : v \in Same(u) => target[v] = 0
      PROVE  LoadClause'
  <2>1. /\ \A v : /\ Readable(v)' <=> Readable(v)
                  /\ \A c : Passes(v, c)' <=> Passes(v, c)
        /\ \A v : Passes(v, base)' <=> Passes(v, base)
        /\ Cursors(result)' = Cursors(result')
        /\ \A u, v : (v \in Same(u))' <=> v \in Same(u)
    BY <1>4 DEF Readable, Passes, CursorOf, Cursors, Same
  <2> QED  BY <1>4, <2>1 DEF LoadClause
<1>5. ASSUME NEW w \in Versions, Become(w)  PROVE  CoverInv'
  <2>1. /\ w \in pending /\ visible' = (visible \ Same(w)) \union {w}
        /\ late' = (late \ Same(w)) \union {v \in {w} : Behind(v, {store, base})}
                                    \union Overtaken(result')
        /\ UNCHANGED <<mode, writes, store, base, state, phase, target>>
    BY <1>5 DEF Become
  <2>2. /\ result' \subseteq result \union {w}
        /\ result \ (visible \intersect Same(w)) \subseteq result'
        /\ phase # "fetch" => result' = result
    BY <1>5, ReturnedIs DEF Become
  <2>3. w \in Same(w) /\ w \notin visible \union result /\ w \in 1..Len(writes)
    BY <2>1 DEF VersionInv, Same
  <2>4. target[w] = 0
    <3>1. ~(target[w] > 0) /\ target[w] \in Nat
      BY <2>1 DEF VersionInv, CursorTypeOK
    <3> QED  BY <3>1
  <2>5. ASSUME NEW v \in visible' \ late'
        PROVE  /\ v # w => v \in visible \ late /\ v \notin Same(w)
               /\ ~Asked(v, base) \/ v \in result' \/ ~Behind(v, Cursors(result'))
    BY <2>1, <2>5 DEF Overtaken
  <2>6. ASSUME NEW v \in visible' \ late'
        PROVE  \/ v \in visible \ late
               \/ /\ v \notin result /\ ~Behind(v, {store, base})
                  /\ ~Asked(v, base) \/ v \in result' \/ ~Behind(v, Cursors(result'))
    <3>1. CASE v = w
      BY <2>1, <2>3, <2>5, <2>6, <3>1
    <3>2. CASE v # w
      BY <2>5, <2>6, <3>2
    <3> QED  BY <3>1, <3>2
  <2>7. ASSUME Live  PROVE  LoadClause'
    <3> SUFFICES ASSUME phase \in {"fetch", "loaded"}  PROVE  LoadClause'
      BY <2>1 DEF LoadClause
    <3>1. LoadClause
      BY <2>7, CoverParts
    <3>2. visible' \union result' \subseteq 1..Len(writes)
      BY <1>0, <2>1, <2>2, <2>3
    <3>3. Unset \notin Cursors(result')
      BY <3>2, CursorTypes
    <3>4. ASSUME NEW v \in visible' \ result', v \notin late', Readable(v)
          PROVE  \/ base # Unset /\ ~Passes(v, base)
                 \/ \A c \in Cursors(result') : Passes(v, c)
      <4>1. CASE ~Asked(v, base)
        BY <2>7, <3>4, <4>1, AskedIs
      <4>2. CASE Asked(v, base)
        <5>1. ~Behind(v, Cursors(result'))
          BY <2>5, <3>4, <4>2
        <5> QED  BY <2>7, <3>3, <5>1 DEF Behind
      <4> QED  BY <4>1, <4>2
    <3>5. ASSUME NEW v \in visible' \ result', NEW u \in result', v \in Same(u)
          PROVE  target[v] = 0
      <4>1. CASE v = w
        BY <2>4, <4>1
      <4>2. CASE v # w
        <5>1. v \in visible /\ v \notin Same(w) /\ u \in result
          BY <2>1, <2>2, <3>5, <4>2
        <5>2. v \notin result
          BY <2>2, <3>5, <5>1
        <5> QED  BY <3>1, <3>5, <5>1, <5>2 DEF LoadClause
      <4> QED  BY <4>1, <4>2
    <3> QED  BY <1>4, <2>1, <3>2, <3>4, <3>5
  <2> HIDE DEF Live
  <2> QED  BY <1>3, <2>1, <2>2, <2>6, <2>7
<1>6. ASSUME NEW w \in Versions, Remove(w)  PROVE  CoverInv'
  <2>1. /\ visible' = visible \ {w} /\ late' = late \ {w}
        /\ UNCHANGED <<mode, writes, store, base, state, phase, target>>
    BY <1>6 DEF Remove
  <2>2. result' \subseteq result /\ result \ {w} \subseteq result'
        /\ (phase # "fetch" => result' = result)
    BY <1>6, ReturnedIs DEF Remove
  <2>3. \A v \in visible' \ late' : v \in visible \ late
    BY <2>1
  <2>4. ASSUME Live  PROVE  LoadClause'
    <3> SUFFICES ASSUME phase \in {"fetch", "loaded"}  PROVE  LoadClause'
      BY <2>1 DEF LoadClause
    <3>1. LoadClause
      BY <2>4, CoverParts
    <3>2. visible' \union result' \subseteq 1..Len(writes)
      BY <1>0, <2>1, <2>2
    <3>3. Cursors(result') \subseteq Cursors(result)
      BY <2>2 DEF Cursors
    <3>4. \A v \in visible' \ result' : v \in visible \ result /\ (v \notin late' => v \notin late)
      BY <2>1, <2>2
    <3>5. \A v \in visible' \ result' : v \notin late' /\ Readable(v) =>
             \/ base # Unset /\ ~Passes(v, base)
             \/ \A c \in Cursors(result') : Passes(v, c)
      BY <3>1, <3>3, <3>4 DEF LoadClause
    <3>6. \A v \in visible' \ result' : \A u \in result' : v \in Same(u) => target[v] = 0
      BY <2>2, <3>1, <3>4 DEF LoadClause
    <3> QED  BY <1>4, <2>1, <3>2, <3>5, <3>6
  <2> HIDE DEF Live
  <2> QED  BY <1>3, <2>1, <2>2, <2>3, <2>4
<1>7. ASSUME UNCHANGED <<mode, writes, visible, late, store>>, phase' \in {"idle", "query"},
             UNCHANGED target \/ (target' = Landed /\ phase = "loaded")
      PROVE  CoverInv'
  <2>1. ASSUME Live, store # Unset  PROVE  Covers(store)'
    <3>1. Covers(store)
      BY <2>1, CoverParts
    <3>2. \A w : /\ Readable(w)' <=> Readable(w)
                 /\ Passes(w, store)' <=> Passes(w, store)
      BY <1>7 DEF Readable, Passes, CursorOf
    <3>3. \A w \in visible : target[w] > 0 => target'[w] > 0
      <4>1. phase = "loaded" => LoadClause
        BY <2>1, CoverParts
      <4> QED  BY <1>7, <4>1, CoversLanded
    <3> QED  BY <1>7, <3>1, <3>2, <3>3 DEF Covers
  <2> QED  BY <1>7, <2>1 DEF CoverInv
<1>8. ASSUME NEW full \in FullRefresh, Begin(full)  PROVE  CoverInv'
  BY <1>7, <1>8 DEF Begin, database, history
<1>9. CASE FirstBatchFails
  BY <1>7, <1>9 DEF FirstBatchFails, database, history
<1>10. CASE Execute
  <2>1. /\ UNCHANGED <<mode, writes, visible, late, target, store, base, state>>
        /\ phase' = "fetch" /\ result' = Selected(base)
    BY <1>10 DEF Execute, database, history
  <2>2. /\ \A w : /\ Readable(w)' <=> Readable(w)
                  /\ Passes(w, store)' <=> Passes(w, store)
                  /\ Passes(w, base)' <=> Passes(w, base)
        /\ \A u, v : (v \in Same(u))' <=> v \in Same(u)
    BY <2>1 DEF Readable, Passes, CursorOf, Same
  <2>3. ASSUME Live  PROVE  LoadClause'
    <3>1. ASSUME NEW w \in visible \ Selected(base), Readable(w)
          PROVE  base # Unset /\ ~Passes(w, base)
      BY <2>3, <3>1, AskedIs DEF Selected
    <3>2. ASSUME NEW w \in visible \ Selected(base), NEW v \in Selected(base)
          PROVE  w \notin Same(v)
      BY <3>2 DEF Selected, VersionInv
    <3> QED  BY <2>1, <2>2, <3>1, <3>2 DEF LoadClause
  <2>4. ASSUME Live, store # Unset  PROVE  Covers(store)'
    BY <2>1, <2>2, <2>4, CoverParts DEF Covers
  <2> QED  BY <2>1, <2>3, <2>4 DEF CoverInv, LoadClause
<1>11. CASE Drain
  <2>1. /\ UNCHANGED <<mode, writes, visible, late, target, store, base, result>>
        /\ phase = "fetch" /\ phase' = "loaded"
    BY <1>11 DEF Drain, database, history
  <2>2. /\ \A w : /\ Readable(w)' <=> Readable(w)
                  /\ Passes(w, store)' <=> Passes(w, store)
                  /\ Passes(w, base)' <=> Passes(w, base)
                  /\ \A c : Passes(w, c)' <=> Passes(w, c)
        /\ Cursors(result)' = Cursors(result)
        /\ \A u, v : (v \in Same(u))' <=> v \in Same(u)
    BY <2>1 DEF Readable, Passes, CursorOf, Cursors, Same
  <2>3. LoadClause => LoadClause'
    BY <2>1, <2>2 DEF LoadClause
  <2>4. ASSUME Live, store # Unset  PROVE  Covers(store)'
    BY <2>1, <2>2, <2>4, CoverParts DEF Covers
  <2> QED  BY <2>1, <2>3, <2>4, CoverParts DEF CoverInv, LoadClause
<1>12. CASE Commit
  <2>1. /\ UNCHANGED <<mode, writes, visible, late, store, base, result, state>>
        /\ phase = "loaded" /\ phase' = "landed" /\ target' = Landed
    BY <1>12 DEF Commit, database, read
  <2>2. \A w : /\ Readable(w)' <=> Readable(w)
               /\ Passes(w, store)' <=> Passes(w, store)
               /\ Passes(w, state)' <=> Passes(w, state)
    BY <2>1 DEF Readable, Passes, CursorOf
  <2>3. ASSUME Live, store # Unset  PROVE  Covers(store)'
    <3>1. Covers(store) /\ LoadClause
      BY <2>3, CoverParts
    <3>2. \A w \in visible : target[w] > 0 => target'[w] > 0
      BY <2>1, <3>1, CoversLanded
    <3> QED  BY <2>1, <2>2, <3>1, <3>2 DEF Covers
  <2>4. ASSUME Live, state # Unset  PROVE  Covers(state)'
    BY <2>1, <2>2, <2>4, StateCovers DEF Covers
  <2> QED  BY <2>1, <2>3, <2>4 DEF CoverInv
<1>13. CASE SetState
  <2>1. /\ UNCHANGED <<mode, writes, visible, late, target>>
        /\ phase = "landed" /\ phase' = "idle" /\ store' = state
    BY <1>13 DEF SetState, Return, database
  <2>2. \A w : /\ Readable(w)' <=> Readable(w)
               /\ Passes(w, store)' <=> Passes(w, state)
    BY <2>1 DEF Readable, Passes, CursorOf
  <2>3. ASSUME Live, state # Unset  PROVE  Covers(store)'
    BY <2>1, <2>2, <2>3, CoverParts DEF Covers
  <2> QED  BY <2>1, <2>3 DEF CoverInv
<1>14. CASE SetRaises \/ RefuseFile \/ ReadFails \/ CommitFails \/ SetFails \/ Crash
  <2>1. UNCHANGED target
    BY <1>14 DEF SetRaises, RefuseFile, ReadFails, CommitFails, SetFails, Crash
  <2> QED  BY <1>7, <1>14, <2>1, EndsCases DEF Ends, database
<1>15. CASE AckLost
  <2>1. target' = Landed /\ phase = "loaded"
    BY <1>15 DEF AckLost
  <2> QED  BY <1>7, <1>15, <2>1, EndsCases DEF Ends, database
<1> QED
  BY <1>1, <1>2, <1>5, <1>6, <1>8, <1>9, <1>10, <1>11, <1>12, <1>13, <1>14, <1>15,
     WritesAdd, StepCases

-----------------------------------------------------------------------------
(* How often a version is in the destination.                                *)

(* The clauses of CountInv.                                                  *)
Excluded(w) ==
    IF phase = "landed"
    THEN w \in result \/ (base # Unset /\ ~Passes(w, base))
    ELSE store # Unset /\ ~Passes(w, store)
Tie(w) == mode.filter = "from" /\ CursorOf(w) \in marks
Counted(w) == target[w] <= repeats \/ Tie(w) \/ (target[w] <= 1 + repeats /\ Excluded(w))

LEMMA CountParts ==
    CountInv <=> (mode.write = "append" /\ mode.filter # "free" =>
                     /\ store # Unset => store \in marks
                     /\ \A w \in Versions : Counted(w))
BY DEF CountInv, Counted, Tie, Excluded

(* What the watermark of a run that has landed leaves out of its batch ties  *)
(* with it.                                                                  *)
LEMMA StateExcludes ==
    ASSUME CursorTypeOK, VersionInv, RunInv, phase = "landed", mode.tracked, state # Unset,
           mode.filter # "free", NEW w \in Versions, target[w] > 0, Excluded(w)
    PROVE  ~Passes(w, state) \/ (mode.filter = "from" /\ CursorOf(w) = state)
<1>1. w \in 1..Len(writes) /\ result \in SUBSET (1..Len(writes))
  BY DEF VersionInv
<1>2. state \in 0..MaxCursor
  BY DEF CursorTypeOK, Marks
<1>3. CASE w \in result
  <2>1. CASE CursorOf(w) = Null
    BY <1>1, <1>2, <2>1, PassesIs
  <2>2. CASE CursorOf(w) # Null
    <3>1. CursorOf(w) \in Cursors(result) /\ CursorOf(w) \in 0..MaxCursor
      BY <1>1, <1>3, <2>2, CursorTypes
    <3>2. CursorOf(w) <= state
      BY <3>1 DEF RunInv
    <3>3. CASE CursorOf(w) = state
      BY <1>1, <1>2, <3>3, PassesIs
    <3>4. CASE CursorOf(w) < state
      BY <1>1, <1>2, <3>1, <3>4, PassesIs
    <3> QED  BY <1>2, <3>1, <3>2, <3>3, <3>4
  <2> QED  BY <2>1, <2>2
<1>4. CASE base # Unset /\ ~Passes(w, base)
  <2>1. base <= state
    BY <1>4 DEF RunInv
  <2>2. base \in 0..MaxCursor
    BY <1>4 DEF CursorTypeOK, Marks
  <2>3. CASE CursorOf(w) = Null
    BY <1>1, <1>2, <2>3, PassesIs
  <2>4. CASE CursorOf(w) # Null
    <3>1. CursorOf(w) \in 0..MaxCursor
      BY <1>1, <2>4, CursorTypes
    <3>2. CursorOf(w) <= base
      BY <1>1, <1>4, <2>2, <2>4, PassesIs
    <3>3. CASE CursorOf(w) < state
      BY <1>1, <1>2, <3>1, <3>3, PassesIs
    <3>4. CASE CursorOf(w) = state
      BY <1>1, <1>2, <3>4, PassesIs
    <3> QED  BY <1>2, <2>1, <2>2, <3>1, <3>2, <3>3, <3>4
  <2> QED  BY <2>3, <2>4
<1> QED  BY <1>3, <1>4 DEF Excluded

(* Every step keeps the count.                                               *)
LEMMA CountStep ==
    ASSUME CursorTypeOK, VersionInv, RunInv, CountInv, [Next]_vars
    PROVE  CountInv'
<1> DEFINE Live == mode.write = "append" /\ mode.filter # "free"
<1>0. /\ result \in SUBSET (1..Len(writes))
      /\ repeats \in Nat /\ \A w \in Versions : target[w] \in Nat
  BY DEF VersionInv, CursorTypeOK
<1>1. ASSUME UNCHANGED <<mode, target, store, phase, base, marks, repeats>>,
             phase = "landed" => UNCHANGED result,
             \A w \in 1..Len(writes) : CursorOf(w)' = CursorOf(w)
      PROVE  CountInv'
  <2>1. UNCHANGED <<mode, target, store, phase, base, marks, repeats>>
    BY <1>1
  <2>2. ASSUME NEW w \in Versions, Counted(w)  PROVE  Counted(w)'
    <3>1. CASE w \in 1..Len(writes)
      BY <1>1, <2>1, <2>2, <3>1 DEF Counted, Tie, Excluded, Passes
    <3>2. CASE w \notin 1..Len(writes)
      <4>1. ~(target[w] > 0)
        BY <3>2 DEF VersionInv
      <4>2. target[w] <= repeats
        BY <1>0, <4>1
      <4> QED  BY <2>1, <4>2 DEF Counted
    <3> QED  BY <3>1, <3>2
  <2> QED  BY <2>1, <2>2, CountParts DEF CountInv, Counted, Tie, Excluded
<1>2. UNCHANGED writes => \A w : CursorOf(w)' = CursorOf(w)
  BY DEF CursorOf
<1>3. CASE UNCHANGED vars
  BY <1>1, <1>2, <1>3 DEF vars, database, read, history
<1>4. ASSUME NEW i \in Ids, NEW c, Adds(i, c)  PROVE  CountInv'
  <2>1. UNCHANGED <<mode, target, store, phase, base, result, marks, repeats>>
    BY <1>4 DEF Adds, read, history
  <2>2. \A w \in 1..Len(writes) : CursorOf(w)' = CursorOf(w)
    BY <1>4, RowsKept
  <2> QED  BY <1>1, <2>1, <2>2
<1>5. ASSUME NEW w \in Versions, Become(w) \/ Remove(w)  PROVE  CountInv'
  <2>1. phase = "landed" => UNCHANGED result
    BY <1>5, ReturnedIs DEF Become, Remove
  <2> QED  BY <1>1, <1>2, <1>5, <2>1 DEF Become, Remove
<1>6. ASSUME UNCHANGED <<mode, writes, target, store, marks, repeats>>,
             phase # "landed", phase' # "landed"
      PROVE  CountInv'
  <2>1. \A w : CursorOf(w)' = CursorOf(w) /\ (Passes(w, store)' <=> Passes(w, store))
    BY <1>6 DEF CursorOf, Passes
  <2>2. \A w \in Versions : Counted(w) => Counted(w)'
    BY <1>6, <2>1 DEF Counted, Tie, Excluded
  <2> QED  BY <1>6, <2>2, CountParts DEF CountInv, Counted, Tie, Excluded
<1>7. ASSUME NEW full \in FullRefresh, Begin(full)  PROVE  CountInv'
  BY <1>6, <1>7 DEF Begin, database, history
<1>8. CASE Execute \/ Drain \/ FirstBatchFails
  BY <1>6, <1>8 DEF Execute, Drain, FirstBatchFails, database, history
<1>9. CASE RefuseFile \/ ReadFails \/ CommitFails
  <2>1. phase # "landed" /\ UNCHANGED <<target, repeats>>
    BY <1>9 DEF RefuseFile, ReadFails, CommitFails
  <2> QED  BY <1>6, <1>9, <2>1, EndsCases DEF Ends, database
<1>10. ASSUME UNCHANGED <<mode, writes, marks>>, store' = store \/ store' = Unset,
              repeats' = repeats + 1,
              \/ UNCHANGED target
              \/ target' = Landed /\ phase # "landed" /\ phase' # "landed" /\ UNCHANGED store
       PROVE  CountInv'
  <2>1. \A w : CursorOf(w)' = CursorOf(w) /\ (Passes(w, store)' <=> Passes(w, store'))
    BY <1>10 DEF CursorOf, Passes
  <2>2. ASSUME Live, NEW w \in Versions  PROVE  Counted(w)'
    <3>1. Counted(w)
      BY <2>2, CountParts
    <3>2. target'[w] = target[w] \/ target'[w] = target[w] + 1
      BY <1>10, <2>2, LandedIs
    <3>3. CASE target[w] <= repeats
      BY <1>0, <1>10, <3>2, <3>3 DEF Counted
    <3>4. CASE Tie(w)
      BY <1>10, <2>1, <3>4 DEF Counted, Tie
    <3>5. CASE target[w] <= 1 + repeats /\ UNCHANGED target
      BY <1>0, <1>10, <3>5 DEF Counted
    <3>6. CASE /\ target[w] <= 1 + repeats /\ Excluded(w)
               /\ phase # "landed" /\ phase' # "landed" /\ UNCHANGED store
      <4>1. Excluded(w)'
        BY <2>1, <3>6, <1>10 DEF Excluded, Passes, CursorOf
      <4>2. target'[w] <= 1 + repeats'
        BY <1>0, <1>10, <3>2, <3>6
      <4> QED  BY <4>1, <4>2 DEF Counted
    <3> QED  BY <1>10, <3>1, <3>3, <3>4, <3>5, <3>6 DEF Counted
  <2>3. Live /\ store' # Unset => store' \in marks'
    BY <1>10, CountParts
  <2> QED  BY <1>10, <2>2, <2>3 DEF CountInv, Counted, Tie, Excluded
<1>11. CASE Commit
  <2>1. /\ UNCHANGED <<mode, writes, store, base, result, marks>>
        /\ phase = "loaded" /\ phase' = "landed" /\ target' = Landed
        /\ repeats' = IF Reloads /\ mode.write = "append" THEN repeats + 1 ELSE repeats
    BY <1>11 DEF Commit, database, read, Repeated
  <2>2. \A w : CursorOf(w)' = CursorOf(w) /\ (Passes(w, base)' <=> Passes(w, base))
    BY <2>1 DEF CursorOf, Passes
  <2>3. \A w : Tie(w) => Tie(w)'
    BY <2>1, <2>2 DEF Tie
  <2>4. ASSUME Live, NEW w \in Versions  PROVE  Counted(w)'
    <3>1. Counted(w)
      BY <2>4, CountParts
    <3>2. target'[w] = IF w \in result THEN target[w] + 1 ELSE target[w]
      BY <2>1, <2>4, LandedIs
    <3>3. CASE Tie(w)
      BY <2>3, <3>3 DEF Counted
    <3>4. CASE target[w] <= repeats /\ w \in result
      <4>1. target'[w] <= 1 + repeats'
        BY <1>0, <2>1, <3>2, <3>4
      <4> QED  BY <2>1, <3>4, <4>1 DEF Counted, Excluded
    <3>5. CASE target[w] <= repeats /\ w \notin result
      BY <1>0, <2>1, <3>2, <3>5 DEF Counted
    <3>6. CASE target[w] <= 1 + repeats /\ Excluded(w) /\ Reloads
      <4>1. repeats' = repeats + 1
        BY <2>1, <2>4, <3>6
      <4>2. CASE w \in result
        BY <1>0, <2>1, <3>2, <3>6, <4>1, <4>2 DEF Counted, Excluded
      <4>3. CASE w \notin result
        BY <1>0, <3>2, <3>6, <4>1, <4>3 DEF Counted
      <4> QED  BY <4>2, <4>3
    <3>7. CASE target[w] <= 1 + repeats /\ Excluded(w) /\ ~Reloads
      <4>1. store # Unset /\ ~Passes(w, store)
        BY <2>1, <3>7 DEF Excluded
      <4>2. base # Unset /\ base = store /\ mode.tracked
        BY <3>7, <4>1, ModeIs DEF Reloads, RunInv
      <4>3. w \notin result
        BY <2>4, <4>1, <4>2 DEF RunInv
      <4>4. Excluded(w)'
        BY <2>1, <2>2, <4>1, <4>2 DEF Excluded
      <4>5. target'[w] <= 1 + repeats'
        BY <1>0, <2>1, <3>2, <3>7, <4>3
      <4> QED  BY <4>4, <4>5 DEF Counted
    <3> QED  BY <3>1, <3>3, <3>4, <3>5, <3>6, <3>7 DEF Counted
  <2>5. Live /\ store' # Unset => store' \in marks'
    BY <2>1, CountParts
  <2> QED  BY <2>1, <2>4, <2>5 DEF CountInv, Counted, Tie, Excluded
<1>12. CASE SetState /\ mode.tracked /\ state # Unset
  <2>1. /\ UNCHANGED <<mode, writes, target, repeats>>
        /\ phase = "landed" /\ phase' = "idle" /\ store' = state
        /\ Live => marks' = marks \union ({state} \ {Unset})
    BY <1>12 DEF SetState, Return, database
  <2>2. \A w : CursorOf(w)' = CursorOf(w) /\ (Passes(w, store)' <=> Passes(w, state))
    BY <2>1 DEF CursorOf, Passes
  <2>3. ASSUME Live, NEW w \in Versions  PROVE  Counted(w)'
    <3>1. Counted(w)
      BY <2>3, CountParts
    <3>2. CASE target[w] <= repeats
      BY <2>1, <3>2 DEF Counted
    <3>3. CASE Tie(w)
      BY <2>1, <2>2, <2>3, <3>3 DEF Counted, Tie
    <3>4. CASE target[w] > repeats /\ target[w] <= 1 + repeats /\ Excluded(w)
      <4>1. target[w] > 0
        BY <1>0, <3>4
      <4>2. ~Passes(w, state) \/ (mode.filter = "from" /\ CursorOf(w) = state)
        BY <1>12, <2>1, <2>3, <3>4, <4>1, StateExcludes
      <4>3. CASE ~Passes(w, state)
        BY <1>12, <2>1, <2>2, <3>4, <4>3 DEF Counted, Excluded
      <4>4. CASE mode.filter = "from" /\ CursorOf(w) = state
        BY <1>12, <2>1, <2>2, <2>3, <4>4 DEF Counted, Tie
      <4> QED  BY <4>2, <4>3, <4>4
    <3> QED  BY <1>0, <3>1, <3>2, <3>3, <3>4 DEF Counted
  <2>4. Live /\ store' # Unset => store' \in marks'
    BY <2>1
  <2> QED  BY <2>1, <2>3, <2>4 DEF CountInv, Counted, Tie, Excluded
<1>13. CASE SetState /\ ~(mode.tracked /\ state # Unset)
  <2>1. state = Unset
    BY <1>13, ModeIs DEF SetState, RunInv
  <2>2. /\ UNCHANGED <<mode, writes, target>> /\ store' = Unset
        /\ mode.write = "append" => UNCHANGED marks /\ repeats' = repeats + 1
    BY <1>13, <2>1 DEF SetState, Return, database, Repeated
  <2>3. CASE mode.write = "append"
    BY <1>10, <2>2, <2>3
  <2>4. CASE mode.write # "append"
    BY <2>2, <2>4 DEF CountInv
  <2> QED  BY <2>3, <2>4
<1>14. ASSUME Ends, UNCHANGED <<store, marks>>, Repeated,
              UNCHANGED target \/ (target' = Landed /\ phase = "loaded")
       PROVE  CountInv'
  <2>1. UNCHANGED <<mode, writes>> /\ phase' = "idle"
    BY <1>14 DEF Ends, database
  <2>2. CASE mode.write = "append"
    BY <1>10, <1>14, <2>1, <2>2 DEF Repeated
  <2>3. CASE mode.write # "append"
    BY <2>1, <2>3 DEF CountInv
  <2> QED  BY <2>2, <2>3
<1>15. CASE SetRaises
  BY <1>14, <1>15, EndsCases DEF SetRaises
<1>16. CASE AckLost
  BY <1>14, <1>16, EndsCases DEF AckLost
<1>17. CASE SetFails
  BY <1>14, <1>17, EndsCases DEF SetFails
<1>18. CASE Crash
  <2>1. CASE phase = "landed"
    BY <1>14, <1>18, <2>1, EndsCases DEF Crash
  <2>2. CASE phase # "landed"
    BY <1>6, <1>18, <2>2, EndsCases DEF Crash, Ends, database
  <2> QED  BY <2>1, <2>2
<1> QED
  BY <1>3, <1>4, <1>5, <1>7, <1>8, <1>9, <1>11, <1>12, <1>13, <1>15, <1>16, <1>17, <1>18,
     WritesAdd, StepCases

-----------------------------------------------------------------------------
(* Theorems.                                                                 *)

(* Nothing has been written, read or stored to begin with.                   *)
LEMMA InitInv ==
    ASSUME Init
    PROVE  CursorInv
<1>1. CursorTypeOK
  BY CursorAssumption DEF Init, CursorTypeOK, Marks, Versions
<1>2. VersionInv
  BY CursorAssumption DEF Init, VersionInv, Versions
<1>3. RunInv
  BY DEF Init, RunInv
<1>4. CoverInv
  BY DEF Init, CoverInv
<1>5. CountInv
  BY DEF Init, CountInv, Versions
<1> QED  BY <1>1, <1>2, <1>3, <1>4, <1>5 DEF CursorInv

(* Whatever the modes, the number of rows, cursors, faults and runs, the     *)
(* invariant of the reads holds in every state.                              *)
THEOREM CursorInvariant == Spec => []CursorInv
<1>1. Init => CursorInv
  BY InitInv
<1>2. CursorInv /\ [Next]_vars => CursorInv'
  BY TypeStep, VersionStep, RunStep, CoverStep, CountStep DEF CursorInv
<1> QED  BY <1>1, <1>2, PTL DEF Spec

(* The database, the destination and the run have their types.               *)
THEOREM CursorTypeCorrect == Spec => []CursorTypeOK
<1>1. CursorInv => CursorTypeOK
  BY DEF CursorInv
<1> QED  BY <1>1, CursorInvariant, PTL

(* No row is passed over but by a writer: what the next run of an            *)
(* incremental stream will not ask for is in the destination, or was         *)
(* committed behind a query or a watermark.                                  *)
THEOREM OnlyWritersPassOver == Spec => []OnlyLateRowsPassedOver
<1>1. ASSUME CursorInv  PROVE  OnlyLateRowsPassedOver
  <2>1. SUFFICES ASSUME mode.tracked, store # Unset, NEW w \in visible \ late,
                        Readable(w), w \notin Selected(store)
                 PROVE  target[w] > 0
    BY DEF OnlyLateRowsPassedOver
  <2>2. CursorTypeOK /\ CoverInv
    BY <1>1 DEF CursorInv
  <2>3. mode.filter # "free"
    BY <2>1, <2>2, ModeIs DEF Selected, Asked
  <2>4. ~Passes(w, store)
    BY <2>1, <2>3, AskedIs DEF Selected
  <2> QED  BY <2>1, <2>2, <2>3, <2>4 DEF CoverInv, Covers
<1> QED  BY <1>1, CursorInvariant, PTL

(* A row of a stream that appends is there twice only where a commit was not *)
(* followed by its watermark, the stream was read anew, or the filter        *)
(* includes the watermark the row ties with.                                 *)
THEOREM RepeatsAccountedFor == Spec => []OnlyTiesRepeated
<1>1. ASSUME CursorInv  PROVE  OnlyTiesRepeated
  <2>1. SUFFICES ASSUME mode.write = "append", mode.filter # "free", NEW w \in Versions,
                        target[w] > 1 + repeats
                 PROVE  Tie(w)
    BY DEF OnlyTiesRepeated, Tie
  <2>2. CursorTypeOK /\ Counted(w)
    BY <1>1, <2>1, CountParts DEF CursorInv
  <2>3. target[w] \in Nat /\ repeats \in Nat
    BY <2>2 DEF CursorTypeOK
  <2> QED  BY <2>1, <2>2, <2>3 DEF Counted
<1> QED  BY <1>1, CursorInvariant, PTL

(* A stored watermark is only replaced by a later one, unless the run read   *)
(* the stream anew or the SQL file of a CacheSource does not filter by it.   *)
THEOREM WatermarkMovesOn == Spec => MarkMovesOn
<1> DEFINE A == store # Unset /\ store' # store =>
                   \/ base = Unset
                   \/ mode.reader = "cache_file" /\ mode.filter = "free"
                   \/ store' # Unset /\ store' > store
<1>1. ASSUME CursorInv, [Next]_vars  PROVE  [A]_vars
  <2>1. CursorTypeOK /\ RunInv
    BY <1>1 DEF CursorInv
  <2>2. CASE UNCHANGED store
    BY <2>2
  <2>3. CASE SetState
    <3>1. SUFFICES ASSUME store # Unset, store' # store, base # Unset,
                          ~(mode.reader = "cache_file" /\ mode.filter = "free")
                   PROVE  store' # Unset /\ store' > store
      OBVIOUS
    <3>2. phase = "landed" /\ store' = state /\ base = store /\ mode.tracked
      BY <2>1, <2>3, <3>1, ModeIs DEF SetState, RunInv
    <3>3. state # Unset /\ base <= state
      BY <2>1, <3>1, <3>2 DEF RunInv
    <3>4. state \in 0..MaxCursor /\ base \in 0..MaxCursor
      BY <2>1, <3>1, <3>3 DEF CursorTypeOK, Marks
    <3> QED  BY <3>1, <3>2, <3>3, <3>4
  <2>4. UNCHANGED store \/ SetState
    <3>1. \/ UNCHANGED vars
          \/ \E i \in Ids : Write(i, Clock) \/ Write(i, Clock + 1) \/ WriteNull(i)
          \/ \E w \in Versions : Become(w) \/ Remove(w)
          \/ \E full \in FullRefresh : Begin(full)
          \/ Execute \/ Drain \/ Commit \/ SetState \/ SetRaises \/ RefuseFile
          \/ FirstBatchFails \/ ReadFails \/ CommitFails \/ AckLost \/ SetFails \/ Crash
      BY <1>1 DEF Next, Step, Stop
    <3> QED
      BY <3>1, EndsCases DEF vars, Write, WriteNull, Become, Remove, Begin, Execute, Drain,
         Commit, FirstBatchFails
  <2> HIDE DEF A
  <2> QED  BY <2>2, <2>3, <2>4
<1>2. CursorInv /\ [Next]_vars => [A]_vars
  BY <1>1
<1>3. Spec => [][A]_vars
  BY <1>2, CursorInvariant, PTL DEF Spec
<1> QED  BY <1>3 DEF MarkMovesOn
=============================================================================
